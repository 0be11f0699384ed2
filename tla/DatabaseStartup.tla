-------------------------- MODULE DatabaseStartup --------------------------
(***************************************************************************)
(* Opening a database: the migrations of packages/db, and init of a        *)
(* storage adapter, which getStorage runs on the first use of a process.   *)
(* A database may be new or left by an older version, whose tables lack    *)
(* columns.  init is a sequence of statements, each committed by itself;   *)
(* the process can die between two of them and a statement on PostgreSQL   *)
(* can fail.  getStorage remembers the adapter before init has finished,   *)
(* so on PostgreSQL several callers can be in init at once; on SQLite init *)
(* does not yield and callers run it one after another.                    *)
(*                                                                         *)
(* Once storage is ready callers create datasets, and an administrator     *)
(* moves them between projects.                                            *)
(***************************************************************************)
EXTENDS Naturals, FiniteSets, Functions

CONSTANTS
  Callers,       \* requests that call getStorage
  Datasets,      \* dataset ids
  Default,       \* the id of the default dataset
  Projects,      \* ids of projects
  Legacy,        \* the id of the fallback project
  None,          \* NULL: no owner, or no such column
  Empty,         \* the empty text in project_id, which only SQLite can hold
  Wanted,        \* caller -> the dataset it creates when its storage is ready
  MaxCrashes     \* bound: deaths of the process

ASSUME StartupAssumption ==
  /\ Default \in Datasets
  /\ Legacy \in Projects
  /\ {None, Empty} \cap Projects = {}
  /\ Wanted \in [Callers -> Datasets]
  /\ MaxCrashes \in Nat

VARIABLES
  backend,       \* "sqlite" or "postgres"
  tables,        \* the tables that exist
  columns,       \* the columns later versions added, as far as they exist
  owner,         \* dataset -> project_id, for the rows of aurii_datasets
  projects,      \* project -> slug, for the rows of projects; PostgreSQL only
  migrated,      \* migrations in aurii_drizzle_migrations; 0001 adds the foreign key
  initialized,   \* _initialized of getStorage
  pc,            \* where each caller is
  crashes

startupVars == <<backend, tables, columns, owner, projects, migrated, initialized, pc, crashes>>

Tables == {"datasets", "entities", "runs"}

ColumnsOf == [datasets |-> {"project_id"},
              entities |-> {"schema_version", "entity_revision"},
              runs     |-> {"run_trigger"}]

Columns == UNION Range(ColumnsOf)

Slugs == {"legacy", "other"}

Owners == Projects \cup {None, Empty}

Labels == {"idle", "tables", "project", "backfill", "trigger", "version", "revision",
           "default", "ready", "creating", "rejected"}

InInit == Labels \ {"idle", "ready", "creating", "rejected"}

StartupTypeOK ==
  /\ backend \in {"sqlite", "postgres"}
  /\ tables \subseteq Tables /\ columns \subseteq Columns
  /\ \E rows \in SUBSET Datasets : owner \in [rows -> Owners]
  /\ \E rows \in SUBSET Projects : projects \in [rows -> Slugs]
  /\ migrated \subseteq {"0000", "0001"}
  /\ initialized \in BOOLEAN
  /\ pc \in [Callers -> Labels]
  /\ crashes \in 0 .. MaxCrashes

(* A new database, or one with the tables of an older version: any of the   *)
(* added columns can be missing, and then every dataset is without owner.   *)
StartupInit ==
  /\ backend \in {"sqlite", "postgres"}
  /\ tables \in {{}, Tables}
  /\ columns \in IF tables = {} THEN {{}} ELSE SUBSET Columns
  /\ owner \in UNION {[rows -> Owners] : rows \in IF tables = {} THEN {{}} ELSE SUBSET {Default}}
  /\ \A d \in DOMAIN owner : /\ "project_id" \notin columns => owner[d] = None
                             /\ owner[d] = Empty => backend = "sqlite"
  /\ projects = <<>>
  /\ migrated = {}
  /\ initialized = FALSE
  /\ pc = [p \in Callers |-> "idle"]
  /\ crashes = 0

(* INSERT ... ON CONFLICT DO NOTHING: a row that is there stays.            *)
WithRow(rows, key, value) ==
  [k \in DOMAIN rows \cup {key} |-> IF k \in DOMAIN rows THEN rows[k] ELSE value]

Goto(p, label) == pc' = [pc EXCEPT ![p] = label]

Owned(d) == owner[d] \in Projects

(* An owner the foreign key of migration 0001 accepts.                      *)
Accepted(project) == "0001" \in migrated => project \in DOMAIN projects

HasSlug(slug) == \E q \in DOMAIN projects : projects[q] = slug

IdWithSlug(slug) == CHOOSE q \in DOMAIN projects : projects[q] = slug

-----------------------------------------------------------------------------
(* getStorage and init *)

GetStorage(p) ==
  /\ pc[p] = "idle"
  /\ Goto(p, IF initialized THEN "ready" ELSE "tables")
  /\ UNCHANGED <<backend, tables, columns, owner, projects, migrated, initialized, crashes>>

(* A statement of p's init: SQLite runs no other caller's meanwhile.        *)
MayInit(p, label) ==
  /\ pc[p] = label
  /\ backend = "sqlite" => \A o \in Callers \ {p} : pc[o] \notin InInit \ {"tables"}

InitVars == <<backend, projects, migrated, initialized, crashes>>

(* CREATE TABLE IF NOT EXISTS gives a table that is there no new columns;   *)
(* CREATE INDEX then needs project_id.                                      *)
NewColumns == UNION {ColumnsOf[t] : t \in Tables \ tables}

IndexFails == "datasets" \in tables /\ "project_id" \notin columns

(* exec runs statement by statement: those before the index stay.           *)
SqliteCreateTables(p) ==
  /\ backend = "sqlite" /\ MayInit(p, "tables")
  /\ IF IndexFails
     THEN /\ tables' = tables \cup {"datasets", "entities"}
          /\ columns' = columns \cup (IF "entities" \in tables THEN {} ELSE ColumnsOf.entities)
          /\ Goto(p, "rejected")
     ELSE /\ tables' = Tables
          /\ columns' = columns \cup NewColumns
          /\ Goto(p, "project")
  /\ UNCHANGED <<InitVars, owner>>

(* One query of several statements is one transaction.                      *)
PostgresCreateTables(p) ==
  /\ backend = "postgres" /\ MayInit(p, "tables")
  /\ tables' = IF IndexFails THEN tables ELSE Tables
  /\ columns' = IF IndexFails THEN columns ELSE columns \cup NewColumns
  /\ Goto(p, IF IndexFails THEN "rejected" ELSE "project")
  /\ UNCHANGED <<InitVars, owner>>

AddColumn(p, column, next) ==
  /\ columns' = columns \cup {column}
  /\ owner' = IF column = "project_id" /\ column \notin columns
              THEN [d \in DOMAIN owner |-> Legacy] ELSE owner
  /\ Goto(p, next)
  /\ UNCHANGED <<InitVars, tables>>

Backfilled(missing) == [d \in DOMAIN owner |-> IF owner[d] \in missing THEN Legacy ELSE owner[d]]

SqliteEnsureProjectId(p) ==
  \/ /\ backend = "sqlite" /\ MayInit(p, "project")
     /\ AddColumn(p, "project_id", "backfill")
  \/ /\ backend = "sqlite" /\ MayInit(p, "backfill")
     /\ owner' = Backfilled({None, Empty})
     /\ Goto(p, "trigger")
     /\ UNCHANGED <<InitVars, tables, columns>>

PostgresEnsureProjectId(p) ==
  /\ backend = "postgres" /\ MayInit(p, "project")
  /\ columns' = columns \cup {"project_id"}
  /\ owner' = Backfilled({None})
  /\ \A d \in DOMAIN owner : owner[d] = None => Accepted(Legacy)
  /\ Goto(p, "trigger")
  /\ UNCHANGED <<InitVars, tables>>

EnsureImportRunTrigger(p) ==
  /\ MayInit(p, "trigger")
  /\ AddColumn(p, "run_trigger", "version")

SqliteEnsureRevisionColumns(p) ==
  /\ backend = "sqlite"
  /\ \/ MayInit(p, "version") /\ AddColumn(p, "schema_version", "revision")
     \/ MayInit(p, "revision") /\ AddColumn(p, "entity_revision", "default")

PostgresEnsureRevisionColumns(p) ==
  /\ backend = "postgres" /\ MayInit(p, "version")
  /\ columns' = columns \cup {"schema_version", "entity_revision"}
  /\ Goto(p, "default")
  /\ UNCHANGED <<InitVars, tables, owner>>

(* The insert of the default dataset, and getStorage returns.               *)
InsertDefaultDataset(p) ==
  /\ MayInit(p, "default")
  /\ Default \notin DOMAIN owner => Accepted(Legacy)
  /\ owner' = WithRow(owner, Default, Legacy)
  /\ initialized' = TRUE
  /\ Goto(p, "ready")
  /\ UNCHANGED <<backend, tables, columns, projects, migrated, crashes>>

(* A statement fails on PostgreSQL: the connection is lost, another caller  *)
(* added the column between the check and the ALTER, the foreign key has no *)
(* fallback project.  The caller gets the error; the next one starts again. *)
InitFails(p) ==
  /\ backend = "postgres" /\ pc[p] \in InInit
  /\ Goto(p, "idle")
  /\ UNCHANGED <<InitVars, tables, columns, owner>>

Crash ==
  /\ crashes < MaxCrashes
  /\ crashes' = crashes + 1
  /\ initialized' = FALSE
  /\ pc' = [p \in Callers |-> "idle"]
  /\ UNCHANGED <<backend, tables, columns, owner, projects, migrated>>

-----------------------------------------------------------------------------
(* Migrations, each one transaction.                                        *)
MigrateProjects ==
  /\ backend = "postgres" /\ "0000" \notin migrated
  /\ migrated' = migrated \cup {"0000"}
  /\ UNCHANGED <<backend, tables, columns, owner, projects, initialized, pc, crashes>>

(* Both inserts of the fallback project go through: its id and its slug are *)
(* each free, or both the same row's.  The foreign key accepts every owner. *)
MigrateDatasets ==
  LET ensured == WithRow(projects, Legacy, "legacy")
      filled == Backfilled({None})
  IN  /\ backend = "postgres" /\ "0000" \in migrated /\ "0001" \notin migrated
      /\ Legacy \in DOMAIN projects <=> HasSlug("legacy")
      /\ HasSlug("legacy") => IdWithSlug("legacy") = Legacy
      /\ Range(filled) \subseteq DOMAIN ensured
      /\ projects' = ensured
      /\ owner' = filled
      /\ tables' = tables \cup {"datasets"}
      /\ columns' = columns \cup {"project_id"}
      /\ migrated' = migrated \cup {"0001"}
      /\ UNCHANGED <<backend, initialized, pc, crashes>>

(* ensureLegacyProject and the seed: by slug first, then by id.             *)
EnsureLegacyProject ==
  /\ backend = "postgres" /\ "0000" \in migrated
  /\ ~HasSlug("legacy") /\ Legacy \notin DOMAIN projects
  /\ projects' = WithRow(projects, Legacy, "legacy")
  /\ UNCHANGED <<backend, tables, columns, owner, migrated, initialized, pc, crashes>>

CreateProject(q, slug) ==
  /\ backend = "postgres" /\ "0000" \in migrated
  /\ q \notin DOMAIN projects \cup {Legacy}
  /\ ~HasSlug(slug)
  /\ projects' = WithRow(projects, q, slug)
  /\ UNCHANGED <<backend, tables, columns, owner, migrated, initialized, pc, crashes>>

RenameProject(q, slug) ==
  /\ backend = "postgres" /\ q \in DOMAIN projects
  /\ ~HasSlug(slug)
  /\ projects' = [projects EXCEPT ![q] = slug]
  /\ UNCHANGED <<backend, tables, columns, owner, migrated, initialized, pc, crashes>>

-----------------------------------------------------------------------------
(* Datasets of a ready storage.  The service finds the id free, and writes  *)
(* an upsert after an await: a dataset created in between keeps its owner,  *)
(* which the first definition, a bug, forgets.                              *)
TakeOver(d, project) ==
  [e \in DOMAIN owner \cup {d} |-> IF e = d THEN project ELSE owner[e]]

UpsertOwner(d, project) == WithRow(owner, d, project)

CheckDatasetFree(p) ==
  /\ pc[p] = "ready"
  /\ Wanted[p] \notin DOMAIN owner
  /\ Goto(p, "creating")
  /\ UNCHANGED <<backend, tables, columns, owner, projects, migrated, initialized, crashes>>

CreateDataset(p, project) ==
  /\ pc[p] = "creating"
  /\ backend = "postgres" => project \in DOMAIN projects
  /\ owner' = UpsertOwner(Wanted[p], project)
  /\ Goto(p, "idle")
  /\ UNCHANGED <<backend, tables, columns, projects, migrated, initialized, crashes>>

(* The administrative script and service: the target project is looked up.  *)
ReassignDataset(d, project) ==
  /\ initialized
  /\ backend = "postgres" => project \in DOMAIN projects
  /\ d \in DOMAIN owner /\ owner[d] # project
  /\ owner' = [owner EXCEPT ![d] = project]
  /\ UNCHANGED <<backend, tables, columns, projects, migrated, initialized, pc, crashes>>

StartupNext ==
  \/ \E p \in Callers : \/ GetStorage(p)
                        \/ SqliteCreateTables(p) \/ PostgresCreateTables(p)
                        \/ SqliteEnsureProjectId(p) \/ PostgresEnsureProjectId(p)
                        \/ EnsureImportRunTrigger(p)
                        \/ SqliteEnsureRevisionColumns(p) \/ PostgresEnsureRevisionColumns(p)
                        \/ InsertDefaultDataset(p)
                        \/ InitFails(p)
                        \/ CheckDatasetFree(p)
                        \/ \E q \in Projects : CreateDataset(p, q)
  \/ Crash
  \/ MigrateProjects \/ MigrateDatasets
  \/ EnsureLegacyProject
  \/ \E q \in Projects, slug \in Slugs : CreateProject(q, slug) \/ RenameProject(q, slug)
  \/ \E d \in Datasets, q \in Projects : ReassignDataset(d, q)

StartupSpec == StartupInit /\ [][StartupNext]_startupVars

-----------------------------------------------------------------------------
(* Once storage is ready every table has every column, the default dataset  *)
(* is there and every dataset has an owner, after any crash and restart and *)
(* any order of migrations and init (sqlite.ts:233-249); and an owner, once *)
(* there, is only changed by a reassignment (sqlite.ts:344, postgres.ts:329)*)
DatasetsOwned ==
  /\ [](initialized => /\ columns = Columns
                       /\ Default \in DOMAIN owner
                       /\ \A d \in DOMAIN owner : Owned(d))
  /\ [][\A d \in DOMAIN owner :
          Owned(d) /\ owner'[d] # owner[d] => \E q \in Projects : ReassignDataset(d, q)]_startupVars

(* A database that lacks project_id is migrated when it is opened           *)
(* (sqlite.ts:233, "Migrate pre-existing SQLite DBs that lack project_id"). *)
OpensOldDatabases == \A p \in Callers : pc[p] # "rejected"
=============================================================================
