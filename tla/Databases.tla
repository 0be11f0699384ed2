----------------------------- MODULE Databases -----------------------------
(***************************************************************************)
(* The same calls made on every implementation of a table: the Map of      *)
(* tests, SQLite and PostgreSQL.  A behaviour exercises one table, called  *)
(* group; calls come one after another, as the services make them: a row   *)
(* is inserted when a lookup has found none.                               *)
(***************************************************************************)
EXTENDS StorageTables

CONSTANTS
  ProjectIds, RowIds, DatasetIds,
  EventIds,         \* ids in the tables whose listings are limited
  Edited,           \* bound: the entities that are ever updated
  MaxClock          \* bound: ticks of the clock that stamps rows

(* The rows the calls of this module are about.                             *)
SourceRow == [project : ProjectIds, id : RowIds, dataset : DatasetIds]

PublishedRow == [project : ProjectIds, id : RowIds, path : DatasetIds, enabled : BOOLEAN]

TokenRow == [id : RowIds, project : ProjectIds, hash : RowIds, revoked : BOOLEAN]

EventRow == [id : EventIds, project : ProjectIds, at : Nat]

ProjectRow == [id : RowIds, slug : DatasetIds, status : {"active", "archived"}]

DatasetRow ==
  [id : DatasetIds, name : RowIds, project : ProjectIds \cup {LegacyProject}, description : {Null, "text"}]

SchemaRow ==
  [key : {"schema"} \X DatasetIds, version : {1, 2}, definition : RowIds,
   created : 0 .. MaxClock, updated : 0 .. MaxClock]

RunRow ==
  [id : EventIds, dataset : DatasetIds, status : {"running", "completed"}, imported : {0, 1},
   errors : {{}}, trigger : {"manual"}]

(* A JSON string, a number, no text, and a list.                            *)
Values == {[text |-> "1", extracted |-> "1"], [text |-> "1", extracted |-> Null],
           [text |-> "", extracted |-> ""], [text |-> "spaced", extracted |-> "dense"]}

EntityRow ==
  [id : EventIds, rev : Nat, version : Nat, schema : DatasetIds, dataset : {"ds"}, value : Values,
   at : 0 .. MaxClock]

(* null is no row and no project, undefined no number.                      *)
ASSUME DatabasesAssumption ==
  /\ Null \notin ProjectIds \cup {LegacyProject}
  /\ Null \notin SourceRow /\ Null \notin ProjectRow /\ Null \notin DatasetRow /\ Null \notin SchemaRow
  /\ Null \notin EntityRow /\ NotUuid \notin EventIds
  /\ Undefined \notin Nat /\ MaxClock \in Nat

VARIABLES group, memory, sqlite, postgres, clock

databaseVars == <<group, memory, sqlite, postgres, clock>>

Groups == {"sources", "imports", "routes", "tokens", "secrets", "audit",
           "projects", "datasets", "schemas", "entities", "runs"}

NoRows == [rows |-> <<>>, snapshots |-> <<>>]

EmptyTable == IF group = "entities" THEN NoRows ELSE <<>>

Memory(c) ==
  CASE group = "sources"  -> MemorySources(memory, c)
    [] group = "imports"  -> MemoryImports(memory, c)
    [] group = "routes"   -> MemoryRoutes(memory, c)
    [] group = "tokens"   -> MemoryTokens(memory, c)
    [] group = "secrets"  -> MemorySecrets(memory, c)
    [] group = "audit"    -> MemoryAudit(memory, c)
    [] group = "projects" -> MemoryProjects(memory, c)
    [] OTHER              -> Done(memory, Null)

Sqlite(c) ==
  CASE group = "sources"  -> SqliteSources(sqlite, c)
    [] group = "imports"  -> SqliteImports(sqlite, c)
    [] group = "routes"   -> SqliteRoutes(sqlite, c)
    [] group = "tokens"   -> SqliteTokens(sqlite, c)
    [] group = "secrets"  -> SqliteSecrets(sqlite, c)
    [] group = "audit"    -> SqliteAudit(sqlite, c)
    [] group = "datasets" -> SqliteDatasets(sqlite, c)
    [] group = "schemas"  -> SqliteSchemas(sqlite, c)
    [] group = "runs"     -> SqliteRuns(sqlite, c)
    [] group = "entities" -> IF c.op = "store" THEN Done(c.table, Null)
                             ELSE Done(sqlite, IF c.op = "stats" THEN SqliteStats(sqlite, c)
                                               ELSE SqliteEntities(sqlite, c))
    [] OTHER              -> Done(sqlite, Null)

Postgres(c) ==
  CASE group = "sources"  -> PostgresSources(postgres, c)
    [] group = "imports"  -> PostgresImports(postgres, c)
    [] group = "routes"   -> PostgresRoutes(postgres, c)
    [] group = "tokens"   -> PostgresTokens(postgres, c)
    [] group = "secrets"  -> PostgresSecrets(postgres, c)
    [] group = "audit"    -> PostgresAudit(postgres, c)
    [] group = "projects" -> DrizzleProjects(postgres, c)
    [] group = "datasets" -> PostgresDatasets(postgres, c)
    [] group = "schemas"  -> PostgresSchemas(postgres, c)
    [] group = "runs"     -> PostgresRuns(postgres, c)
    [] group = "entities" -> IF c.op = "store" THEN Done(c.table, Null)
                             ELSE Done(postgres, IF c.op = "stats" THEN PostgresStats(postgres, c)
                                                 ELSE PostgresEntities(postgres, c))

-----------------------------------------------------------------------------
(* The calls the services make in a state.                                  *)
Keys == ProjectIds \X RowIds

InsertIfNew(row, key) == IF key \in DOMAIN memory THEN {} ELSE {[op |-> "insert", row |-> row]}

RowCalls ==
  LET row(k, d) == [project |-> k[1], id |-> k[2], dataset |-> d]
  IN  (UNION {InsertIfNew(row(k, d), k) : k \in Keys, d \in DatasetIds})
      \cup {[op |-> "update", key |-> k, row |-> row(k, d)] : k \in Keys, d \in DatasetIds}
      \cup {[op |-> o, key |-> k] : o \in {"get", "delete"}, k \in Keys}
      \cup {[op |-> "list", project |-> p, dataset |-> d] : p \in ProjectIds, d \in DatasetIds \cup {Null}}

RouteCalls ==
  {[op |-> "upsert", row |-> [project |-> k[1], id |-> k[2], path |-> path, enabled |-> e]] :
      k \in Keys, path \in DatasetIds, e \in BOOLEAN}
  \cup {[op |-> o, key |-> k] : o \in {"get", "delete"}, k \in Keys}
  \cup {[op |-> "list", project |-> p] : p \in ProjectIds}
  \cup {[op |-> "find", project |-> p, path |-> path] : p \in ProjectIds, path \in DatasetIds}

(* Ids and hashes of tokens are fresh.                                      *)
TokenCalls ==
  (UNION {InsertIfNew([id |-> i, project |-> p, hash |-> i, revoked |-> FALSE], i) : i \in RowIds, p \in ProjectIds})
  \cup {[op |-> "find", hash |-> i] : i \in RowIds}
  \cup {[op |-> "list", project |-> p] : p \in ProjectIds}
  \cup {[op |-> "revoke", project |-> p, id |-> i] : p \in ProjectIds, i \in RowIds}

SecretCalls ==
  {[op |-> "put", id |-> i, value |-> v] : i \in RowIds, v \in DatasetIds}
  \cup {[op |-> o, id |-> i] : o \in {"get", "delete"}, i \in RowIds}

AuditCalls ==
  {[op |-> "append", row |-> [id |-> i, project |-> p, at |-> clock]] :
      i \in {i \in EventIds : \A n \in DOMAIN memory : memory[n].id # i}, p \in ProjectIds}
  \cup {[op |-> "list", project |-> p, limit |-> n] : p \in ProjectIds, n \in 1 .. 2}

(* ProjectService looks for the slug before it writes one.                  *)
FreeSlugs == {s \in DatasetIds : BySlug(memory, s) = {Null}}

ProjectCalls ==
  LET row(p, s) == [id |-> p, slug |-> s, status |-> "active"]
      patches == [slug : FreeSlugs, status : {Undefined}] \cup [slug : {Undefined}, status : {"active", "archived"}]
  IN  (UNION {InsertIfNew(row(p, s), p) : p \in RowIds, s \in FreeSlugs})
      \cup {[op |-> "update", id |-> p, patch |-> patch] : p \in RowIds, patch \in patches}
      \cup {[op |-> "get", id |-> p] : p \in RowIds}
      \cup {[op |-> "slug", slug |-> s] : s \in DatasetIds}
      \cup {[op |-> "list", status |-> s] : s \in {Undefined, "active", "archived"}}

DatasetCalls ==
  [op : {"create"}, id : DatasetIds, name : RowIds, description : {Undefined, "text"}, project : ProjectIds \cup {Undefined}]
  \cup [op : {"update"}, id : DatasetIds, name : {Undefined} \cup RowIds, description : {Undefined, Null, "text"}]
  \cup [op : {"reassign"}, id : DatasetIds, project : ProjectIds]
  \cup [op : {"get"}, id : DatasetIds]
  \cup [op : {"list"}, project : ProjectIds \cup {Undefined}]

(* One of the datasets does not exist.                                      *)
SchemaCalls ==
  LET known(d) == d = CHOOSE e \in DatasetIds : TRUE
  IN  {[op |-> "upsert", key |-> <<"schema", d>>, version |-> v, definition |-> f, known |-> known(d), now |-> clock] :
         d \in DatasetIds, v \in {Undefined, 2}, f \in RowIds}
      \cup {[op |-> o, key |-> <<"schema", d>>] : o \in {"get", "delete"}, d \in DatasetIds}
      \cup [op : {"list"}, dataset : DatasetIds \cup {Undefined}]

Stored(i, schema, value) ==
  LET old == Find(sqlite.rows, i)
      row == IF old = Null
             THEN [id |-> i, rev |-> 1, version |-> 1, schema |-> schema, dataset |-> "ds",
                   value |-> value, at |-> clock]
             ELSE [old EXCEPT !.rev = @ + 1, !.version = @ + 1, !.value = value]
  IN  [rows |-> Put(sqlite.rows, i, row), snapshots |-> Put(sqlite.snapshots, <<i, row.rev>>, row)]

SearchedTexts == {"", "1", "dense", "spaced"}

(* Every caller of a listing gives a limit.                                 *)
EntityCalls ==
  {[op |-> "store", table |-> Stored(i, s, v)] :
     i \in {i \in EventIds : Find(sqlite.rows, i) = Null \/ (i \in Edited /\ sqlite.rows[i].rev = 1)}, s \in DatasetIds, v \in Values}
  \cup {[op |-> "get", id |-> i] : i \in EventIds \cup {NotUuid}}
  \cup {[op |-> "revision", id |-> i, rev |-> n] : i \in EventIds \cup {NotUuid}, n \in 1 .. 2}
  \cup [op : {"count", "stats"}, schema : DatasetIds, dataset : {"ds"}]
  \cup [op : {"find"}, text : SearchedTexts, schema : DatasetIds, dataset : {"ds"}]
  \cup [op : {"list"}, limit : 1 .. 2, offset : {Undefined, 1}, schema : DatasetIds, dataset : {"ds"}]

(* A run is recorded once, and patched when it has finished.                *)
RunCalls ==
  LET run(i, d) == [id |-> i, dataset |-> d, status |-> "running", imported |-> 0, errors |-> {}, trigger |-> "manual"]
  IN  {[op |-> "record", id |-> i, run |-> run(i, d), now |-> clock] : i \in EventIds \ DOMAIN sqlite, d \in DatasetIds}
      \cup [op : {"update"}, id : EventIds, patch : [status : {"completed"}, imported : {1, Undefined}]]
      \cup [op : {"list"}, dataset : DatasetIds \cup {Undefined}, limit : 1 .. 2]

Calls ==
  CASE group \in {"sources", "imports"} -> RowCalls
    [] group = "routes"   -> RouteCalls
    [] group = "tokens"   -> TokenCalls
    [] group = "secrets"  -> SecretCalls
    [] group = "audit"    -> AuditCalls
    [] group = "projects" -> ProjectCalls
    [] group = "datasets" -> DatasetCalls
    [] group = "schemas"  -> SchemaCalls
    [] group = "entities" -> EntityCalls
    [] group = "runs"     -> RunCalls
    [] OTHER              -> {}

-----------------------------------------------------------------------------
DatabaseInit ==
  /\ group \in Groups
  /\ memory = EmptyTable /\ sqlite = EmptyTable /\ postgres = EmptyTable
  /\ clock = 0

Call(c) ==
  /\ memory' = Memory(c).table
  /\ sqlite' = Sqlite(c).table
  /\ postgres' = Postgres(c).table
  /\ UNCHANGED <<group, clock>>

Tick ==
  /\ group \in {"audit", "schemas", "entities", "runs"}
  /\ clock < MaxClock
  /\ clock' = clock + 1
  /\ UNCHANGED <<group, memory, sqlite, postgres>>

DatabaseNext == (\E c \in Calls : Call(c)) \/ Tick

-----------------------------------------------------------------------------
(* Where both databases read one text in a value: in a JSON string.         *)
ReadAlike(r) == r # Null /\ r.value.text = r.value.extracted

(* What two answers to a call have in common.  The Map keeps the order of   *)
(* audit events of one instant; PostgreSQL's page of runs is one SQLite may *)
(* give, which knows only the second of a run; PostgreSQL refuses an id     *)
(* that is no UUID; found by a field are the same entities where the value  *)
(* is read alike, on PostgreSQL without revision and schema version.        *)
AnswersAgree(c) ==
  LET m == Memory(c).answer
      s == Sqlite(c).answer
      p == Postgres(c).answer
  IN  CASE group = "projects"                      -> m = p
        [] group = "audit" /\ c.op = "list"        -> m \subseteq s /\ s = p
        [] group = "runs" /\ c.op = "list"         -> p \subseteq s
        [] group = "entities" /\ c.op = "find"     ->
             {Unversioned(r) : r \in {r \in s : ReadAlike(r)}} = {r \in p : ReadAlike(r)}
        [] group = "entities" /\ c.op \in {"get", "revision"} ->
             IF c.id = NotUuid THEN s = Null /\ p = Failed ELSE s = p
        [] \/ group \in {"datasets", "schemas"}
           \/ group = "runs" /\ c.op # "list"
           \/ group = "entities" /\ c.op \notin {"find", "get", "revision"} -> s = p
        [] OTHER                                   -> m = s /\ s = p

(* Tests run on the Map and a deployment on SQLite or PostgreSQL            *)
(* (docs/PROJECT_PACKAGES.md:164), and what a test observes is what a       *)
(* deployment answers: after any sequence of calls every call is answered   *)
(* alike by the implementations of a table, but for the differences that    *)
(* AnswersAgree names, although SQL keeps lookup columns beside a row's     *)
(* JSON and constraints the Map has not.                                    *)
BackendsAgree == \A c \in Calls : AnswersAgree(c)

DatabaseSpec == DatabaseInit /\ [][DatabaseNext]_databaseVars

-----------------------------------------------------------------------------
(* The inductive invariant: what the tables of one group have in common.    *)
IsTable(t) == t = [k \in DOMAIN t |-> t[k]]

(* Two tables have rows under the same keys, and rel relates each key, the  *)
(* row of one and the row of the other.                                     *)
Coupled(t, u, rel) ==
  /\ IsTable(t) /\ IsTable(u) /\ DOMAIN u = DOMAIN t
  /\ \A k \in DOMAIN t : <<k, t[k], u[k]>> \in rel

(* Columns that SQL keeps beside the payload are those of the payload.      *)
SourceRows == {<<RowKey(r), r, [payload |-> r]>> : r \in SourceRow}

ImportRows == {<<RowKey(r), r, [dataset_id |-> r.dataset, payload |-> r]>> : r \in SourceRow}

RouteRows == {<<RowKey(r), r, RouteColumns(r)>> : r \in PublishedRow}

TokenRows == {<<r.id, r, TokenColumns(r)>> : r \in {r \in TokenRow : r.hash = r.id}}

SecretRows == {<<i, v, [value |-> v]>> : i \in RowIds, v \in DatasetIds}

ProjectRows == {<<r.id, r, r>> : r \in ProjectRow}

DatasetRows == {<<r.id, r, r>> : r \in DatasetRow}

SchemaRows == {<<r.key, r, r>> : r \in SchemaRow}

(* SQLite knows only the second of a run.                                   *)
RunRows ==
  {<<r.run.id, [run |-> r.run, at |-> r.at \div Second], r>> : r \in [run : RunRow, at : 0 .. MaxClock]}

(* The clock never goes back, so the Map's array is in the order of time.   *)
AuditCoupled(m, s) ==
  /\ m \in Seq(EventRow)
  /\ \A i, j \in DOMAIN m : i < j => m[i].at =< m[j].at /\ m[i].id # m[j].id
  /\ IsTable(s) /\ DOMAIN s = {m[n].id : n \in DOMAIN m}
  /\ \A n \in DOMAIN m : s[m[n].id] = [project_id |-> m[n].project, payload |-> m[n]]

(* Nobody takes a slug that is taken, so the unique index refuses nothing.  *)
SlugsUnique(t) == \A k, l \in DOMAIN t : t[k].slug = t[l].slug => k = l

(* Entities have the ids the database gave them, which are UUIDs.           *)
EntityTable(t) ==
  /\ DOMAIN t.rows \subseteq EventIds /\ \A i \in DOMAIN t.rows : t.rows[i] \in EntityRow
  /\ DOMAIN t.snapshots \subseteq EventIds \X Nat

DatabasesInv ==
  /\ group \in Groups /\ clock \in 0 .. MaxClock
  /\ group = "sources"  => Coupled(memory, sqlite, SourceRows)
  /\ group = "imports"  => Coupled(memory, sqlite, ImportRows)
  /\ group = "routes"   => Coupled(memory, sqlite, RouteRows)
  /\ group = "tokens"   => Coupled(memory, sqlite, TokenRows)
  /\ group = "secrets"  => Coupled(memory, sqlite, SecretRows)
  /\ group = "audit"    => AuditCoupled(memory, sqlite) /\ \A n \in DOMAIN memory : memory[n].at =< clock
  /\ group = "projects" => Coupled(memory, postgres, ProjectRows) /\ SlugsUnique(memory)
  /\ group = "datasets" => Coupled(sqlite, postgres, DatasetRows)
  /\ group = "schemas"  => Coupled(sqlite, postgres, SchemaRows)
  /\ group = "runs"     => Coupled(sqlite, postgres, RunRows) /\ IsFiniteSet(DOMAIN sqlite)
  /\ group = "entities" => EntityTable(sqlite)
  /\ group \notin {"projects", "runs"} => postgres = sqlite
=============================================================================
