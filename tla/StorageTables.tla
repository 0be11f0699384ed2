--------------------------- MODULE StorageTables ---------------------------
(***************************************************************************)
(* The tables of the storage adapters beside the writes of entities:       *)
(* datasets, schemas, the reads of entities and revisions, import runs and *)
(* statistics on SQLite (storage/sqlite.ts) and PostgreSQL                 *)
(* (storage/postgres.ts), and the project repositories in memory and on    *)
(* PostgreSQL.  As in PlatformStores an operator takes a table and a call. *)
(*                                                                         *)
(* A listing is ORDER BY created_at: rows of one instant come in any order,*)
(* so the answer of a limited listing is the set of the pages it may give. *)
(***************************************************************************)
EXTENDS PlatformStores, Integers

CONSTANTS
  Undefined,     \* the argument is left out, where null is also possible
  NotUuid,       \* an id a client may send that is no UUID
  LegacyProject, \* LEGACY_PROJECT_ID
  Second,        \* clock ticks in a second
  DefaultLimit,  \* listEntities on PostgreSQL without a limit: 50
  SampleSize     \* entities getStats looks at: 1000

ASSUME StorageAssumption == Second \in Nat \ {0} /\ DefaultLimit \in Nat /\ SampleSize \in Nat

Or(value, default) == IF value = Undefined THEN default ELSE value

Selected(t, Accepts(_)) == {t[k] : k \in {k \in DOMAIN t : Accepts(t[k])}}

(* LIMIT l OFFSET o of the rows, newest first.                              *)
Pages(rows, l, o) == UNION {Latest(rows \ skipped, l) : skipped \in Latest(rows, o)}

-----------------------------------------------------------------------------
(* Datasets *)
SqliteDatasets(t, c) ==
  CASE c.op = "create" ->
         LET old == Find(t, c.id)
             owner == IF old = Null \/ old.project = Null THEN Or(c.project, LegacyProject) ELSE old.project
             row == [id |-> c.id, name |-> c.name, project |-> owner,
                     description |-> Or(c.description, Null)]
         IN  Done(Put(t, c.id, row), row)
    [] c.op = "get" -> Done(t, Find(t, c.id))
    [] c.op = "list" -> Done(t, Selected(t, LAMBDA r : c.project \in {Undefined, r.project}))
    [] c.op = "update" ->
         LET old == Find(t, c.id)
             row == [old EXCEPT !.name = Or(c.name, @), !.description = Or(c.description, @)]
         IN  IF old = Null THEN Done(t, Null) ELSE Done(Put(t, c.id, row), row)
    [] c.op = "reassign" ->
         IF c.id \notin DOMAIN t THEN Done(t, Null)
         ELSE Done([t EXCEPT ![c.id].project = c.project], [t[c.id] EXCEPT !.project = c.project])

(* DO UPDATE names the two columns it sets; project_id is none of them.     *)
PostgresDatasets(t, c) ==
  CASE c.op = "create" ->
         LET new == [id |-> c.id, name |-> c.name, project |-> Or(c.project, LegacyProject),
                     description |-> Or(c.description, Null)]
             after == Upsert(t, c.id, new, {"name", "description"})
         IN  Done(after, after[c.id])
    [] c.op = "get" -> Done(t, Find(t, c.id))
    [] c.op = "list" -> Done(t, Selected(t, LAMBDA r : c.project = Undefined \/ r.project = c.project))
    [] c.op = "update" ->
         LET after == Update(t, c.id, [name |-> Or(c.name, t[c.id].name),
                                       description |-> Or(c.description, t[c.id].description)])
         IN  IF c.id \in DOMAIN t THEN Done(after, after[c.id]) ELSE Done(t, Null)
    [] c.op = "reassign" ->
         LET after == Update(t, c.id, [project |-> c.project])
         IN  Done(after, Find(after, c.id))

-----------------------------------------------------------------------------
(* Schemas, keyed by id and dataset; dataset_id references aurii_datasets.  *)
(* The stored fields are those of the definition, a JSON column.            *)
SqliteSchemas(t, c) ==
  CASE c.op = "upsert" ->
         LET old == Find(t, c.key)
             row == [key |-> c.key, version |-> Or(c.version, 1), definition |-> c.definition,
                     created |-> IF old = Null THEN c.now ELSE old.created, updated |-> c.now]
         IN  IF c.known THEN Done(Put(t, c.key, row), row) ELSE Done(t, Failed)
    [] c.op = "get" -> Done(t, Find(t, c.key))
    [] c.op = "list" -> Done(t, Selected(t, LAMBDA r : c.dataset \in {Undefined, r.key[2]}))
    [] c.op = "delete" -> Done(Without(t, c.key), c.key \in DOMAIN t)

PostgresSchemas(t, c) ==
  CASE c.op = "upsert" ->
         LET new == [key |-> c.key, version |-> Or(c.version, 1), definition |-> c.definition,
                     created |-> c.now, updated |-> c.now]
             after == Upsert(t, c.key, new, {"version", "definition", "updated"})
         IN  IF c.known THEN Done(after, after[c.key]) ELSE Done(t, Failed)
    [] c.op = "get" -> Done(t, Find(t, c.key))
    [] c.op = "list" -> Done(t, Selected(t, LAMBDA r : c.dataset = Undefined \/ r.key[2] = c.dataset))
    [] c.op = "delete" -> Done(Without(t, c.key), \E k \in DOMAIN t : k = c.key)

-----------------------------------------------------------------------------
(* Reads of entities.  A table is [rows: id -> row, snapshots: (id, rev) -> *)
(* row].  A value is [text, extracted]: what ->> makes of it, and the text  *)
(* json_extract makes of it, Null where that is a number, which equals no   *)
(* text.  Nested values have spaces in PostgreSQL's text and none in        *)
(* SQLite's.                                                                *)
OfSchema(t, c) == Selected(t.rows, LAMBDA r : r.schema = c.schema /\ r.dataset = c.dataset)

AnyOf(rows) == IF rows = {} THEN {Null} ELSE rows

(* OFFSET is only SQL behind a LIMIT.                                       *)
SqliteEntities(t, c) ==
  CASE c.op = "get"      -> Find(t.rows, c.id)
    [] c.op = "revision" -> Find(t.snapshots, <<c.id, c.rev>>)
    [] c.op = "count"    -> Cardinality(OfSchema(t, c))
    [] c.op = "find"     -> AnyOf({r \in OfSchema(t, c) : r.value.extracted = c.text})
    [] c.op = "list"     ->
         IF c.limit = Undefined
         THEN IF c.offset = Undefined THEN {OfSchema(t, c)} ELSE {Failed}
         ELSE Pages(OfSchema(t, c), c.limit, Or(c.offset, 0))

(* findEntityByField selects neither entity_revision nor schema_version,    *)
(* and rowToEntity answers 1 for both.                                      *)
Unversioned(r) == [r EXCEPT !.rev = 1, !.version = 1]

(* The lookup by id casts to uuid.                                          *)
PostgresEntities(t, c) ==
  CASE c.op = "get"      -> IF c.id = NotUuid THEN Failed ELSE Find(t.rows, c.id)
    [] c.op = "revision" -> IF c.id = NotUuid THEN Failed ELSE Find(t.snapshots, <<c.id, c.rev>>)
    [] c.op = "count"    -> Cardinality(OfSchema(t, c))
    [] c.op = "find"     -> AnyOf({Unversioned(r) : r \in {r \in OfSchema(t, c) : r.value.text = c.text}})
    [] c.op = "list"     -> Pages(OfSchema(t, c), Or(c.limit, DefaultLimit), Or(c.offset, 0))

-----------------------------------------------------------------------------
(* Statistics of a dataset: counts, and for a field the share of the sample *)
(* in which it is populated, rounded to a percentage.                       *)
Percent(part, whole) == IF whole = 0 THEN 0 ELSE (200 * part + whole) \div (2 * whole)

Populated(sample) == {r \in sample : r.value.text \notin {"", "null"}}

SchemaStats(schema, count, sample) ==
  [schema |-> schema, count |-> count, pct |-> Percent(Cardinality(Populated(sample)), Cardinality(sample))]

SqliteStats(t, c) ==
  LET ask(op) == [op |-> op, schema |-> c.schema, dataset |-> c.dataset,
                  limit |-> SampleSize, offset |-> Undefined]
  IN  {SchemaStats(c.schema, SqliteEntities(t, ask("count")), sample) : sample \in SqliteEntities(t, ask("list"))}

PostgresStats(t, c) ==
  LET ask(op) == [op |-> op, schema |-> c.schema, dataset |-> c.dataset,
                  limit |-> SampleSize, offset |-> 0]
  IN  {SchemaStats(c.schema, PostgresEntities(t, ask("count")), sample) : sample \in PostgresEntities(t, ask("list"))}

-----------------------------------------------------------------------------
(* Import runs.  created_at is the database's default: datetime('now') has  *)
(* whole seconds, now() microseconds.  Listings leave created_at out here.  *)
Patched(run, patch) == [f \in DOMAIN run |-> IF f \in DOMAIN patch THEN Or(patch[f], run[f]) ELSE run[f]]

PatchedColumns == {"status", "imported", "errors"}

Listed(pages) == {{r.run : r \in page} : page \in pages}

SqliteRuns(t, c) ==
  CASE c.op = "record" -> Insert(t, c.id, [run |-> c.run, at |-> c.now \div Second], Null)
    [] c.op = "update" ->
         LET patch == Restrict(c.patch, PatchedColumns \cap DOMAIN c.patch)
         IN  Done(IF c.id \in DOMAIN t THEN [t EXCEPT ![c.id].run = Patched(@, patch)] ELSE t, Null)
    [] c.op = "list" ->
         Done(t, Listed(Latest(Selected(t, LAMBDA r : c.dataset \in {Undefined, r.run.dataset}), c.limit)))

PostgresRuns(t, c) ==
  CASE c.op = "record" -> Insert(t, c.id, [run |-> c.run, at |-> c.now], Null)
    [] c.op = "update" ->
         LET set == {f \in PatchedColumns \cap DOMAIN c.patch : c.patch[f] # Undefined}
         IN  Done(Update(t, c.id, IF c.id \in DOMAIN t
                                  THEN [run |-> With(t[c.id].run, Restrict(c.patch, set))]
                                  ELSE [run |-> Null]), Null)
    [] c.op = "list" ->
         Done(t, Listed(Latest(Selected(t, LAMBDA r : c.dataset = Undefined \/ r.run.dataset = c.dataset), c.limit)))

-----------------------------------------------------------------------------
(* Projects.  PostgreSQL has a unique index on the slug, the Map has none;  *)
(* a lookup by slug is Null or one project of the slug.                     *)
BySlug(t, slug) == AnyOf(Selected(t, LAMBDA p : p.slug = slug))

MemoryProjects(t, c) ==
  CASE c.op = "insert" -> Done(Put(t, c.row.id, c.row), c.row)
    [] c.op = "get"    -> Done(t, Find(t, c.id))
    [] c.op = "slug"   -> Done(t, BySlug(t, c.slug))
    [] c.op = "list"   -> Done(t, Selected(t, LAMBDA p : c.status \in {Undefined, p.status}))
    [] c.op = "update" ->
         IF c.id \notin DOMAIN t THEN Done(t, Null)
         ELSE LET row == Patched(t[c.id], c.patch) IN Done(Put(t, c.id, row), row)

SlugTaken(t, id, slug) == \E k \in DOMAIN t \ {id} : t[k].slug = slug

DrizzleProjects(t, c) ==
  CASE c.op = "insert" -> IF SlugTaken(t, c.row.id, c.row.slug) THEN Done(t, Failed)
                          ELSE Insert(t, c.row.id, c.row, c.row)
    [] c.op = "get"    -> Done(t, Find(t, c.id))
    [] c.op = "slug"   -> Done(t, BySlug(t, c.slug))
    [] c.op = "list"   -> Done(t, Selected(t, LAMBDA p : c.status = Undefined \/ p.status = c.status))
    [] c.op = "update" ->
         LET set == {f \in DOMAIN c.patch : c.patch[f] # Undefined}
             after == Update(t, c.id, Restrict(c.patch, set))
         IN  IF c.id \notin DOMAIN t THEN Done(t, Null)
             ELSE IF SlugTaken(t, c.id, after[c.id].slug) THEN Done(t, Failed)
             ELSE Done(after, after[c.id])
=============================================================================
