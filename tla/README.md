# Aurii in TLA+

Aurii is a structured-content platform written in TypeScript: projects own
datasets, a dataset has schemas, and entities are versioned rows of data under a
schema. Files and feeds are imported by definition or on a schedule, and data
is read through a query language, pinned references and published routes. The
runtime is `packages/core`; an API server, a CLI, an SDK and a Studio call it.

This directory is a verification project for that runtime. The runtime is a set
of asynchronous request handlers over a database, and almost every handler reads,
decides and writes in separate awaits. What a handler decided on may have
changed when it writes. That is what the modules model: a request is a process,
and one step is one SQL statement, one transaction or one synchronous stretch
of TypeScript between two awaits.

## Inventory

| Component | State | Operations | What is hard | What makes it correct |
|---|---|---|---|---|
| Entity store (`entity/`, `storage/postgres.ts`) | tables `aurii_entities`, `aurii_entity_revisions` | create, update, bulk insert, upsert by natural key | compare-and-write against imports; live row and snapshot are written in two transactions; re-read after commit | no lost update, one row per revision, immutable pinned snapshots |
| SQLite adapter (`storage/sqlite.ts`) | the same tables | the same | synchronous: only a crash falls between two transactions; a key is read from a file and from a stored row by different conversions | only a crash loses a snapshot; no duplicates where the two agree |
| Opening a database (`storage/index.ts`, `init` of the adapters, `packages/db`) | tables, columns, migrations, the fallback project | init, migrate, seed, reassign | databases of every age; init interrupted, or run by several callers; migrations beside it | a ready database has every column and every dataset an owner |
| Schema registry (`schema/`) | one current definition and version per schema | register, delete, classify, validate | version computed from an earlier read | a version names one definition; a compatible change invalidates only payloads with a value in the way |
| Import engine (`import/engine.ts`) | import run records, the imported rows | run | write policy checked twice, failure half-way | a run that says completed has written everything; none says running for ever |
| Saved imports (`platform/saved-import-service.ts`) | definitions, data-source health, run locks | create, update, run | definition read at the start of a run is written back at its end | one run per definition at a time; administrative changes survive |
| Scheduler (`schedule/`) | the definitions' `nextRunAt`, the `running` guard | tick, collect | due list is collected once; races with user runs | a due import runs; ticks do not overlap |
| Published routes (`platform/published-route-service.ts`, `public-routes.ts`) | routes with access, enablement and hit count | upsert, patch, test, execute | every hit rewrites the whole route; the handler and the service each list and match | only what an operator enabled is served |
| Projects and policy (`project/`) | projects with status | create, rename, transition | check-then-write of transitions; writes racing with deactivation | time of archival goes with the status; no write outside the policy's window |
| Datasets (`dataset/`) | datasets and the project they belong to | create, update, reassign | creation is an upsert | a dataset keeps its project |
| Project packages (`project-config/`) | a project's bound sources, imports and routes | register over HTTP, apply in process | stops at the first failure, repeated from the start; conflicts mean "exists" | what is reported is there; what exists is kept |
| Data sources, tokens, audit (`platform/`) | rows and secrets | create, update; issue, revoke; append, list | check and insert in two awaits | existing rows are kept; a guard sees live tokens only |
| Store backends (`platform/*store.ts`, `project/*repository.ts`, adapters) | every table, on memory, SQLite, PostgreSQL | insert, update, get, list, find, delete | lookup columns beside a JSON payload; limits and orders in SQL | the backends answer alike |
| Query (`query/`, `storage/plan-executor.ts`) | none | parse, plan, push down, scan, join, count | SQL prefilter and in-memory filter must agree, on two dialects with their own names, texts and orders | what is listed, counted and joined is what the clauses mean |
| API server and SDK (`apps/api`, `api/server.ts`, `packages/sdk`) | none of their own | guard, route, translate errors | three guards, and paths written twice | every call of the SDK is served and understood |
| Pipelines, file parsing, cron expressions, capabilities, events, configuration, Studio, CLI | none that others decide on | | text formats | see *Not modelled* |


How they interact: the API's handlers call the services; `runImport` calls the
entity store, the run records and the project policy; the scheduler and the API
both call `saved-import-service.run`; entity writes look the schema version up in
the registry; pinned references and the history API read the snapshot table.

## Modules

| Module | What it is |
|---|---|
| `RevisionHistory` | abstract specification: what clients may rely on about an entity's past |
| `EntityStore` | the PostgreSQL entity store, statement by statement |
| `SchemaEvolution` | validation of definitions and entities, classification of changes: pure operators |
| `SchemaRegistry` | registration and deletion of a schema over either store |
| `SqliteStore` | the SQLite entity store, block by block, composed with `SchemaRegistry` |
| `SavedImports` | saved imports and their scheduler: create, patch, run, tick |
| `ImportRuns` | one import under the project write policy, while projects and datasets are administered |
| `QueryConditions` | values, comparison and conditions, in TypeScript and in the SQL of both engines |
| `QueryAst` | what a query is once parsed, and the parts of a clause |
| `QueryLanguage` | tokens and the productions of the parser, over `QueryAst` |
| `QueryEngine` | parsing, planning, pushdown, scan, join, count, order and page, over both |
| `QueryTexts` | the text of a query, what no query's text can be, and the legacy form, over `QueryEngine` |
| `PlatformStores`, `StorageTables` | each table's operations as functions from rows and a call to rows and an answer, one per backend |
| `Databases` | the same calls made on every backend of a table |
| `DatabaseStartup` | the life of a database: migrations, `init`, crashes, datasets and their owners |
| `HttpApi` | paths, guards, handlers and errors of the servers, and the calls of the SDK: pure operators |
| `Delivery` | published routes, packages, data sources and tokens over `HttpApi`, await by await |
| `RevisionHistoryProofs`, `EntityStoreProofs`, `SavedImportsProofs`, `ImportRunsProofs`, `SqliteStoreProofs`, `DatabasesProofs`, `DeliveryProofs`, `QueryEngineProofs` | the proofs about the module of that name; `SqliteStoreProofs` has those about `SchemaRegistry` and `SchemaEvolution` as well, `DatabasesProofs` those about `DatabaseStartup`, `QueryEngineProofs` those about `QueryConditions`, `QueryLanguage` and `QueryTexts` |
| `MCEntityStore`, `MCSqliteStore`, `MCSchemaRegistry`, `MCSavedImports`, `MCImportRuns`, `MCQuerySamples` and `MCQueries`, `MCDatabases`, `MCDelivery` | instances for TLC; `MCQuerySamples` has the tables and queries, `MCQueries` their texts |

`SqliteStore` extends `SchemaRegistry`, which extends `SchemaEvolution`; `QueryTexts` extends
`QueryEngine`, which extends `QueryLanguage`, `QueryAst` and `QueryConditions`; `Delivery` extends
`HttpApi`; `Databases` extends `StorageTables` and `PlatformStores`. `EntityStore` and `SqliteStore`
instantiate `RevisionHistory`.

### EntityStore: state and actions against the code

| TLA+ | Code |
|---|---|
| `entities`, `revisions` | `aurii_entities`, `aurii_entity_revisions` (`storage/postgres.ts`) |
| `schemaVersion` | the `version` of the registered schema, `Unset` where there is none |
| `pc`, `args`, `found`, `rows`, `answer` | a handler's position, parameters, `existingMap`, rows written but not snapshotted, response |
| `committed` | history variable: every row image a transaction has made live |
| `window` | history variable: the schema versions a request may stamp |
| `StartUpdate`, `ResolveVersion`, `CompareAndWrite`, `WriteSnapshots`, `ReportConflict` | `PUT /entities/:id` in `api/server.ts`, `updateEntity` in `entity/store.ts` and in the adapter |
| `StartCreate`, `ResolveVersion`, `InsertRows`, `RereadRows`, `WriteSnapshots` | `createEntity`, adapter `insertEntities` |
| `StartImport`, `ScanExisting`, `UpdateMatched`, then as an insert | `runImport` with `deduplicateBy`, adapter `upsertEntitiesByField` |
| `StartAppend`, then as an insert | `runImport` without `deduplicateBy` |
| `RegisterSchema`, `DeleteSchema` | the store of `registerSchemaDetailed`, of any version, a lower one too, and `deleteSchema`; `SchemaRegistry` has them in detail |
| `Crash` | the server process is lost between two awaits |

What is assumed about the code's surroundings:

- A PUT names a revision its author has read, so one the entity has had. It may name any
  schema version: nothing checks it.
- `crypto.randomUUID` never repeats. With as few identifiers as the instances have,
  an insert may have to wait for one; such a request simply stays where it is.
- `UpdateMatched` is one step: PostgreSQL keeps the row locks of its UPDATEs until it
  commits, and a mismatch rolls everything back.
- An entity is never deleted on its own (the code has no such operation); its
  state may become `archived` or `deleted`, which is a field.
- Of the rows with one stored key, `existingMap` keeps the one the database returned
  last, which SQL leaves open: `ScanExisting` chooses any.
- `StoredKey` and `InputKey` are the two conversions the lookup joins on. They differ on a
  missing key (`"null"` against `""`), and the field name loses characters outside
  `[a-zA-Z0-9_]` (`SafeField`).
- A crash takes one request. A process crash takes all of its requests: the model
  has these behaviours and more, since the API may run as several processes.

### SavedImports: state and actions against the code

| TLA+ | Code |
|---|---|
| `defs` | the stored definitions (status, schedule, linked source), behind `platform/store.ts` |
| `locks` | the set `runLocks` of `platform/postgres-store.ts`, in the memory of the process |
| `running` | the scheduler's guard `this.running` |
| `pc`, `job`, `read`, `link`, `failed`, `due` | where each request and each tick is, the definition it works on, what it has read of it, the source it goes on with, whether its import failed, the due list of a tick with the source each definition had when it was collected |
| `StartCreate`, `Insert` | `SavedImportService.create` |
| `StartPatch`, `WritePatch` | `update` |
| `StartRun`, `NotWritable`, `TryAcquire`, `Import`, `ReadSource`, `WriteSource`, `WriteBack`, `Release` | `run`, await by await; the same steps serve a user's request and a tick |
| `StartTick`, `RunNext`, `Recover`, `Reschedule`, `MarkHealth`, `ResetGuard`, `EndTick` | `tick` in `schedule/scheduler.ts` with its catch block and its `finally` |
| `Crash` | the process dies: its locks and its guard are gone |

What is abstracted: times are *none*, *in the future* or *due*, and a future time
may come due at any moment (`TimePasses`), also one that a handler has read and writes back
later (`Aged`) and one just computed, since the next occurrence is computed from the start
of the tick. `Rare` are the definitions whose schedule may have no time within a year, for which
`nextOccurrence` throws at every tick. There is one project, and the scheduler watches it.
A data source is its link, which a patch may change; of its health fields only the awaits that
write them are steps (`ReadSource`, `WriteSource`, `MarkHealth`). A dry run takes the steps of a run.
Nothing in the code calls the deletion the store offers, so there is none.

### ImportRuns: state and actions against the code

| TLA+ | Code |
|---|---|
| `status`, `archivedAt` | `projects` rows (`project/service.ts`) |
| `owner` | `project_id` of `aurii_datasets`, `Null` where there is no such dataset |
| `record` | the run's row in `aurii_import_runs`: status, whether rows were imported, whose error |
| `written` | history: which of the run's rows are in the entity store |
| `seen`, `rows` | the project a run has read, and `toInsert`, `errors`, `dryRun` |
| `owners`, `active` | history: the projects that owned the dataset, and those that were active, since the second check began |
| `StartSetStatus`, `WriteStatus` | `setProjectStatus` |
| `StartCreate`, `LookUpForCreate`, `CreateDataset` | `createDataset` of the service and the adapter |
| `StartReassign`, `LookUpForReassign`, `ReassignDataset` | `reassignDatasetProject` |
| `StartRun` to `FailRun` | `runImport` from its first check to the update of its record; every await may throw where the code lets it |
| `Crash` | the process dies, or the update in the outer catch throws as well |

What is abstracted: a file yields a set of row kinds (those that match a stored entity
and those that do not), whether some rows were bad, and whether the run is dry
(`Files`); the writes are the transactions that `EntityStore` looks into. An update of a
record may throw before or after it took effect, and so may its insertion, which is outside the
`try`: a record that was inserted and answered with an error says running for ever. The reads of the
first and the second check may throw as well. Projects and datasets are not
deleted: the code has no such operation.

### SchemaRegistry and SqliteStore: state and actions against the code

| TLA+ | Code |
|---|---|
| `schema` | the row of `aurii_schemas` of one identity; version 0 where there is none |
| `job` | what a call of `registerSchemaDetailed` has read, brings and answers |
| `stored`, `blind` | history: every definition stored; whether a call deleted one, or replaced one it had not read |
| `ReadPrevious`, `StoreSchema`, `DeleteSchema` | `registerSchemaDetailed` before and after its read, `deleteSchema` (`schema/registry.ts`) |
| `ClassifySchemaChange`, `ValidateEntity`, `ValidateSchemaDefinition` | `schema/evolution.ts`, `schema/validator.ts` |
| `entities`, `revisions` | `aurii_entities`, `aurii_entity_revisions` (`storage/sqlite.ts`) |
| `thread` | the request in the middle of its synchronous code; nobody else runs meanwhile |
| `StartCreate`, `StartUpdate`, `StartImport`, `ResolveVersion` | `entity/store.ts`, up to the call of the adapter |
| `CompareAndWrite`, `WriteSnapshots` | `updateEntity`; its `UPDATE` and its snapshot are separate statements |
| `UpsertMatched`, `InsertRows`, `WriteSnapshots` | `upsertEntitiesByField` and `insertEntities`, one transaction each |
| `images`, `lost` | history: every committed row; the rows whose snapshot died with the process |
| `Crash` | the process dies and opens the same file again; all requests in flight are gone |

What is abstracted: a payload is what its key field holds, a value of a JSON kind with the texts that
`String()` and JSON make of it (`FieldValue`). `InputKey` is the key as an import takes it from the file, by
`String(...)`; `StoredKey` is the text `json_extract` answers for the stored row, of the field whose name has lost
its characters outside `[a-zA-Z0-9_]` (`ReadValue`). For texts and whole numbers the two agree; a boolean is stored as `1`
and looked up as `true`, an array is stored as its JSON, a mangled name reads nothing. `KeyReadsBack` says of a
payload that its key survives this. Creations and updates bring no key that does, and no file
brings one twice: what happens otherwise does not depend on the order of steps. Two rows of a file that match one stored
row make the import throw (`HitsTwice`). A PUT may name any of `AskedVersions`. One schema, whose fields stand for its
name and description too; a payload may hold values in fields that a definition does not declare, which
`ValidateEntity`, as the code does, never looks at.

### The query modules against the code

`QueryLanguage` reads lexemes (how characters group into words and literals is left out) with one operator per
production of `query/parser.ts`; a parse answers a node and the position after it, or `Fail` where the code
throws. The parser's recursion and its loops always move to a later token, so each is a function on
the positions of the tokens: `Chains` for `parseOrExpr` and `parseAndExpr` with what they call, `ParseClauses`
for the loop over the clauses of a query, in which a clause that is given twice counts as it is given last
(`SetBefore`), and `ParseList` for lists, which are as long as there are commas at every second place.
`QueryTexts` writes a query out, with parentheses where precedence or grouping needs them; the code has no such
printer, it says what the parser has to undo. `Flattens` and `LegacyQuery` are `toLegacyParsedQuery`.
`QueryConditions` has a condition as `evaluateCondition` judges it and as the SQL of `compareClause`
does; the list below says how far apart they are. `QueryEngine` plans and executes what `ParseQuery` answers:
`Compiles` says whether `whereExprToSqlClauses` writes a clause
at all and `SqlWhere` is the truth of the clauses it writes, `SqlScan` filters with it, orders and pages as
SQL does, and `ScanStep` filters again in memory; `ExecuteJoin` joins, filters, projects, orders and pages as
`plan-executor.ts` does. Filters and orders are sets of positions of rows and of pairs of positions, which
`Arranged` lays out as a list. `PossibleAnswers` are several where the code leaves one open: a cast of PostgreSQL that
can raise need not, for a planner may drop the row first. Renaming the fields of a clause (`remapWhere`) is modelled on the other side:
the row is read under the names the clause uses (`Resolved`). A behaviour is one text executed by one adapter
over `Tables`; its state is the text, its parse and its answer.

What a condition means depends on where it is read, and the model keeps the differences, as constants where they
are a database's own:

- *Names.* A scan of SQLite reads a field under the name the query uses; every other statement first strips what is not in
  `[a-zA-Z0-9_]` (`Stripped`, `SqlName`), so `a-b` is read as `ab`.
- *Nulls.* In memory `== null` is true of an absent field, `!= 1` of a null, `null` is 0 to an ordering. In SQL a null
  literal becomes `IS NULL` or, under any other operator, `IS NOT NULL`, and a comparison with NULL selects nothing.
- *Types.* SQLite ranks types, a number before any text; PostgreSQL compares the text of the value with a text, and casts
  it to a number to compare it with one, which may raise (`Numerals`, `CastRaises`); JavaScript converts.
- *Order of texts.* JavaScript's is by code unit, SQL's by collation (`Weight`).
- *Searches.* `contains` is a substring in any case in memory; in SQL it is `LIKE` or `ILIKE` with `%` and `_` unescaped,
  and SQLite folds ASCII letters alone (`Wild`, `NonAscii`, `Likes`). Numbers may be written differently (`Spelling`).
- *Operators.* A single `=`, which the parser lets through, is no operator in memory.

`Fits` is the hypothesis under which none of this tells: the name is read as it stands, the literals have the type of the field,
an ordering has no null and the collation orders the two texts as JavaScript does, and a search has a literal
without wildcards, in ASCII. Left out: booleans, texts such as "NaN" that PostgreSQL casts to no ordinary number, the order
a sort in memory gives to values of different types, and a definition that declares a field twice.

### The databases against the code

`PlatformStores` and `StorageTables` have one operator for each table and backend,
`SqliteRoutes(t, c)` for instance: what the table `t` is after the call `c` and what is answered. A SQL
table is a function from primary keys to columns, of which the payload is one; an
unordered or tied listing answers the set of pages it may give. `Databases` makes the same
call on every backend of a table. `AnswersAgree` compares the answers and names the differences
the code has: SQLite stamps runs to the second and orders audit events of one instant as it likes; finding an entity
by a field compares texts that the databases write differently for anything but a JSON string, and PostgreSQL's
statement selects neither revision nor schema version, so that what it answers says 1 for both
(`Unversioned`); and PostgreSQL refuses an entity's id that is no UUID, where SQLite finds nothing (`NotUuid`).

`DatabaseStartup` has the statements of `init` of either adapter as steps, with what each
needs of the tables: `IndexFails` where an index needs a column that the
next statements would add. The migrations of `packages/db`, the seed and the reassignment
script are steps beside it. `owner` is `project_id` of `aurii_datasets`; `pc` is where each caller of
`getStorage` is. A database starts new or as an older version left it.

### HttpApi and Delivery: state and actions against the code

| TLA+ | Code |
|---|---|
| `Handlers`, `CoreGuard`, `ProjectsGuard`, `RequireScope` | the routes of `apps/api` and of `api/server.ts` with what each checks, and the guards before them |
| `ToApiError`, `MapPlatformError`, `CoreError`, `PublicError` | how an error thrown by a service is answered |
| `SdkCalls`, `Outcome` | every method of `packages/sdk/src/client.ts`, and what it makes of an answer |
| `status`, `owner`, `schema`, `tokens` | the project, the dataset's project, whether its schema is there, the live tokens |
| `sources`, `imports`, `routes` | rows of the platform store |
| `req` | the request each client is in: its kind, what it carries and has read, its next stage |
| `binding` | a registrar's program: how far it is in the package and what it reported |
| `served`, `published`, `changes`, `failures` | history (`published`: the routes some administrator's request enabled) and bounds |
| `CheckWritable` to `AnswerRequest` | `create`, `update` and `upsert` of the data-source, saved-import and route services, await by await |
| `VisitProject`, `ListRoutes`, `Execute`, `ReadData`, `CountHit` | `GET /public/:project/v1/*` and the test of a route |
| `Attempt`, `ListProjects`, `CheckSlug`, `InsertProject`, `BindNext` | `registerProjectPackage` over HTTP, `applyProjectPackage` in process, strict or lenient |
| `RequestFails` | an await is rejected; a registrar hears an error and may start again |

What is abstracted: the project's id stands for its slug; a route's query, cache time and
version are left out, and so are secrets. The package's route declares `enabled: false` and
`access: "public"` as its defaults; a package that declares `enabled: true` publishes by itself,
which is its author's decision.


## Runs

| Run | Question | Result |
|---|---|---|
| `entity_store` | three requests of any kind, two entities, two payloads, registrations and deletions of schema versions in any order, crashes: do the invariants hold, is every version stamped a current one, and is the store a `RevisionHistory`? | holds |
| `serial_imports` | three imports that never overlap, each possibly dying half-way: is the natural key unique and does re-running succeed? | holds |
| `sqlite_store` | three requests of any kind, keys of every JSON kind, one registration, one crash on SQLite: is only a crash able to lose a snapshot, are keys that read back unique, is it a `RevisionHistory`? | holds |
| `schema_registry` | three registrations or deletions that overlap: does a version name one definition, and does a compatible change invalidate only clashing payloads? | holds |
| `saved_imports` | two requests and two ticks on one definition with a data source, one fault: do runs exclude each other, are locks and guard accounted for, does an enabled schedule keep a next run? | holds |
| `scheduling` | one request, one tick, two definitions, one fault: is every lock given back and every due definition taken up? | holds |
| `import_runs` | one import, two administrators, two projects, one dataset, one crash: is the record true, does the policy hold, do runs end? | holds |
| `queries` | every query of a bounded grammar on both engines: does it list, count and join what its clauses mean, and is it parsed as it was written? | holds |
| `databases` | every sequence of calls on each of eleven tables: do the backends answer alike? And every database age, two callers, one crash: does each dataset get and keep an owner? | holds |
| `delivery` | a visitor, an administrator and a registrar, one failing request: are reports true, is only served what an operator enabled, is what exists kept, is the SDK served? | holds |
| `disable_undone` | does a patch survive a run that overlaps it? | `AdminChangesSurvive` violated |
| `post_filter` | does a scan list every row that satisfies its clause? | `PostFilterReliable` violated |

Further configurations of the same modules show disagreements that were settled once and do not
belong to the standing set: `RepeatedKey`, `CreationRace` and `ImportVersion` (of
`MCEntityStore`), `Reimport` (`MCSqliteStore`), `CompatibleChange` (`MCSchemaRegistry`), `RareSchedule`
(`MCSavedImports`), `Transitions` (`MCImportRuns`), `Registration` (`MCDelivery`), `OldDatabase`
(`MCDatabases`) and `PushedDownCount` (`MCQueries`). Each checks one property, which is violated.

Bounds. Three requests are the fewest with which two writers race over an entity
that a third has created; two entities let an import touch one that a PUT updates
and one that is new. A request is answered once, so the number of requests bounds the
revisions. Two schema versions can rise, fall and disappear as often as registrations and deletions like. Lifecycle
states are one in `entity_store` and two in `serial_imports`: no guard looks at them. Requests and
identifiers are symmetric in the safety runs. In `serial_imports` five identifiers suffice for three files of at
most two rows, of which one always overlaps. `sqlite_store` has the same requests with three identifiers, one registration,
one crash, and payloads whose key is a text, a number, a boolean, an array or nothing, two of which are
stored alike and two of which are taken from a file alike. `schema_registry` has three calls, one more than can
collide, and definitions with two fields that differ in each way the classification tells apart. All these systems stop when every request
is answered, so deadlock is not checked there.

In `saved_imports` and `scheduling` requests and ticks start over when they are done,
so every number of them is covered, two at a time; `MaxFaults` bounds crashes and
failing catch blocks. Two definitions in `scheduling` make a tick collect a list, of
which one may be patched or run while the other is; there `Rare` is empty and no definition has a source, whose awaits
`saved_imports` has. In `import_runs` administrators start
over as well; one run is enough, for runs share no state (the locks and the conflicts
between their writes are in the other two modules). Two administrators are the fewest
that can race over a project or over the creation of a dataset, and two projects are what
a dataset can be moved between. `MCFiles` has a file with a row of each kind and a bad
one, a dry run and a file without a valid row. These two systems never stop, so deadlock is
checked.

In `queries` the tables have a row for each way a field can be there: a number, a text, null,
absent, and a joined row without partner, and further fields for what SQL reads differently: accented letters, a wildcard to search
for, names that become one when stripped (`a-b` and `ab`), texts and numbers in one field. Clauses nest three deep, which is one more than
precedence and the recursion of `SqlWhere` need to show, and every operator occurs on a matching, a
failing and a missing value. A query changes nothing, so one is a whole behaviour. With all of these texts and both engines the hypothesis `Fits` is met by some
conditions and failed by others.

In `databases` a table of one group has two keys in each of two projects, three events
where a listing has a limit of two, and a clock of three instants for orders and
ties; the state space is closed under every call, so sequences are not bounded but for the edits of one
entity. Entities are asked for by an id that is no UUID, too. A startup has two callers, the fewest that can be in `init` at once, one dataset beside the
default one, one other project, and one crash.

In `delivery` one client of each kind, a package with a resource of each kind, a second route
whose fixed path the package's pattern fits too, `MaxVisits` and `MaxAttempts` one each, `MaxFailures`
one and `MaxChanges` two: an administrator then can change what a request has checked and change
it back before it writes. `MaxChanges` two also lets a project be archived and reactivated within one
registration, which `Registration` needs.

Fairness. Only `LocksReleased`, `DueIsAttended` and `RunEnds` are liveness properties.
`SavedImports` and `ImportRuns` assume weak fairness of a handler's own steps: a promise
settles, and the runtime then runs what awaits it. `SavedImports` adds weak fairness of
`StartTick`, the interval timer. Requests arrive without any fairness, faults neither,
and no step of a handler waits for another handler, so weak fairness is enough. Where
awaiting a database or a feed never returns, the code has no timeout and promises
nothing. Of a schedule that has no time within a year it promises nothing either (`RareSchedule`). The other modules promise nothing that must eventually happen: a request that is
never answered leaves no state behind that another waits for.

What the violations mean:

- `disable_undone`: a run writes the definition it read back when it ends, and with it the
  status and the schedule as they were before somebody changed them.
- `post_filter`: in `n exists or n <= 1` the first alternative has no SQL form and is dropped, so SQL
  selects the rows with `n <= 1` only. `ListsWhatMatches` states what holds: every row that is listed
  satisfies the clause, and where SQL and memory read the conditions alike (`Typed`, which is `Fits` of each) and
  none meets an absent value the listing is exact, in order and page, for clauses that can be pushed down whole, and in order for any clause in which no `or` has
  an alternative without SQL form (`KeepsAlternatives`), if nothing is paged. With a limit the second
  filter may leave less than the page.
- `OldDatabase`: the first statements of `init` create an index over the column that a later one
  adds. `DatasetsOwned` is about the databases that open.
- `CreationRace`: `insertEntities` on PostgreSQL re-reads the rows after its transaction committed and
  snapshots what it finds. An update in between makes it file revision 2, and nothing
  ever files revision 1. `SnapshotOwed` states what is left: only revision 1 can be lost
  without a crash. On SQLite `SnapshotsComplete` rules this out.
- `RepeatedKey`: rows are looked up before any is written, so a key that occurs twice
  in a file is inserted twice.
- `ImportVersion`: `runImport` gives its rows no schema version, and the adapter writes 1.
- `Reimport`: a key field whose name loses characters is never read back, so each import of one file
  inserts it again, where `Phase2.2.md` says that `deduplicateBy` makes re-imports idempotent (`ReimportsUpdate`).
  `UniqueKeys` states what holds.
- `CompatibleChange`: an optional field `b` is added, which is classified compatible, and a payload that had a number
  under the name `b`, valid while nothing declared it, is invalid. `docs/SCHEMA_EVOLUTION.md` calls such a
  change "safe without requiring consumers to rewrite data" (`CompatibleNeedsNoRewrite`). `CompatibleIsSafe`
  states what holds: nothing else becomes invalid.
- `RareSchedule`: the next time is computed in the scheduler's catch block, too, so a
  schedule without one ends every tick there and the definition stays due for ever; those behind it in the list
  are not taken up in that tick.
- `PushedDownCount`: a clause that passes `canPushdownWhere` "can be expressed", says its comment; yet `LIKE` wildcards, folding,
  stripped names and null literals make SQL count other rows than satisfy the clause (`CountIsExact`).
- `Transitions`: a status change is checked against a status that may be gone when it is
  written, so an archived project can become inactive. `ArchivedAtConsistent` shows that
  its time of archival goes with it all the same.
- `Registration`: over HTTP a registrar takes every 409 for "exists", also the one of a project that is
  not writable; reactivated in time, the registration ends well with nothing stored.

What `PolicyHolds` says. The second check reads the dataset, then its project, then the
writes begin; in between a project may be deactivated or the dataset moved. What the code
achieves is that some project owned the dataset, and was active, within that window. That
dataset and project were so *at one moment* does not hold, and
`adr/ADR-0013` lists the missing transaction among its tradeoffs.

What `OnlyOperatorsPublish` says. Serving a route writes the whole listed row back, so a hit undoes
a disable made meanwhile, and concurrent hits count once. What remains true is that
a route is served only if an operator enabled it at some time, and never has more hits than it was
served.

What `InProcessIsComplete` says. In process a registrar sees the error itself, so only a conflict counts as
"exists", and a registration that ends well has bound everything but the routes that lenient mode reports as
failed: it follows from `ReportsAreTrue` and the order of the items, and is proved rather
than run. Over HTTP the same statement is false (`RegistrationIsComplete`, violated in `Registration`).

What `VersionNamesOneDefinition` says. The version is computed from a definition read one await
earlier. As long as no registration is *blind* to what it replaces and none is deleted,
a version names one definition, even if versions are asked for; two blind registrations do collide, and after a
deletion counting starts again. `EntityStore` therefore lets the registered version be anything at any time.

What `StampsAreCurrent` says. A row gets the version its request named, or one that was registered at some moment between
the request's arrival and its write; with nothing registered, 1. That versions of later revisions are greater does not hold:
versions fall, PUTs name what they like, and imports write 1 (`ImportVersion`).


## Proofs

### EntityStore

`tlapm` proves for every number of requests, entities, payloads and versions:

1. `Invariance`: `Spec => []IInv`. `IInv` strengthens the checked invariants with
   `KindsMatchLabels` (which handler a label belongs to), `ExpectedIsReached` (a PUT's
   expected revision never exceeds its target's, and is passed once it has won or
   lost; without it neither `NoLostUpdate` nor `ConflictIsReal` is inductive),
   `WindowsHold` (item 5), `SnapshotsGenuine` (what is snapshotted was live) and `NoGaps`.
   Every write goes through `WriteRows`, and every set of rows a handler writes
   consists of *next revisions*: one row per entity, at its revision plus one or at 1 if
   it is new. The lemmas about `NextRevisions` show that such a write keeps the
   numbering, and each action is shown to be one or to leave the tables alone.
2. `TypeCorrect`, `LiveRowIsLatest`, `LostUpdatesAreImpossible`, `ConflictsAreReal` follow.
3. `PinnedIsImmutable`: snapshots are written with `DO UPDATE`, but by `LiveIsLatest` there
   is one committed row per revision, so what overwrites a snapshot equals it.
4. `KeepsHistoryTheorem`: every step of the store is a step of `RevisionHistory` or a
   stutter.
5. `SnapshotsAreOwed`, and `StampsStayCurrent` from `WindowsHold`: a request that has yet to look
   into the registry has the version registered now in its window, and one that has looked stamps a version of its
   window, whatever the registry does meanwhile.
6. `HistoryIsNumbered` about the abstract specification itself.

7. `NaturalKeysAreUnique` and `SerialImportsSucceed`, about `SerialImports`, in which an import
   starts only when no other is under way. They rest on `SerialInv` (`SerialInvariance`): beside what
   `IInv` says of matches, at most one import is under way, the live rows have different
   keys, and what the running import has matched by key is still what the keys
   say, since only the import itself changes rows (`SerialMatch`, `SerialOthers`). So the
   rows it inserts have free keys and its updates meet the revisions it read. An import
   that dies between its two transactions leaves only rows that the next one matches.

The assumption is `ConstantsAssumption`; the theorems of 7 have `KeysNameEntities` as hypothesis, too: a file
has each key once, no key is the text of a missing one, and the key field's name is one the lookup
can read, all of which is true of the instance of `serial_imports`. With a field name
that loses characters (`SafeField` false) they fail, as the hazards say. The code does not keep direct imports
from overlapping; `RepeatedKey` shows what happens then.

### SavedImports

`Invariance` proves `IInv`: the checked invariants with `JobsMatchLabels` (what a handler has
read, by where it is) and `ReadsTimed` (a schedule that was read has a next time if it
is enabled; without it a write-back could break `EnabledHasNext`). The lock set is shown to
be the definitions of the handlers at labels inside the `try` block
(`LocksAccounted`), which with a successful `TryAcquire` gives `NoOverlappingRuns`.
`TypeCorrect`, `RunsNeverOverlap`, `LocksAreAccountedFor`, `SchedulesKeepTheirNextRun` and
`TicksAreGuarded` follow.

### ImportRuns

`Invariance` proves `IInv`: `RecordTruthful` and `ArchivedAtConsistent` with three facts that
make them inductive. `Progress` says what is recorded and written at each point of
`runImport`; `StatusRead` that an administrator's pending change was checked against a
status and a time of archival read together; `WindowOpen` that the project a run has
re-read owned the dataset within the window, and that the window has seen every project
that is active now. A step of an administrator leaves `Progress` alone (`AdminFrame`) and only
widens the windows (`WindowGrows`); a step of a run leaves the administrators and the other
runs alone (`RunFrame`, `RunStep`), so that each action has to show what it does to its own
run. The action properties `PolicyIsHeld`, `EndedRecordsStay` and `OwnersAreKept` follow from
the invariant, by showing which actions can change the variable in question.

### SchemaRegistry

`CompatibleInvalidatesOnlyClashes` is about the pure operators, for any fields and any payloads, with undeclared fields
too: of the payloads that are valid under the old definition, exactly those become invalid by a change classified
compatible that hold a value which a field the change adds refuses (`Clashes`). It
splits on a field: kept (`KeptFieldStaysValid`) or added, and then absent (`AddedFieldAcceptsAbsence`) or clashing.
`ChangeRaisesVersion` says that a registration that changes what it read stores a higher version.
`VersionsNameDefinitions` rests on `RegistryInv`, which adds that what a registration has read was stored,
or was nothing, and that the stored definition has the greatest version unless something was
blind. `AnsweredCompatibleIsSafe` follows from the first theorem and the invariant's record of what was
answered.

### SqliteStore

`StoreAlwaysInv` proves `IInv`: the checked invariants with `LocalsOK` (what a request holds at each
label), `InsertsFresh` (the rows an import is about to insert have keys that are still free,
because it has the thread; without it `UniqueKeys` is not inductive) and `LiveIsLatest`. Every write is a
set of `Successors`, and `WriteKeepsLatest` shows once what such a write preserves. `StoreRunsRegistry`
shows that each step of the composition is a step of the registry or a stutter, so that its
theorems hold here. `StoreTypeCorrect`, `OnlyCrashesLoseSnapshots` and `KeysStayUnique` follow, the last for any
`KeyValue` and `ReadValue`: it does not assume that the two conversions agree, it speaks of the keys of which they do. And
`SqliteImplementsHistory` by mapping `images` and `revisions` to the history and pins of `RevisionHistory`.

### Databases

`BackendsAlwaysAgree` proves `BackendsAgree`: after any sequence of calls every call is answered alike, for any
projects, ids, datasets and limits, and any length of a second. It rests on `DatabasesInv`
(`DatabasesInvariance`): two implementations of a table are *coupled*, that is, they have rows under
the same keys and the columns SQL keeps beside a payload are those of the payload (`Coupled`, with a relation
for each table). Some tables need more. No two projects share a slug in the Map either, because the
service looks for a slug before it writes one; so the unique index never refuses what the Map
takes. A token's hash is that of one token only, so the scan and the lookup by hash meet the same
one. The Map's audit events are in the order of time, as the clock never goes back
(`AuditCoupled`), so that its last events are one of the pages that SQL may give. SQLite's runs have PostgreSQL's times
rounded to the second, and rounding keeps the order, so PostgreSQL's page is one of SQLite's.

Each table has a lemma that says what the calls made on it look like (`RouteCallsAreFormed`, for
instance) and one that coupled tables answer such a call alike and stay coupled (`RoutesAgree`);
that lemma fails for the mutant in which the upsert leaves the `enabled` column. `PutCoupled` and
`WithoutCoupled` serve all of them, `UpsertIsPut` and `UpdateIsPut` reduce the SQL statements to a write of a row, and
`PatchedIsWith` shows that a patch with undefined values is an UPDATE of the other columns. Limited listings
count: `LastCardinality` shows, by numbering positions from the end, that `slice(-limit)` is as long as LIMIT
says, and `ImageCardinality` that rows are as many as their keys. A stored entity's id is a UUID (`EntityTable`), for the database makes it; so an id that is none is
found nowhere. `DatabasesAssumption` says that null is no row and no project, `NotUuid` no id of an entity,
and `undefined` no number. `DatabasesInv` was checked with TLC on the
instance of `databases` before it was proved.

### DatabaseStartup

`StartupInvariance` proves `StartupInv`: what a caller's `init` has done by the statement it is at
(`Performed`), that ready storage is complete, that a database without `project_id` has no owners
(without it the default of the added column could replace one), and that only SQLite holds the
empty text, which PostgreSQL's backfill would miss. Columns and owned datasets only grow (`OwnersGrow`), so one
lemma, `CallerAdvances`, carries every caller's facts over every other caller's statement, a crash in between
and a migration. `DatasetsAreOwned` follows for any number of callers, datasets, projects and
crashes: every step is an `OwnersGrow` or a reassignment. `StartupTypeCorrect` gives the types.

### Delivery

`DeliveryInvariance` proves `DInv` for any number of clients, routes, tokens, changes and failed
awaits, any package and every interleaving. `TypeOK` gives the types. `RequestFits` says that a request is
in a stage of its kind and asks only for what its client may ask for. `SeenIsGenuine` is about the
row a request has read and will write back, possibly after others have written it: it has no
more hits than the route was served and is enabled only if an operator enabled the route; without it
neither a hit nor a patch would keep `OnlyOperatorsPublish`. `HitsAreServed` says the same of the stored rows.
`AnsweredIsPresent` says that what is about to be answered was written, and `BindsInOrder` that a registrar's
request is for the item its program is at. Rows are never deleted, servings only grow and nothing is
unpublished (`Keeps`), so that a step of one client leaves what is known of the others true
(`StepKeepsDInv`); each action then has to show what it does to its own request (`EndStep`, `MoveStep`,
`WriteStep`, `StartStep`). What a registrar is told rests on the tables of errors: no error is
answered with 201 by any handler (`NoErrorIsCreated`, over the whole of `HttpApi`'s `Respond`), and in process only
`conflict` is taken for "exists" (`OutcomesAreTold`). `ReportsAreAlwaysTrue`, `RoutesAreOperated` and
`InProcessRegistersAll` follow, and `PackagesKeepExisting`, for only `UpdateSource` changes a row that is
there and no registrar has such a request. `DeliveryAssumption` says that the three kinds of
clients are different, that a package is a nonempty sequence of resources, that `None` and `NoError` are
no values of the program, and that no project's id is `by-slug`: ids are made by the program, and a path
below `/projects/by-slug` would be taken for one of that project.

`SdkIsAlwaysServed` is a statement about tables: every method of the SDK, about any project and dataset,
is routed to a handler that answers in the form the method reads. `TheSdkIsServed` has it for every
world in which no project is called `by-slug`. The handlers are written out by the number of
segments of their paths (`HandlersBySize`), so that a call can only meet those of its size, and for each
method one handler is named that its call reaches and no other (`CallsReach`). A service that fails is
answered with a failure, and with a conflict of revisions only where there was one (`ErrorsAreFailures`,
from the tables of errors); the guards in front of it let the global token through, and an administrator's token in a request about its
project (`GlobalTokenPasses`, `OwnTokenPasses`). `WorldFits` says that the projects, owners and live
tokens of a state make such a world, and every step keeps it (`WorldFitsStep`).

### QueryEngine

A scan filters in SQL and again in memory, a count in SQL alone, so what a query means depends on two readings of
one clause. For one condition that fits (`Fits`), on either engine and for any stripping, collation, spelling
and search of it, `SqlSelectsNoMore`: a row that SQL selects satisfies it in memory.
`PlainConditionsAgree`: the two agree but where a condition
meets an absent or null value that memory accepts (`Plain`). Neither is so by definition: the two readings share no
operator for equality, order or search. Each theorem has a case per kind of operator
(`EqualityAgrees`, `OrderingAgrees`, `InAgrees`, `ContainsAgrees`).

Whole clauses follow by induction over how deep they nest. The recursive functions over `Clauses` (`EvaluateWhere`,
`CanPushdownWhere`, `Compiles`, `SqlWhere`, `Conditions`) are first shown to satisfy their equations:
`RecursiveFunctionExists` builds such a function from the least depth at which its approximations
settle. `ClauseInduction` takes the least depth of a counterexample. `PushedDownSelectsNoMore` and
`PushedDownAgrees` then say of clauses what the two theorems above say of conditions.

Lists of rows are handled by their positions: what `Arranged` lays out has each position at one place, in
the order given (`ArrangedIsOrdered`), so a filter keeps rows in order (`KeptIsArranged`), keeping all
changes nothing (`KeptWhole`), and a sort by an order in which rows may tie is a permutation that respects it
(`SortedIsArranged`; both orders of the code are of that kind, `SqlOrderIsStrictWeak` and
`JoinOrderIsStrictWeak`). The invariant, `IsExecuted`, is that an answer is what the parsed text is executed to. From it:

- `ListingsMatch` (`ListsWhatMatches`): SQL finds the matches (`SqlFindsTheMatches`), so the second filter drops
  none of the page (`SecondFilterKeepsAll`). Where a clause is not pushed down whole but loses no alternative,
  SQL selects at least the matches (`AlternativesKept`), and filtering what it has sorted gives the matches
  sorted (`UnpagedScan`): keeping rows keeps their order (`KeptOfArranged`), sorting kept rows is keeping the
  order of all rows (`SortedKept`), and there is one list of given rows in a given order (`ArrangesOnce`). Without
  either hypothesis a row listed still satisfies the clause.
- `CountsAreListings` (`CountIsListed`), for clauses that fit the statement of a count, whose names are stripped on both engines: pushed down whole, a clause counts in SQL the rows that the second
  filter keeps; otherwise count and listing are the same scan.
- `JoinsAreRelational` (`JoinIsRelational`): both sides are permutations of their relations (`WholeScan`); the
  index finds the one partner exactly where the keys agree (`JoinKeysAgree`), so the joined rows are the pairs with
  one key, each once (`JoinedPairs`); and the clause over the merged row means what it means under the names
  of the two schemas (`ResolvedIsQualified`), because a clause reads only the fields its conditions name
  (`ClauseReadsItsFields`). The hypothesis `KeyJoin` is a join on nonempty texts unique in the right schema, with no number on the left: of several
  right rows with one key, the code keeps the last, and it indexes by the text of a value, in which 1 and "1" are one.
  The order is that of the values where they are of one type (`OneType`).

### The parser, in QueryEngineProofs

`TextsReadBack` proves `ReadsBack` for any texts, names, literals and clauses. It has three parts.

*Every parse moves forward* (`ListsAdvance`, `ConditionsAdvance`, `ChainsAdvance`, `ClausesAdvance`): what is
behind a node lies behind its first token, within the text. That is why the functions `Chains` and
`ParseClauses` exist at all; `ChainsUnfold` and `ClausesUnfold` build them by recursion on the distance to the end,
in which a conjunction comes before the disjunction that starts at the same token (`Level`), and show their equations.

*A query is read back from its text* (`QueriesReadBack`). `Reads(ts, p, t, q)` says that the text `t` stands at the
tokens from `p` to `q`; each part of a text has a lemma that the production for it answers the node and the position
`q` if what stands at `q` cannot continue it. Lists are read by their commas (`ListsRead`), conditions by their three
forms (`ConditionsRead`), and where clauses by induction over how deep they nest (`ClausesRead`), which
proves at once what a clause is as an operand of `not`, of `and` and of `or` (`ReadsNot`, `ReadsAnd`, `ReadsOr`): with
parentheses it is read as itself anywhere (`ParenthesesRead`), without them only where the printer leaves them
out. A chain of operands is read from its last one (`ChainReads`). The clauses of a query fill its fields in the
order in which they are printed (`PartsFill`).

*What is taken is in order.* `AllOrderly` says of the tokens of a text that no `not` is followed by another, that
`limit` and `offset` have a number behind them and no `count` before, and that an opened parenthesis is closed.
Each production keeps it for the tokens it takes (`ConditionsOrderly`, `ChainStepsOrderly`, `WheresOrderly`,
`ClausesTaken`), from which `UnreadableTextsRefused`. The same induction shows that what the parser answers is a query
(`ParserAnswersQueries`): its fields are names, its limits natural, its join qualified. So whatever is taken reads
back from the text printed for it. That lemma is also what the theorems about answers need of the parser; no
assumption is made about it.

`FlatClauses` adds that the conditions of a clause that flattens hold together where the clause holds, so the
legacy form says the same.

The assumptions are that the engines are SQLite or PostgreSQL (`EngineAssumption`), that texts are ranks and numerals
integers (`SubstringAssumption`, `NumeralsAssumption`), that rows are flat with scalar values under one-part names, which a collation
puts at integers (`TableAssumption`), that an operator
has operands and nesting ends (`ClauseAssumption`), that keywords can stand in a word (`PartsAssumption`), that `Texts`
are texts whose limits and offsets are whole numbers and `Clauses` has the where clauses they contain
(`TextAssumption`), that a clause is a condition, a negation or a chain of more than one operand (`ShapeAssumption`), and
that `Queries`, whose texts are printed, are queries (`QueriesAssumption`). Without natural limits SQL's page would be
that of a negative one, and a chain of one operand has no text.

All theorems rest on the modules' assumptions about their constants alone, which TLC evaluates on the
instances. Model-checked only: the liveness properties (`LocksReleased`, `DueIsAttended`,
`RunEnds`), since fairness is outside the prover's reach. Every invariant and action property of a passing run is
stated by a theorem.

## Not modelled

- Row pipelines and transforms, reference validation, CSV, JSON, XML and spreadsheet parsing,
  file analysis: functions from text to rows without state or ordering. `ImportRuns` lets
  a file yield what it likes.
- Cron expressions (`schedule/cron.ts`): `SavedImports` knows times as *none*, *in the future* and
  *due*, and that there may be none within a year (`Rare`). The next occurrence is calendar arithmetic on one argument.
- How characters group into lexemes, the wording of `explainPlan`, and the filter, order and projection
  of the rows a published route serves.
- CORS, uploads, documentation of the API, request bodies and query strings; Studio and CLI.
- The health fields of data sources, which no other code decides on.
- The secrets behind data sources beyond their table, fetching from a source, the random value of a token.
- Several server processes, except in `EntityStore`, where a crash takes one request, and in
  `DatabaseStartup`. Run locks and the scheduler's guard are in the memory of one process, so a second
  server runs a definition beside the first. `docs/Core.md` names horizontal scaling as an aim only.
- The capabilities registry, domain events, configuration and process signals: nothing decides
  on their state.
- `createEntities` with several rows on PostgreSQL, which looks up one schema version per row; tests
  alone call it.
- Drizzle's table objects and the connection to the database.
