--------------------------- MODULE PlatformStores ---------------------------
(***************************************************************************)
(* The three implementations of PlatformStore (platform/store.ts): a Map   *)
(* per table, SQLite tables and PostgreSQL tables.  An operator takes a    *)
(* table and a call and gives the table after the call and its answer.     *)
(* SQL tables hold lookup columns beside the payload, which is the whole   *)
(* row as JSON; a Map holds the row alone.                                 *)
(***************************************************************************)
EXTENDS Naturals, Sequences, FiniteSets, Functions

CONSTANTS
  Null,     \* null, and an argument left undefined
  Failed    \* the database rejects the statement and the call throws

Done(table, answer) == [table |-> table, answer |-> answer]

Find(t, k) == IF k \in DOMAIN t THEN t[k] ELSE Null

Put(t, k, v) == [x \in DOMAIN t \cup {k} |-> IF x = k THEN v ELSE t[x]]

(* A record with the given columns set.                                     *)
With(row, columns) ==
  [c \in DOMAIN row \cup DOMAIN columns |-> IF c \in DOMAIN columns THEN columns[c] ELSE row[c]]

Without(t, k) == Restrict(t, DOMAIN t \ {k})

InDataset(row, dataset) == dataset = Null \/ row.dataset = dataset

(* What the SQL statements do, tables being functions from primary keys to  *)
(* records of columns.                                                      *)
Insert(t, k, columns, answer) ==
  IF k \in DOMAIN t THEN Done(t, Failed) ELSE Done(Put(t, k, columns), answer)

Upsert(t, k, columns, set) ==
  Put(t, k, [c \in DOMAIN columns |-> IF k \in DOMAIN t /\ c \notin set THEN t[k][c] ELSE columns[c]])

Update(t, k, columns) ==
  IF k \in DOMAIN t THEN [t EXCEPT ![k] = With(@, columns)] ELSE t

Payloads(t, keys) == {t[k].payload : k \in keys \cap DOMAIN t}

OfProject(t, project) == {k \in DOMAIN t : k[1] = project}

PayloadOf(t, k) == IF k \in DOMAIN t THEN t[k].payload ELSE Null

RowKey(row) == <<row.project, row.id>>

-----------------------------------------------------------------------------
(* Data sources and saved imports: rows are kept by project and id.         *)
MemoryRows(t, c) ==
  CASE c.op = "insert" -> Done(Put(t, RowKey(c.row), c.row), c.row)
    [] c.op = "get"    -> Done(t, Find(t, c.key))
    [] c.op = "list"   -> Done(t, {r \in Range(t) : r.project = c.project /\ InDataset(r, c.dataset)})
    [] c.op = "update" -> IF c.key \in DOMAIN t THEN Done(Put(t, c.key, c.row), c.row)
                          ELSE Done(t, Null)
    [] c.op = "delete" -> Done(Without(t, c.key), c.key \in DOMAIN t)

MemorySources(t, c) == MemoryRows(t, c)

MemoryImports(t, c) == MemoryRows(t, c)

(* The listing selects by project in SQL and by dataset afterwards.         *)
ListRows(t, c) == {r \in Payloads(t, OfProject(t, c.project)) : InDataset(r, c.dataset)}

SqliteSources(t, c) ==
  CASE c.op = "insert" -> Insert(t, RowKey(c.row), [payload |-> c.row], c.row)
    [] c.op = "get"    -> Done(t, PayloadOf(t, c.key))
    [] c.op = "list"   -> Done(t, ListRows(t, c))
    [] c.op = "update" -> IF PayloadOf(t, c.key) = Null THEN Done(t, Null)
                          ELSE Done(Update(t, c.key, [payload |-> c.row]), c.row)
    [] c.op = "delete" -> Done(Without(t, c.key), c.key \in DOMAIN t)

(* Saved imports have a column for the dataset, written with the payload.   *)
SqliteImports(t, c) ==
  CASE c.op = "insert" -> Insert(t, RowKey(c.row), [dataset_id |-> c.row.dataset, payload |-> c.row], c.row)
    [] c.op = "get"    -> Done(t, PayloadOf(t, c.key))
    [] c.op = "list"   -> Done(t, ListRows(t, c))
    [] c.op = "update" -> IF PayloadOf(t, c.key) = Null THEN Done(t, Null)
                          ELSE Done(Update(t, c.key, [dataset_id |-> c.row.dataset, payload |-> c.row]), c.row)
    [] c.op = "delete" -> Done(Without(t, c.key), c.key \in DOMAIN t)

PostgresSources(t, c) ==
  CASE c.op = "insert" -> Insert(t, RowKey(c.row), [payload |-> c.row], c.row)
    [] c.op = "get"    -> Done(t, PayloadOf(t, c.key))
    [] c.op = "list"   -> Done(t, ListRows(t, c))
    [] c.op = "update" -> IF PayloadOf(t, c.key) # Null
                          THEN Done(Update(t, c.key, [payload |-> c.row]), c.row)
                          ELSE Done(t, Null)
    [] c.op = "delete" -> Done(Without(t, c.key), c.key \in DOMAIN t)

PostgresImports(t, c) ==
  CASE c.op = "insert" -> Insert(t, RowKey(c.row), [dataset_id |-> c.row.dataset, payload |-> c.row], c.row)
    [] c.op = "get"    -> Done(t, PayloadOf(t, c.key))
    [] c.op = "list"   -> Done(t, ListRows(t, c))
    [] c.op = "update" -> IF PayloadOf(t, c.key) # Null
                          THEN Done(Update(t, c.key, [dataset_id |-> c.row.dataset, payload |-> c.row]), c.row)
                          ELSE Done(t, Null)
    [] c.op = "delete" -> Done(Without(t, c.key), c.key \in DOMAIN t)

-----------------------------------------------------------------------------
(* Published routes.  A lookup by path answers one of the enabled routes of *)
(* the path: the first of the Map, or any one a SELECT returns first; its   *)
(* answer here is whether there is one.                                     *)
MemoryRoutes(t, c) ==
  CASE c.op = "upsert" -> Done(Put(t, RowKey(c.row), c.row), c.row)
    [] c.op = "get"    -> Done(t, Find(t, c.key))
    [] c.op = "list"   -> Done(t, {r \in Range(t) : r.project = c.project})
    [] c.op = "find"   -> Done(t, \E r \in Range(t) : r.project = c.project /\ r.enabled /\ r.path = c.path)
    [] c.op = "delete" -> Done(Without(t, c.key), c.key \in DOMAIN t)

RouteColumns(row) == [path |-> row.path, enabled |-> row.enabled, payload |-> row]

EnabledRows(t, project) == {t[k].payload : k \in {k \in OfProject(t, project) : t[k].enabled}}

(* A bug: the upsert of an existing route leaves its enabled column.        *)
SqliteRoutesStale(t, c) ==
  CASE c.op = "upsert" -> Done(Upsert(t, RowKey(c.row), RouteColumns(c.row), {"path", "payload"}), c.row)
    [] c.op = "get"    -> Done(t, PayloadOf(t, c.key))
    [] c.op = "list"   -> Done(t, Payloads(t, OfProject(t, c.project)))
    [] c.op = "find"   -> Done(t, \E r \in EnabledRows(t, c.project) : r.path = c.path)
    [] c.op = "delete" -> Done(Without(t, c.key), c.key \in DOMAIN t)

SqliteRoutes(t, c) ==
  CASE c.op = "upsert" -> Done(Upsert(t, RowKey(c.row), RouteColumns(c.row), {"path", "enabled", "payload"}), c.row)
    [] c.op = "get"    -> Done(t, PayloadOf(t, c.key))
    [] c.op = "list"   -> Done(t, Payloads(t, OfProject(t, c.project)))
    [] c.op = "find"   -> Done(t, \E r \in EnabledRows(t, c.project) : r.path = c.path)
    [] c.op = "delete" -> Done(Without(t, c.key), c.key \in DOMAIN t)

PostgresRoutes(t, c) ==
  CASE c.op = "upsert" -> Done(Upsert(t, RowKey(c.row), RouteColumns(c.row), {"path", "enabled", "payload"}), c.row)
    [] c.op = "get"    -> Done(t, PayloadOf(t, c.key))
    [] c.op = "list"   -> Done(t, Payloads(t, OfProject(t, c.project)))
    [] c.op = "find"   -> Done(t, {r \in EnabledRows(t, c.project) : r.path = c.path} # {})
    [] c.op = "delete" -> Done(Without(t, c.key), c.key \in DOMAIN t)

-----------------------------------------------------------------------------
(* Project tokens.  The Map scans for a live token of the hash; SQL selects *)
(* by the hash, which is UNIQUE, and then looks whether it is revoked.      *)
MemoryTokens(t, c) ==
  CASE c.op = "insert" -> Done(Put(t, c.row.id, c.row), c.row)
    [] c.op = "find"   -> LET live == {r \in Range(t) : r.hash = c.hash /\ ~r.revoked}
                          IN  Done(t, IF live = {} THEN Null ELSE CHOOSE r \in live : TRUE)
    [] c.op = "list"   -> Done(t, {r \in Range(t) : r.project = c.project})
    [] c.op = "revoke" -> IF Find(t, c.id) = Null \/ t[c.id].project # c.project THEN Done(t, Null)
                          ELSE Done([t EXCEPT ![c.id].revoked = TRUE], [t[c.id] EXCEPT !.revoked = TRUE])

TokenColumns(row) == [project_id |-> row.project, token_hash |-> row.hash, payload |-> row]

InsertToken(t, row) ==
  IF \E k \in DOMAIN t : t[k].token_hash = row.hash THEN Done(t, Failed)
  ELSE Insert(t, row.id, TokenColumns(row), row)

ByHash(t, hash) == {t[k].payload : k \in {k \in DOMAIN t : t[k].token_hash = hash}}

TokensOf(t, project) == Payloads(t, {k \in DOMAIN t : t[k].project_id = project})

SqliteTokens(t, c) ==
  CASE c.op = "insert" -> InsertToken(t, c.row)
    [] c.op = "find"   -> Done(t, IF \E r \in ByHash(t, c.hash) : ~r.revoked
                                  THEN CHOOSE r \in ByHash(t, c.hash) : TRUE ELSE Null)
    [] c.op = "list"   -> Done(t, TokensOf(t, c.project))
    [] c.op = "revoke" -> LET old == PayloadOf(t, c.id)
                              new == [old EXCEPT !.revoked = TRUE]
                          IN  IF old = Null \/ old.project # c.project THEN Done(t, Null)
                              ELSE Done(Update(t, c.id, [payload |-> new]), new)

PostgresTokens(t, c) ==
  CASE c.op = "insert" -> InsertToken(t, c.row)
    [] c.op = "find"   -> LET rows == ByHash(t, c.hash)
                          IN  Done(t, IF rows = {} \/ \E r \in rows : r.revoked THEN Null
                                      ELSE CHOOSE r \in rows : TRUE)
    [] c.op = "list"   -> Done(t, TokensOf(t, c.project))
    [] c.op = "revoke" -> LET old == PayloadOf(t, c.id)
                              new == [old EXCEPT !.revoked = TRUE]
                          IN  IF old = Null \/ old.project # c.project THEN Done(t, Null)
                              ELSE Done(Update(t, c.id, [payload |-> new]), new)

-----------------------------------------------------------------------------
(* Secrets, and the run locks, which every store keeps in its process.      *)
MemorySecrets(t, c) ==
  CASE c.op = "put"    -> Done(Put(t, c.id, c.value), Null)
    [] c.op = "get"    -> Done(t, Find(t, c.id))
    [] c.op = "delete" -> Done(Without(t, c.id), c.id \in DOMAIN t)

SqliteSecrets(t, c) ==
  CASE c.op = "put"    -> Done(Upsert(t, c.id, [value |-> c.value], {"value"}), Null)
    [] c.op = "get"    -> Done(t, IF c.id \in DOMAIN t THEN t[c.id].value ELSE Null)
    [] c.op = "delete" -> Done(Without(t, c.id), c.id \in DOMAIN t)

PostgresSecrets(t, c) ==
  CASE c.op = "put"    -> Done(Upsert(t, c.id, [value |-> c.value], {"value"}), Null)
    [] c.op = "get"    -> Done(t, IF c.id \in DOMAIN t THEN t[c.id].value ELSE Null)
    [] c.op = "delete" -> Done(Without(t, c.id), c.id \in DOMAIN t)

(* Audit events, oldest first in the Map's array.  SQL orders by the time   *)
(* the service stamped, and events of one millisecond in any order: the     *)
(* answer is the set of the listings it may give.                           *)
Latest(rows, n) ==
  {s \in SUBSET rows : /\ Cardinality(s) = (IF Cardinality(rows) < n THEN Cardinality(rows) ELSE n)
                       /\ \A x \in s, y \in rows \ s : x.at >= y.at}

(* filter and slice(-limit): the greatest of the positions.                 *)
Last(positions, limit) == {n \in positions : Cardinality({m \in positions : m > n}) < limit}

MemoryAudit(t, c) ==
  CASE c.op = "append" -> Done(Append(t, c.row), Null)
    [] c.op = "list"   -> LET mine == {n \in DOMAIN t : t[n].project = c.project}
                          IN  Done(t, {{t[n] : n \in Last(mine, c.limit)}})

SqliteAudit(t, c) ==
  CASE c.op = "append" -> Insert(t, c.row.id, [project_id |-> c.row.project, payload |-> c.row], Null)
    [] c.op = "list"   -> Done(t, Latest(Payloads(t, {k \in DOMAIN t : t[k].project_id = c.project}), c.limit))

PostgresAudit(t, c) ==
  CASE c.op = "append" -> Insert(t, c.row.id, [project_id |-> c.row.project, payload |-> c.row], Null)
    [] c.op = "list"   -> Done(t, Latest(Payloads(t, {k \in DOMAIN t : t[k].project_id = c.project}), c.limit))
=============================================================================
