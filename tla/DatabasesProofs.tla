-------------------------- MODULE DatabasesProofs --------------------------
(***************************************************************************)
(* The database package, for any constants.  Of the tables: whatever is    *)
(* called, the implementations of a table stay coupled and answer alike.   *)
(* Of opening a database: what is ready has every column and an owner for  *)
(* every dataset, and an owner is only ever changed by a reassignment.     *)
(*                                                                         *)
(* The tables first: a lemma for each says what the calls made on it look  *)
(* like, and a lemma that coupled tables answer such a call alike and stay *)
(* coupled.                                                                *)
(***************************************************************************)
EXTENDS Databases, DatabaseStartup, FiniteSetTheorems, TLAPS

LEMMA NullIsNoRow ==
  /\ \A x \in SourceRow : x # Null
  /\ \A x \in ProjectRow : x # Null
  /\ \A x \in DatasetRow : x # Null
  /\ \A x \in SchemaRow : x # Null
  /\ \A x \in ProjectIds \cup {LegacyProject} : x # Null
BY DatabasesAssumption

-----------------------------------------------------------------------------
(* Tables *)

(* An UPDATE or an upsert that names every column replaces the row.         *)
LEMMA UpdateIsPut ==
  ASSUME NEW t, IsTable(t), NEW k \in DOMAIN t, NEW cols
  PROVE  Update(t, k, cols) = Put(t, k, With(t[k], cols))
BY DEF Update, Put, IsTable

LEMMA UpsertIsPut ==
  ASSUME NEW t, NEW k, NEW cols, NEW set, cols = [x \in DOMAIN cols |-> cols[x]],
         DOMAIN cols \subseteq set
  PROVE  Upsert(t, k, cols, set) = Put(t, k, cols)
<1>1. [c \in DOMAIN cols |-> IF k \in DOMAIN t /\ c \notin set THEN t[k][c] ELSE cols[c]] = cols
  OBVIOUS
<1> QED BY <1>1 DEF Upsert

(* Coupled tables stay coupled if both put a related row under a key, or    *)
(* both drop a key.                                                         *)
LEMMA PutCoupled ==
  ASSUME NEW m, NEW s, NEW rel, Coupled(m, s, rel), NEW k, NEW row, NEW cols,
         <<k, row, cols>> \in rel
  PROVE  Coupled(Put(m, k, row), Put(s, k, cols), rel)
<1> DEFINE n == Put(m, k, row)
           u == Put(s, k, cols)
<1>1. /\ IsTable(n) /\ DOMAIN n = DOMAIN m \cup {k}
      /\ \A x \in DOMAIN m \cup {k} : n[x] = IF x = k THEN row ELSE m[x]
  BY DEF Put, IsTable
<1>2. /\ IsTable(u) /\ DOMAIN u = DOMAIN s \cup {k}
      /\ \A x \in DOMAIN s \cup {k} : u[x] = IF x = k THEN cols ELSE s[x]
  BY DEF Put, IsTable
<1> HIDE DEF n, u
<1>3. DOMAIN s = DOMAIN m /\ \A x \in DOMAIN m : <<x, m[x], s[x]>> \in rel
  BY DEF Coupled
<1>4. ASSUME NEW x \in DOMAIN n
      PROVE  <<x, n[x], u[x]>> \in rel
  <2>1. CASE x = k
    BY <1>1, <1>2, <1>3, <2>1
  <2>2. CASE x # k
    BY <1>1, <1>2, <1>3, <2>2
  <2> QED BY <2>1, <2>2
<1>5. Coupled(n, u, rel)
  BY <1>1, <1>2, <1>3, <1>4 DEF Coupled
<1> QED BY <1>5 DEF n, u

LEMMA WithoutCoupled ==
  ASSUME NEW m, NEW s, NEW rel, Coupled(m, s, rel), NEW k
  PROVE  Coupled(Without(m, k), Without(s, k), rel)
<1> DEFINE n == Without(m, k)
           u == Without(s, k)
<1>1. IsTable(n) /\ DOMAIN n = DOMAIN m \ {k} /\ \A x \in DOMAIN m \ {k} : n[x] = m[x]
  BY DEF Without, Restrict, IsTable
<1>2. IsTable(u) /\ DOMAIN u = DOMAIN s \ {k} /\ \A x \in DOMAIN s \ {k} : u[x] = s[x]
  BY DEF Without, Restrict, IsTable
<1> HIDE DEF n, u
<1>3. DOMAIN s = DOMAIN m /\ \A x \in DOMAIN m : <<x, m[x], s[x]>> \in rel
  BY DEF Coupled
<1>4. Coupled(n, u, rel)
  BY <1>1, <1>2, <1>3 DEF Coupled
<1> QED BY <1>4 DEF n, u

-----------------------------------------------------------------------------
(* Data sources and saved imports *)

(* The calls, by their operation.                                           *)
RowCallForms(c, m) ==
  \/ c.op = "insert" /\ c.row \in SourceRow /\ RowKey(c.row) \notin DOMAIN m
  \/ c.op = "update" /\ c.row \in SourceRow /\ RowKey(c.row) = c.key
  \/ c.op \in {"get", "delete", "list"}

LEMMA RowCallsAreFormed ==
  ASSUME NEW c \in RowCalls
  PROVE  RowCallForms(c, memory)
<1> DEFINE row(k, d) == [project |-> k[1], id |-> k[2], dataset |-> d]
<1>1. ASSUME NEW k \in Keys, NEW d \in DatasetIds
      PROVE  row(k, d) \in SourceRow /\ RowKey(row(k, d)) = k
  BY DEF Keys, SourceRow, RowKey
<1>2. \/ \E k \in Keys, d \in DatasetIds : c \in InsertIfNew(row(k, d), k)
      \/ \E k \in Keys, d \in DatasetIds : c = [op |-> "update", key |-> k, row |-> row(k, d)]
      \/ c.op \in {"get", "delete", "list"}
  BY DEF RowCalls
<1> HIDE DEF row
<1>3. ASSUME NEW k \in Keys, NEW d \in DatasetIds, c \in InsertIfNew(row(k, d), k)
      PROVE  RowCallForms(c, memory)
  <2>1. c = [op |-> "insert", row |-> row(k, d)] /\ k \notin DOMAIN memory
    BY <1>3 DEF InsertIfNew
  <2> QED BY <1>1, <2>1 DEF RowCallForms
<1>4. ASSUME NEW k \in Keys, NEW d \in DatasetIds, c = [op |-> "update", key |-> k, row |-> row(k, d)]
      PROVE  RowCallForms(c, memory)
  BY <1>1, <1>4 DEF RowCallForms
<1> QED BY <1>2, <1>3, <1>4 DEF RowCallForms

LEMMA SourcesAgree ==
  ASSUME NEW m, NEW s, Coupled(m, s, SourceRows), NEW c, RowCallForms(c, m)
  PROVE  /\ MemorySources(m, c).answer = SqliteSources(s, c).answer
         /\ PostgresSources(s, c) = SqliteSources(s, c)
         /\ Coupled(MemorySources(m, c).table, SqliteSources(s, c).table, SourceRows)
<1>1. /\ IsTable(m) /\ DOMAIN s = DOMAIN m /\ IsTable(s)
      /\ \A k \in DOMAIN m : /\ m[k] \in SourceRow /\ RowKey(m[k]) = k /\ m[k] # Null
                             /\ s[k] = [payload |-> m[k]]
  BY NullIsNoRow DEF Coupled, SourceRows
<1> USE DEF Done
<1>2. ASSUME NEW row \in SourceRow
      PROVE  Coupled(Put(m, RowKey(row), row), Put(s, RowKey(row), [payload |-> row]), SourceRows)
  <2>1. <<RowKey(row), row, [payload |-> row]>> \in SourceRows
    BY DEF SourceRows
  <2> QED BY <2>1, PutCoupled
<1>3. CASE c.op = "insert" /\ c.row \in SourceRow /\ RowKey(c.row) \notin DOMAIN m
  <2>1. /\ MemorySources(m, c) = Done(Put(m, RowKey(c.row), c.row), c.row)
        /\ SqliteSources(s, c) = Done(Put(s, RowKey(c.row), [payload |-> c.row]), c.row)
        /\ PostgresSources(s, c) = Done(Put(s, RowKey(c.row), [payload |-> c.row]), c.row)
    BY <1>1, <1>3 DEF MemorySources, MemoryRows, SqliteSources, PostgresSources, Insert
  <2> QED BY <1>2, <1>3, <2>1
<1>4. CASE c.op = "update" /\ c.row \in SourceRow /\ RowKey(c.row) = c.key
  <2>1. CASE c.key \in DOMAIN m
    <3>1. With(s[c.key], [payload |-> c.row]) = [payload |-> c.row]
      BY <1>1, <2>1 DEF With
    <3>2. Update(s, c.key, [payload |-> c.row]) = Put(s, c.key, [payload |-> c.row])
      BY <1>1, <2>1, <3>1, UpdateIsPut
    <3>3. /\ MemorySources(m, c) = Done(Put(m, c.key, c.row), c.row)
          /\ SqliteSources(s, c) = Done(Put(s, c.key, [payload |-> c.row]), c.row)
          /\ PostgresSources(s, c) = Done(Put(s, c.key, [payload |-> c.row]), c.row)
      BY <1>1, <1>4, <2>1, <3>2 DEF MemorySources, MemoryRows, SqliteSources, PostgresSources, PayloadOf
    <3> QED BY <1>2, <1>4, <3>3
  <2>2. CASE c.key \notin DOMAIN m
    <3>1. /\ MemorySources(m, c) = Done(m, Null)
          /\ SqliteSources(s, c) = Done(s, Null)
          /\ PostgresSources(s, c) = Done(s, Null)
      BY <1>1, <1>4, <2>2 DEF MemorySources, MemoryRows, SqliteSources, PostgresSources, PayloadOf
    <3> QED BY <3>1
  <2> QED BY <2>1, <2>2
<1>5. CASE c.op = "get"
  <2>1. Find(m, c.key) = PayloadOf(s, c.key)
    BY <1>1 DEF Find, PayloadOf
  <2>2. /\ MemorySources(m, c) = Done(m, Find(m, c.key))
        /\ SqliteSources(s, c) = Done(s, PayloadOf(s, c.key))
        /\ PostgresSources(s, c) = Done(s, PayloadOf(s, c.key))
    BY <1>5 DEF MemorySources, MemoryRows, SqliteSources, PostgresSources
  <2> QED BY <2>1, <2>2
<1>6. CASE c.op = "delete"
  <2>1. /\ MemorySources(m, c) = Done(Without(m, c.key), c.key \in DOMAIN m)
        /\ SqliteSources(s, c) = Done(Without(s, c.key), c.key \in DOMAIN m)
        /\ PostgresSources(s, c) = Done(Without(s, c.key), c.key \in DOMAIN m)
    BY <1>1, <1>6 DEF MemorySources, MemoryRows, SqliteSources, PostgresSources
  <2> QED BY <2>1, WithoutCoupled
<1>7. CASE c.op = "list"
  <2>1. /\ MemorySources(m, c) = Done(m, {r \in Range(m) : r.project = c.project /\ InDataset(r, c.dataset)})
        /\ SqliteSources(s, c) = Done(s, ListRows(s, c))
        /\ PostgresSources(s, c) = Done(s, ListRows(s, c))
    BY <1>7 DEF MemorySources, MemoryRows, SqliteSources, PostgresSources
  <2>2. {r \in Range(m) : r.project = c.project /\ InDataset(r, c.dataset)} = ListRows(s, c)
    BY <1>1 DEF Range, ListRows, Payloads, OfProject, RowKey
  <2> QED BY <2>1, <2>2
<1> QED BY <1>3, <1>4, <1>5, <1>6, <1>7 DEF RowCallForms

LEMMA ImportsAgree ==
  ASSUME NEW m, NEW s, Coupled(m, s, ImportRows), NEW c, RowCallForms(c, m)
  PROVE  /\ MemoryImports(m, c).answer = SqliteImports(s, c).answer
         /\ PostgresImports(s, c) = SqliteImports(s, c)
         /\ Coupled(MemoryImports(m, c).table, SqliteImports(s, c).table, ImportRows)
<1>1. /\ IsTable(m) /\ DOMAIN s = DOMAIN m /\ IsTable(s)
      /\ \A k \in DOMAIN m : /\ m[k] \in SourceRow /\ RowKey(m[k]) = k /\ m[k] # Null
                             /\ s[k] = [dataset_id |-> m[k].dataset, payload |-> m[k]]
  BY NullIsNoRow DEF Coupled, ImportRows
<1> USE DEF Done
<1>2. ASSUME NEW row \in SourceRow
      PROVE  Coupled(Put(m, RowKey(row), row), Put(s, RowKey(row), [dataset_id |-> row.dataset, payload |-> row]), ImportRows)
  <2>1. <<RowKey(row), row, [dataset_id |-> row.dataset, payload |-> row]>> \in ImportRows
    BY DEF ImportRows
  <2> QED BY <2>1, PutCoupled
<1>3. CASE c.op = "insert" /\ c.row \in SourceRow /\ RowKey(c.row) \notin DOMAIN m
  <2>1. /\ MemoryImports(m, c) = Done(Put(m, RowKey(c.row), c.row), c.row)
        /\ SqliteImports(s, c) = Done(Put(s, RowKey(c.row), [dataset_id |-> c.row.dataset, payload |-> c.row]), c.row)
        /\ PostgresImports(s, c) = Done(Put(s, RowKey(c.row), [dataset_id |-> c.row.dataset, payload |-> c.row]), c.row)
    BY <1>1, <1>3 DEF MemoryImports, MemoryRows, SqliteImports, PostgresImports, Insert
  <2> QED BY <1>2, <1>3, <2>1
<1>4. CASE c.op = "update" /\ c.row \in SourceRow /\ RowKey(c.row) = c.key
  <2>1. CASE c.key \in DOMAIN m
    <3>1. With(s[c.key], [dataset_id |-> c.row.dataset, payload |-> c.row]) = [dataset_id |-> c.row.dataset, payload |-> c.row]
      BY <1>1, <2>1 DEF With
    <3>2. Update(s, c.key, [dataset_id |-> c.row.dataset, payload |-> c.row]) = Put(s, c.key, [dataset_id |-> c.row.dataset, payload |-> c.row])
      BY <1>1, <2>1, <3>1, UpdateIsPut
    <3>3. /\ MemoryImports(m, c) = Done(Put(m, c.key, c.row), c.row)
          /\ SqliteImports(s, c) = Done(Put(s, c.key, [dataset_id |-> c.row.dataset, payload |-> c.row]), c.row)
          /\ PostgresImports(s, c) = Done(Put(s, c.key, [dataset_id |-> c.row.dataset, payload |-> c.row]), c.row)
      BY <1>1, <1>4, <2>1, <3>2 DEF MemoryImports, MemoryRows, SqliteImports, PostgresImports, PayloadOf
    <3> QED BY <1>2, <1>4, <3>3
  <2>2. CASE c.key \notin DOMAIN m
    <3>1. /\ MemoryImports(m, c) = Done(m, Null)
          /\ SqliteImports(s, c) = Done(s, Null)
          /\ PostgresImports(s, c) = Done(s, Null)
      BY <1>1, <1>4, <2>2 DEF MemoryImports, MemoryRows, SqliteImports, PostgresImports, PayloadOf
    <3> QED BY <3>1
  <2> QED BY <2>1, <2>2
<1>5. CASE c.op = "get"
  <2>1. Find(m, c.key) = PayloadOf(s, c.key)
    BY <1>1 DEF Find, PayloadOf
  <2>2. /\ MemoryImports(m, c) = Done(m, Find(m, c.key))
        /\ SqliteImports(s, c) = Done(s, PayloadOf(s, c.key))
        /\ PostgresImports(s, c) = Done(s, PayloadOf(s, c.key))
    BY <1>5 DEF MemoryImports, MemoryRows, SqliteImports, PostgresImports
  <2> QED BY <2>1, <2>2
<1>6. CASE c.op = "delete"
  <2>1. /\ MemoryImports(m, c) = Done(Without(m, c.key), c.key \in DOMAIN m)
        /\ SqliteImports(s, c) = Done(Without(s, c.key), c.key \in DOMAIN m)
        /\ PostgresImports(s, c) = Done(Without(s, c.key), c.key \in DOMAIN m)
    BY <1>1, <1>6 DEF MemoryImports, MemoryRows, SqliteImports, PostgresImports
  <2> QED BY <2>1, WithoutCoupled
<1>7. CASE c.op = "list"
  <2>1. /\ MemoryImports(m, c) = Done(m, {r \in Range(m) : r.project = c.project /\ InDataset(r, c.dataset)})
        /\ SqliteImports(s, c) = Done(s, ListRows(s, c))
        /\ PostgresImports(s, c) = Done(s, ListRows(s, c))
    BY <1>7 DEF MemoryImports, MemoryRows, SqliteImports, PostgresImports
  <2>2. {r \in Range(m) : r.project = c.project /\ InDataset(r, c.dataset)} = ListRows(s, c)
    BY <1>1 DEF Range, ListRows, Payloads, OfProject, RowKey
  <2> QED BY <2>1, <2>2
<1> QED BY <1>3, <1>4, <1>5, <1>6, <1>7 DEF RowCallForms

-----------------------------------------------------------------------------
(* Published routes *)

RouteCallForms(c) ==
  \/ c.op = "upsert" /\ c.row \in PublishedRow
  \/ c.op \in {"get", "list", "find", "delete"}

LEMMA RouteCallsAreFormed ==
  ASSUME NEW c \in RouteCalls
  PROVE  RouteCallForms(c)
<1> DEFINE row(k, path, e) == [project |-> k[1], id |-> k[2], path |-> path, enabled |-> e]
<1>1. ASSUME NEW k \in Keys, NEW path \in DatasetIds, NEW e \in BOOLEAN
      PROVE  row(k, path, e) \in PublishedRow
  BY DEF Keys, PublishedRow
<1>2. \/ \E k \in Keys, path \in DatasetIds, e \in BOOLEAN : c = [op |-> "upsert", row |-> row(k, path, e)]
      \/ c.op \in {"get", "list", "find", "delete"}
  BY DEF RouteCalls
<1> HIDE DEF row
<1> QED BY <1>1, <1>2 DEF RouteCallForms

(* The upsert names every column, so the enabled column that a lookup by    *)
(* path selects by is always that of the row.                               *)
LEMMA RoutesAgree ==
  ASSUME NEW m, NEW s, Coupled(m, s, RouteRows), NEW c, RouteCallForms(c)
  PROVE  /\ MemoryRoutes(m, c).answer = SqliteRoutes(s, c).answer
         /\ PostgresRoutes(s, c) = SqliteRoutes(s, c)
         /\ Coupled(MemoryRoutes(m, c).table, SqliteRoutes(s, c).table, RouteRows)
<1>1. /\ IsTable(m) /\ DOMAIN s = DOMAIN m /\ IsTable(s)
      /\ \A k \in DOMAIN m : m[k] \in PublishedRow /\ RowKey(m[k]) = k /\ s[k] = RouteColumns(m[k])
  BY DEF Coupled, RouteRows
<1>2. \A r : /\ RouteColumns(r).payload = r /\ RouteColumns(r).enabled = r.enabled
             /\ DOMAIN RouteColumns(r) = {"path", "enabled", "payload"}
             /\ RouteColumns(r) = [x \in DOMAIN RouteColumns(r) |-> RouteColumns(r)[x]]
  BY DEF RouteColumns
<1> USE DEF Done
<1>3. CASE c.op = "upsert" /\ c.row \in PublishedRow
  <2>1. <<RowKey(c.row), c.row, RouteColumns(c.row)>> \in RouteRows
    BY <1>3 DEF RouteRows
  <2>2. Upsert(s, RowKey(c.row), RouteColumns(c.row), {"path", "enabled", "payload"})
          = Put(s, RowKey(c.row), RouteColumns(c.row))
    BY <1>2, UpsertIsPut
  <2>3. /\ MemoryRoutes(m, c) = Done(Put(m, RowKey(c.row), c.row), c.row)
        /\ SqliteRoutes(s, c) = Done(Put(s, RowKey(c.row), RouteColumns(c.row)), c.row)
        /\ PostgresRoutes(s, c) = Done(Put(s, RowKey(c.row), RouteColumns(c.row)), c.row)
    BY <1>3, <2>2 DEF MemoryRoutes, SqliteRoutes, PostgresRoutes
  <2> QED BY <2>1, <2>3, PutCoupled
<1>4. CASE c.op = "get"
  <2>1. Find(m, c.key) = PayloadOf(s, c.key)
    BY <1>1, <1>2 DEF Find, PayloadOf
  <2>2. /\ MemoryRoutes(m, c) = Done(m, Find(m, c.key))
        /\ SqliteRoutes(s, c) = Done(s, PayloadOf(s, c.key))
        /\ PostgresRoutes(s, c) = Done(s, PayloadOf(s, c.key))
    BY <1>4 DEF MemoryRoutes, SqliteRoutes, PostgresRoutes
  <2> QED BY <2>1, <2>2
<1>5. CASE c.op = "delete"
  <2>1. /\ MemoryRoutes(m, c) = Done(Without(m, c.key), c.key \in DOMAIN m)
        /\ SqliteRoutes(s, c) = Done(Without(s, c.key), c.key \in DOMAIN m)
        /\ PostgresRoutes(s, c) = Done(Without(s, c.key), c.key \in DOMAIN m)
    BY <1>1, <1>5 DEF MemoryRoutes, SqliteRoutes, PostgresRoutes
  <2> QED BY <2>1, WithoutCoupled
<1>6. CASE c.op = "list"
  <2>1. /\ MemoryRoutes(m, c) = Done(m, {r \in Range(m) : r.project = c.project})
        /\ SqliteRoutes(s, c) = Done(s, Payloads(s, OfProject(s, c.project)))
        /\ PostgresRoutes(s, c) = Done(s, Payloads(s, OfProject(s, c.project)))
    BY <1>6 DEF MemoryRoutes, SqliteRoutes, PostgresRoutes
  <2>2. {r \in Range(m) : r.project = c.project} = Payloads(s, OfProject(s, c.project))
    BY <1>1, <1>2 DEF Range, Payloads, OfProject, RowKey
  <2> QED BY <2>1, <2>2
<1>7. CASE c.op = "find"
  <2>1. /\ MemoryRoutes(m, c) =
             Done(m, \E r \in Range(m) : r.project = c.project /\ r.enabled /\ r.path = c.path)
        /\ SqliteRoutes(s, c) = Done(s, \E r \in EnabledRows(s, c.project) : r.path = c.path)
        /\ PostgresRoutes(s, c) = Done(s, {r \in EnabledRows(s, c.project) : r.path = c.path} # {})
    BY <1>7 DEF MemoryRoutes, SqliteRoutes, PostgresRoutes
  <2>2. EnabledRows(s, c.project) = {r \in Range(m) : r.project = c.project /\ r.enabled}
    <3>1. \A k \in DOMAIN m : (s[k].enabled <=> m[k].enabled) /\ s[k].payload = m[k] /\ (k[1] = m[k].project)
      BY <1>1, <1>2 DEF RowKey
    <3>2. EnabledRows(s, c.project) = {s[k].payload : k \in {k \in DOMAIN m : k[1] = c.project /\ s[k].enabled}}
      BY <1>1 DEF EnabledRows, OfProject
    <3>3. \A k \in DOMAIN m : k[1] = c.project /\ s[k].enabled <=> m[k].project = c.project /\ m[k].enabled
      BY <3>1
    <3>4. EnabledRows(s, c.project) = {m[k] : k \in {k \in DOMAIN m : m[k].project = c.project /\ m[k].enabled}}
      BY <3>1, <3>2, <3>3
    <3> QED BY <3>4 DEF Range
  <2> DEFINE found == \E r \in EnabledRows(s, c.project) : r.path = c.path
  <2>3. (\E r \in Range(m) : r.project = c.project /\ r.enabled /\ r.path = c.path) = found
    BY <2>2
  <2>4. ({r \in EnabledRows(s, c.project) : r.path = c.path} # {}) = found
    OBVIOUS
  <2>5. /\ MemoryRoutes(m, c) = Done(m, found)
        /\ SqliteRoutes(s, c) = Done(s, found)
        /\ PostgresRoutes(s, c) = Done(s, found)
    BY <2>1, <2>3, <2>4, Zenon
  <2> HIDE DEF found
  <2> QED BY <2>5
<1> QED BY <1>3, <1>4, <1>5, <1>6, <1>7 DEF RouteCallForms

-----------------------------------------------------------------------------
(* Project tokens *)

TokenCallForms(c, m) ==
  \/ c.op = "insert" /\ c.row \in TokenRow /\ c.row.hash = c.row.id /\ c.row.id \notin DOMAIN m
  \/ c.op \in {"find", "list", "revoke"}

LEMMA TokenCallsAreFormed ==
  ASSUME NEW c \in TokenCalls
  PROVE  TokenCallForms(c, memory)
<1> DEFINE row(i, p) == [id |-> i, project |-> p, hash |-> i, revoked |-> FALSE]
<1>1. ASSUME NEW i \in RowIds, NEW p \in ProjectIds
      PROVE  row(i, p) \in TokenRow /\ row(i, p).hash = i /\ row(i, p).id = i
  BY DEF TokenRow
<1>2. \/ \E i \in RowIds, p \in ProjectIds : c \in InsertIfNew(row(i, p), i)
      \/ c.op \in {"find", "list", "revoke"}
  BY DEF TokenCalls
<1> HIDE DEF row
<1>3. ASSUME NEW i \in RowIds, NEW p \in ProjectIds, c \in InsertIfNew(row(i, p), i)
      PROVE  TokenCallForms(c, memory)
  <2>1. c = [op |-> "insert", row |-> row(i, p)] /\ i \notin DOMAIN memory
    BY <1>3 DEF InsertIfNew
  <2> QED BY <1>1, <2>1 DEF TokenCallForms
<1> QED BY <1>2, <1>3 DEF TokenCallForms

(* A hash is that of one token, so the scan of the Map and the lookup by    *)
(* hash meet the same token; revoking it changes its payload alone.         *)
LEMMA TokensAgree ==
  ASSUME NEW m, NEW s, Coupled(m, s, TokenRows), NEW c, TokenCallForms(c, m)
  PROVE  /\ MemoryTokens(m, c).answer = SqliteTokens(s, c).answer
         /\ PostgresTokens(s, c) = SqliteTokens(s, c)
         /\ Coupled(MemoryTokens(m, c).table, SqliteTokens(s, c).table, TokenRows)
<1>1. /\ IsTable(m) /\ DOMAIN s = DOMAIN m /\ IsTable(s)
      /\ \A k \in DOMAIN m : /\ m[k] \in TokenRow /\ m[k].id = k /\ m[k].hash = k
                             /\ s[k] = TokenColumns(m[k])
  BY DEF Coupled, TokenRows
<1>2. \A r : /\ TokenColumns(r).payload = r /\ TokenColumns(r).token_hash = r.hash
             /\ TokenColumns(r).project_id = r.project
  BY DEF TokenColumns
<1>3. \A id : Find(m, id) = PayloadOf(s, id)
  BY <1>1, <1>2 DEF Find, PayloadOf
<1> USE DEF Done
<1>4. CASE c.op = "insert" /\ c.row \in TokenRow /\ c.row.hash = c.row.id /\ c.row.id \notin DOMAIN m
  <2>1. <<c.row.id, c.row, TokenColumns(c.row)>> \in TokenRows
    BY <1>4 DEF TokenRows
  <2>2. ~ \E k \in DOMAIN s : s[k].token_hash = c.row.hash
    BY <1>1, <1>2, <1>4
  <2>3. InsertToken(s, c.row) = Done(Put(s, c.row.id, TokenColumns(c.row)), c.row)
    BY <1>1, <1>4, <2>2 DEF InsertToken, Insert
  <2>4. /\ MemoryTokens(m, c) = Done(Put(m, c.row.id, c.row), c.row)
        /\ SqliteTokens(s, c) = Done(Put(s, c.row.id, TokenColumns(c.row)), c.row)
        /\ PostgresTokens(s, c) = Done(Put(s, c.row.id, TokenColumns(c.row)), c.row)
    BY <1>4, <2>3 DEF MemoryTokens, SqliteTokens, PostgresTokens
  <2> QED BY <2>1, <2>4, PutCoupled
<1>5. CASE c.op = "find"
  <2> DEFINE rows == {r \in Range(m) : r.hash = c.hash}
             answer == IF c.hash \in DOMAIN m /\ ~m[c.hash].revoked THEN m[c.hash] ELSE Null
  <2>1. rows = IF c.hash \in DOMAIN m THEN {m[c.hash]} ELSE {}
    BY <1>1 DEF Range
  <2>2. ByHash(s, c.hash) = rows
    <3>1. \A k \in DOMAIN m : s[k].token_hash = m[k].hash /\ s[k].payload = m[k]
      BY <1>1, <1>2
    <3>2. ByHash(s, c.hash) = {m[k] : k \in {k \in DOMAIN m : m[k].hash = c.hash}}
      BY <1>1, <3>1 DEF ByHash
    <3> QED BY <3>2 DEF Range
  <2>3. {r \in Range(m) : r.hash = c.hash /\ ~r.revoked} = {r \in rows : ~r.revoked}
    OBVIOUS
  <2> HIDE DEF rows
  <2>4. MemoryTokens(m, c) =
          Done(m, IF {r \in rows : ~r.revoked} = {} THEN Null ELSE CHOOSE r \in {r \in rows : ~r.revoked} : TRUE)
    BY <1>5, <2>3 DEF MemoryTokens
  <2>5. SqliteTokens(s, c) = Done(s, IF \E r \in rows : ~r.revoked THEN CHOOSE r \in rows : TRUE ELSE Null)
    BY <1>5, <2>2 DEF SqliteTokens
  <2>6. PostgresTokens(s, c) =
          Done(s, IF rows = {} \/ \E r \in rows : r.revoked THEN Null ELSE CHOOSE r \in rows : TRUE)
    BY <1>5, <2>2 DEF PostgresTokens
  <2>7. /\ MemoryTokens(m, c) = Done(m, answer)
        /\ SqliteTokens(s, c) = Done(s, answer)
        /\ PostgresTokens(s, c) = Done(s, answer)
    <3>1. CASE c.hash \in DOMAIN m /\ ~m[c.hash].revoked
      <4>1. rows = {m[c.hash]} /\ {r \in rows : ~r.revoked} = rows /\ (CHOOSE r \in rows : TRUE) = m[c.hash]
        BY <2>1, <3>1
      <4> QED BY <2>4, <2>5, <2>6, <3>1, <4>1
    <3>2. CASE c.hash \in DOMAIN m /\ m[c.hash].revoked
      <4>1. rows = {m[c.hash]} /\ {r \in rows : ~r.revoked} = {}
        BY <2>1, <3>2
      <4> QED BY <2>4, <2>5, <2>6, <3>2, <4>1
    <3>3. CASE c.hash \notin DOMAIN m
      <4>1. rows = {}
        BY <2>1, <3>3
      <4> QED BY <2>4, <2>5, <2>6, <3>3, <4>1
    <3> QED BY <3>1, <3>2, <3>3
  <2> QED BY <2>7
<1>6. CASE c.op = "list"
  <2>1. /\ MemoryTokens(m, c) = Done(m, {r \in Range(m) : r.project = c.project})
        /\ SqliteTokens(s, c) = Done(s, TokensOf(s, c.project))
        /\ PostgresTokens(s, c) = Done(s, TokensOf(s, c.project))
    BY <1>6 DEF MemoryTokens, SqliteTokens, PostgresTokens
  <2>2. \A k \in DOMAIN m : s[k].project_id = m[k].project /\ s[k].payload = m[k]
    BY <1>1, <1>2
  <2>3. TokensOf(s, c.project) = {m[k] : k \in {k \in DOMAIN m : m[k].project = c.project}}
    BY <1>1, <2>2 DEF TokensOf, Payloads
  <2>4. {r \in Range(m) : r.project = c.project} = TokensOf(s, c.project)
    BY <2>3 DEF Range
  <2> QED BY <2>1, <2>4
<1>7. CASE c.op = "revoke"
  <2> DEFINE old == PayloadOf(s, c.id)
             new == [old EXCEPT !.revoked = TRUE]
  <2>1. CASE old = Null \/ old.project # c.project
    <3>1. Find(m, c.id) = Null \/ m[c.id].project # c.project
      BY <1>1, <1>2, <1>3, <2>1 DEF Find, PayloadOf
    <3>2. /\ MemoryTokens(m, c) = Done(m, Null)
          /\ SqliteTokens(s, c) = Done(s, Null)
          /\ PostgresTokens(s, c) = Done(s, Null)
      BY <1>7, <2>1, <3>1 DEF MemoryTokens, SqliteTokens, PostgresTokens
    <3> QED BY <3>2
  <2>2. CASE ~(old = Null \/ old.project # c.project)
    <3>1. c.id \in DOMAIN m /\ old = m[c.id] /\ s[c.id] = TokenColumns(old)
      BY <1>1, <1>2, <2>2 DEF PayloadOf
    <3>2. new \in TokenRow /\ new.id = c.id /\ new.hash = c.id /\ new.project = old.project
      BY <1>1, <3>1 DEF TokenRow
    <3>3. [m EXCEPT ![c.id].revoked = TRUE] = Put(m, c.id, new)
      <4> DEFINE after == [m EXCEPT ![c.id].revoked = TRUE]
      <4>1. /\ IsTable(after) /\ DOMAIN after = DOMAIN m
            /\ \A k \in DOMAIN m : after[k] = IF k = c.id THEN [m[k] EXCEPT !.revoked = TRUE] ELSE m[k]
        BY <3>1 DEF IsTable
      <4>2. [m[c.id] EXCEPT !.revoked = TRUE] = new
        BY <3>1
      <4> HIDE DEF after, new
      <4>3. \A k \in DOMAIN m : after[k] = Put(m, c.id, new)[k]
        BY <3>1, <4>1, <4>2 DEF Put
      <4>4. DOMAIN Put(m, c.id, new) = DOMAIN m /\ IsTable(Put(m, c.id, new))
        BY <3>1 DEF Put, IsTable
      <4>5. after = Put(m, c.id, new)
        BY <4>1, <4>3, <4>4 DEF IsTable
      <4> QED BY <4>5 DEF after
    <3>4. With(s[c.id], [payload |-> new]) = TokenColumns(new)
      <4>1. TokenColumns(new) = [project_id |-> old.project, token_hash |-> old.hash, payload |-> new]
        BY <1>1, <3>1, <3>2 DEF TokenColumns
      <4> HIDE DEF new
      <4> QED BY <3>1, <4>1 DEF With, TokenColumns
    <3>5. Update(s, c.id, [payload |-> new]) = Put(s, c.id, TokenColumns(new))
      BY <1>1, <3>1, <3>4, UpdateIsPut
    <3>6. <<c.id, new, TokenColumns(new)>> \in TokenRows
      BY <3>2 DEF TokenRows
    <3>7. ~(Find(m, c.id) = Null \/ m[c.id].project # c.project) /\ [m[c.id] EXCEPT !.revoked = TRUE] = new
      BY <1>3, <2>2, <3>1
    <3>8. MemoryTokens(m, c) = Done([m EXCEPT ![c.id].revoked = TRUE], [m[c.id] EXCEPT !.revoked = TRUE])
      BY <1>7, <3>7 DEF MemoryTokens
    <3>9. /\ SqliteTokens(s, c) = Done(Update(s, c.id, [payload |-> new]), new)
          /\ PostgresTokens(s, c) = Done(Update(s, c.id, [payload |-> new]), new)
      BY <1>7, <2>2 DEF SqliteTokens, PostgresTokens
    <3> HIDE DEF new
    <3>10. /\ MemoryTokens(m, c) = Done(Put(m, c.id, new), new)
           /\ SqliteTokens(s, c) = Done(Put(s, c.id, TokenColumns(new)), new)
           /\ PostgresTokens(s, c) = Done(Put(s, c.id, TokenColumns(new)), new)
      BY <3>3, <3>5, <3>7, <3>8, <3>9
    <3> QED BY <3>6, <3>10, PutCoupled
  <2> QED BY <2>1, <2>2
<1> QED BY <1>4, <1>5, <1>6, <1>7 DEF TokenCallForms

-----------------------------------------------------------------------------
(* Secrets *)

SecretCallForms(c) ==
  \/ c.op = "put" /\ c.id \in RowIds /\ c.value \in DatasetIds
  \/ c.op \in {"get", "delete"}

LEMMA SecretCallsAreFormed ==
  ASSUME NEW c \in SecretCalls
  PROVE  SecretCallForms(c)
BY DEF SecretCalls, SecretCallForms

LEMMA SecretsAgree ==
  ASSUME NEW m, NEW s, Coupled(m, s, SecretRows), NEW c, SecretCallForms(c)
  PROVE  /\ MemorySecrets(m, c).answer = SqliteSecrets(s, c).answer
         /\ PostgresSecrets(s, c) = SqliteSecrets(s, c)
         /\ Coupled(MemorySecrets(m, c).table, SqliteSecrets(s, c).table, SecretRows)
<1>1. /\ IsTable(m) /\ DOMAIN s = DOMAIN m /\ IsTable(s)
      /\ \A k \in DOMAIN m : s[k] = [value |-> m[k]]
  BY DEF Coupled, SecretRows
<1> USE DEF Done
<1>2. CASE c.op = "put" /\ c.id \in RowIds /\ c.value \in DatasetIds
  <2>1. <<c.id, c.value, [value |-> c.value]>> \in SecretRows
    BY <1>2 DEF SecretRows
  <2>2. Upsert(s, c.id, [value |-> c.value], {"value"}) = Put(s, c.id, [value |-> c.value])
    BY UpsertIsPut
  <2>3. /\ MemorySecrets(m, c) = Done(Put(m, c.id, c.value), Null)
        /\ SqliteSecrets(s, c) = Done(Put(s, c.id, [value |-> c.value]), Null)
        /\ PostgresSecrets(s, c) = Done(Put(s, c.id, [value |-> c.value]), Null)
    BY <1>2, <2>2 DEF MemorySecrets, SqliteSecrets, PostgresSecrets
  <2> QED BY <2>1, <2>3, PutCoupled
<1>3. CASE c.op = "get"
  <2>1. /\ MemorySecrets(m, c) = Done(m, Find(m, c.id))
        /\ SqliteSecrets(s, c) = Done(s, IF c.id \in DOMAIN s THEN s[c.id].value ELSE Null)
        /\ PostgresSecrets(s, c) = Done(s, IF c.id \in DOMAIN s THEN s[c.id].value ELSE Null)
    BY <1>3 DEF MemorySecrets, SqliteSecrets, PostgresSecrets
  <2>2. Find(m, c.id) = IF c.id \in DOMAIN s THEN s[c.id].value ELSE Null
    BY <1>1 DEF Find
  <2> QED BY <2>1, <2>2
<1>4. CASE c.op = "delete"
  <2>1. /\ MemorySecrets(m, c) = Done(Without(m, c.id), c.id \in DOMAIN m)
        /\ SqliteSecrets(s, c) = Done(Without(s, c.id), c.id \in DOMAIN m)
        /\ PostgresSecrets(s, c) = Done(Without(s, c.id), c.id \in DOMAIN m)
    BY <1>1, <1>4 DEF MemorySecrets, SqliteSecrets, PostgresSecrets
  <2> QED BY <2>1, WithoutCoupled
<1> QED BY <1>2, <1>3, <1>4 DEF SecretCallForms

-----------------------------------------------------------------------------
(* Limited listings.  Rows are counted by the keys they are kept under.     *)

LEMMA ImageCardinality ==
  ASSUME NEW P, IsFiniteSet(P), NEW t, \A i, j \in P : t[i] = t[j] => i = j
  PROVE  /\ IsFiniteSet({t[n] : n \in P})
         /\ Cardinality({t[n] : n \in P}) = Cardinality(P)
<1> DEFINE image == {t[n] : n \in P}
           f == [n \in P |-> t[n]]
<1>1. f \in Bijection(P, image)
  BY DEF Bijection, Injection, Surjection, IsInjective
<1>2. ExistsBijection(P, image)
  BY <1>1 DEF ExistsBijection
<1> HIDE DEF image
<1>3. IsFiniteSet(image) /\ Cardinality(image) = Cardinality(P)
  BY <1>2, FS_Bijection
<1> QED BY <1>3 DEF image

(* The positions of an array, each counted by those after it: the last ones *)
(* are as many as the limit says, or all of them.                           *)
LEMMA LastCardinality ==
  ASSUME NEW P \in SUBSET Nat, IsFiniteSet(P), NEW limit \in Nat
  PROVE  /\ IsFiniteSet(Last(P, limit)) /\ Last(P, limit) \subseteq P
         /\ Cardinality(Last(P, limit)) = IF Cardinality(P) < limit THEN Cardinality(P) ELSE limit
         /\ \A i \in Last(P, limit), j \in P \ Last(P, limit) : j < i
<1> DEFINE After(n) == {m \in P : m > n}
           size == Cardinality(P)
           f == [n \in P |-> Cardinality(After(n))]
           L == Last(P, limit)
<1>1. L = {n \in P : Cardinality(After(n)) < limit}
  BY DEF Last
<1>2. size \in Nat
  BY FS_CardinalityType
<1>3. ASSUME NEW n \in P
      PROVE  IsFiniteSet(After(n)) /\ Cardinality(After(n)) \in 0 .. size - 1
  <2>1. After(n) \in SUBSET (P \ {n})
    OBVIOUS
  <2>2. IsFiniteSet(P \ {n}) /\ Cardinality(P \ {n}) = size - 1
    BY FS_RemoveElement
  <2> HIDE DEF After
  <2>3. IsFiniteSet(After(n)) /\ Cardinality(After(n)) =< size - 1
    BY <2>1, <2>2, FS_Subset
  <2> QED BY <1>2, <2>3, FS_CardinalityType
<1>4. ASSUME NEW i \in P, NEW j \in P, i < j
      PROVE  Cardinality(After(j)) < Cardinality(After(i))
  <2>1. After(j) \in SUBSET (After(i) \ {j}) /\ j \in After(i)
    <3>1. i \in Nat /\ j \in Nat /\ j \in After(i)
      BY <1>4
    <3>2. ASSUME NEW n \in After(j)
          PROVE  n \in After(i) /\ n # j
      <4>1. n \in Nat /\ n > j
        OBVIOUS
      <4> QED BY <1>4, <3>1, <4>1
    <3> HIDE DEF After
    <3> QED BY <3>1, <3>2
  <2> HIDE DEF After
  <2>2. IsFiniteSet(After(i) \ {j}) /\ Cardinality(After(i) \ {j}) = Cardinality(After(i)) - 1
    BY <1>3, <2>1, FS_RemoveElement
  <2>3. Cardinality(After(j)) =< Cardinality(After(i)) - 1
    BY <2>1, <2>2, FS_Subset
  <2> QED BY <1>3, <2>3
<1> HIDE DEF After
<1>5. f \in Bijection(P, 0 .. size - 1)
  <2>1. f \in Injection(P, 0 .. size - 1)
    <3>1. f \in [P -> 0 .. size - 1]
      BY <1>3
    <3>2. ASSUME NEW i \in P, NEW j \in P, f[i] = f[j]
          PROVE  i = j
      <4>1. ~ (i < j) /\ ~ (j < i)
        BY <1>3, <1>4, <3>2
      <4> QED BY <4>1
    <3> HIDE DEF f
    <3> QED BY <3>1, <3>2 DEF Injection, IsInjective
  <2>2. IsFiniteSet(0 .. size - 1) /\ Cardinality(0 .. size - 1) = size
    <3>1. 0 \in Int /\ size - 1 \in Int
      BY <1>2
    <3> QED BY <1>2, <3>1, FS_Interval
  <2> HIDE DEF f
  <2>3. f \in Surjection(P, 0 .. size - 1)
    BY <2>1, <2>2, FS_Injection
  <2> QED BY <2>1, <2>3 DEF Bijection
<1>6. /\ \A n \in P : f[n] = Cardinality(After(n))
      /\ \A k \in 0 .. size - 1 : \E n \in P : f[n] = k
  <2>1. f \in Surjection(P, 0 .. size - 1)
    BY <1>5 DEF Bijection
  <2> HIDE DEF f
  <2>2. \A k \in 0 .. size - 1 : \E n \in P : f[n] = k
    BY <2>1 DEF Surjection
  <2> QED BY <2>2 DEF f
<1>7. \A i, j \in P : f[i] = f[j] => i = j
  BY <1>5 DEF Bijection, Injection, IsInjective
<1> HIDE DEF f
<1>8. L \subseteq P /\ IsFiniteSet(L)
  BY <1>1, FS_Subset
<1>9. Cardinality(L) = IF size < limit THEN size ELSE limit
  <2> DEFINE bound == (IF size < limit THEN size ELSE limit) - 1
  <2>1. {f[n] : n \in L} = 0 .. bound
    <3>1. ASSUME NEW n \in L
          PROVE  f[n] \in 0 .. bound
      <4>1. f[n] \in 0 .. size - 1 /\ f[n] < limit
        BY <1>1, <1>3, <1>6
      <4> QED BY <1>2, <4>1
    <3>2. ASSUME NEW k \in 0 .. bound
          PROVE  \E n \in L : f[n] = k
      <4>1. k \in 0 .. size - 1 /\ k < limit
        BY <1>2
      <4>2. PICK n \in P : f[n] = k
        BY <1>6, <4>1
      <4>3. n \in L
        BY <1>1, <1>6, <4>1, <4>2
      <4> QED BY <4>2, <4>3
    <3> HIDE DEF bound, L
    <3> QED BY <3>1, <3>2
  <2>2. Cardinality({f[n] : n \in L}) = Cardinality(L)
    <3>1. \A i, j \in L : f[i] = f[j] => i = j
      BY <1>7, <1>8
    <3> HIDE DEF L
    <3> QED BY <1>8, <3>1, ImageCardinality
  <2>3. Cardinality(0 .. bound) = bound + 1
    <3>1. 0 \in Int /\ bound \in Int /\ bound >= 0 - 1
      BY <1>2
    <3> HIDE DEF bound
    <3> QED BY <3>1, FS_Interval
  <2>4. Cardinality(L) = bound + 1
    <3> HIDE DEF bound, L
    <3> QED BY <2>1, <2>2, <2>3
  <2> QED BY <1>2, <2>4
<1>10. ASSUME NEW i \in L, NEW j \in P \ L
       PROVE  j < i
  <2>1. i \in P /\ Cardinality(After(i)) < limit /\ ~ (Cardinality(After(j)) < limit)
    BY <1>1
  <2>2. i # j /\ ~ (i < j)
    BY <1>3, <1>4, <2>1
  <2> QED BY <2>1, <2>2
<1> QED BY <1>8, <1>9, <1>10

-----------------------------------------------------------------------------
(* The audit log *)

AuditCallForms(c, m, now) ==
  \/ /\ c.op = "append" /\ c.row \in EventRow /\ c.row.at = now
     /\ \A n \in DOMAIN m : m[n].id # c.row.id
  \/ c.op = "list" /\ c.limit \in Nat

LEMMA AuditCallsAreFormed ==
  ASSUME NEW c \in AuditCalls, clock \in Nat
  PROVE  AuditCallForms(c, memory, clock)
<1>1. \/ \E i \in EventIds, p \in ProjectIds :
            /\ \A n \in DOMAIN memory : memory[n].id # i
            /\ c = [op |-> "append", row |-> [id |-> i, project |-> p, at |-> clock]]
      \/ c.op = "list" /\ c.limit \in 1 .. 2
  BY DEF AuditCalls
<1>2. ASSUME NEW i \in EventIds, NEW p \in ProjectIds
      PROVE  [id |-> i, project |-> p, at |-> clock] \in EventRow
  BY DEF EventRow
<1> QED BY <1>1, <1>2 DEF AuditCallForms

MapPage(m, project, limit) == {m[n] : n \in Last({n \in DOMAIN m : m[n].project = project}, limit)}

SqlPages(s, project, limit) == Latest(Payloads(s, {k \in DOMAIN s : s[k].project_id = project}), limit)

(* The Map's array is in the order of time, so its last events are a page   *)
(* that SQL may give, whichever way it breaks ties.                         *)
LEMMA AuditListed ==
  ASSUME NEW m, NEW s, AuditCoupled(m, s), NEW limit \in Nat, NEW project
  PROVE  MapPage(m, project, limit) \in SqlPages(s, project, limit)
<1> DEFINE mine == {n \in DOMAIN m : m[n].project = project}
           rows == Payloads(s, {k \in DOMAIN s : s[k].project_id = project})
           last == Last(mine, limit)
           page == {m[n] : n \in last}
<1>1. /\ m \in Seq(EventRow) /\ DOMAIN s = {m[n].id : n \in DOMAIN m}
      /\ \A i, j \in DOMAIN m : i < j => m[i].at =< m[j].at /\ m[i].id # m[j].id
      /\ \A n \in DOMAIN m : s[m[n].id] = [project_id |-> m[n].project, payload |-> m[n]]
  BY DEF AuditCoupled
<1>2. DOMAIN m = 1 .. Len(m) /\ Len(m) \in Nat /\ \A n \in DOMAIN m : m[n].at \in Nat
  <2>1. \A n \in DOMAIN m : m[n] \in EventRow
    BY <1>1
  <2> QED BY <1>1, <2>1 DEF EventRow
<1>3. IsFiniteSet(mine) /\ mine \in SUBSET Nat /\ mine \subseteq DOMAIN m
  <2>1. 1 \in Int /\ Len(m) \in Int
    BY <1>2
  <2>2. IsFiniteSet(DOMAIN m)
    BY <1>2, <2>1, FS_Interval
  <2>3. mine \in SUBSET (DOMAIN m)
    OBVIOUS
  <2> QED BY <1>2, <2>2, <2>3, FS_Subset
<1>4. ASSUME NEW i \in mine, NEW j \in mine, m[i] = m[j]
      PROVE  i = j
  <2>1. i \in DOMAIN m /\ j \in DOMAIN m /\ i \in Nat /\ j \in Nat
    BY <1>3
  <2>2. ~ (i < j) /\ ~ (j < i)
    BY <1>1, <1>4, <2>1
  <2> QED BY <2>1, <2>2
<1>5. rows = {m[n] : n \in mine}
  <2>1. rows = {s[k].payload : k \in {k \in DOMAIN s : s[k].project_id = project}}
    BY DEF Payloads
  <2>2. ASSUME NEW r \in rows
        PROVE  \E n \in mine : r = m[n]
    <3>1. PICK k \in DOMAIN s : s[k].project_id = project /\ r = s[k].payload
      BY <2>1
    <3>2. PICK n \in DOMAIN m : k = m[n].id
      BY <1>1
    <3>3. s[k] = [project_id |-> m[n].project, payload |-> m[n]]
      BY <1>1, <3>2
    <3>4. n \in mine /\ r = m[n]
      BY <3>1, <3>2, <3>3
    <3> HIDE DEF mine
    <3> QED BY <3>4
  <2>3. ASSUME NEW n \in mine
        PROVE  m[n] \in rows
    <3>1. m[n].id \in DOMAIN s /\ m[n].project = project /\ s[m[n].id] = [project_id |-> m[n].project, payload |-> m[n]]
      BY <1>1
    <3>2. s[m[n].id].project_id = project /\ s[m[n].id].payload = m[n]
      BY <3>1
    <3> HIDE DEF rows
    <3> QED BY <2>1, <3>1, <3>2
  <2> HIDE DEF rows
  <2> QED BY <2>2, <2>3
<1>6. /\ IsFiniteSet(last) /\ last \subseteq mine
      /\ Cardinality(last) = IF Cardinality(mine) < limit THEN Cardinality(mine) ELSE limit
      /\ \A i \in last, j \in mine \ last : j < i
  BY <1>3, LastCardinality
<1> HIDE DEF rows, last
<1>7. Cardinality(rows) = Cardinality(mine)
  BY <1>3, <1>4, <1>5, ImageCardinality
<1>8. Cardinality(page) = Cardinality(last)
  <2>1. \A i, j \in last : m[i] = m[j] => i = j
    BY <1>4, <1>6
  <2> QED BY <1>6, <2>1, ImageCardinality
<1>9. page \in SUBSET rows
  BY <1>5, <1>6
<1>10. ASSUME NEW x \in page, NEW y \in rows \ page
       PROVE  x.at >= y.at
  <2>1. PICK i \in last : x = m[i]
    OBVIOUS
  <2>2. PICK j \in mine : y = m[j]
    BY <1>5
  <2>3. j \notin last
    BY <2>2
  <2>4. j < i /\ i \in DOMAIN m /\ j \in DOMAIN m
    BY <1>3, <1>6, <2>1, <2>3
  <2> QED BY <1>1, <1>2, <2>1, <2>2, <2>4
<1>11. page \in Latest(rows, limit)
  <2> HIDE DEF page
  <2> QED BY <1>6, <1>7, <1>8, <1>9, <1>10 DEF Latest
<1> QED BY <1>11 DEF rows, last, MapPage, SqlPages

LEMMA AuditAgrees ==
  ASSUME NEW now \in Nat, NEW m, NEW s, AuditCoupled(m, s), \A n \in DOMAIN m : m[n].at =< now,
         NEW c, AuditCallForms(c, m, now)
  PROVE  /\ IF c.op = "list" THEN MemoryAudit(m, c).answer \subseteq SqliteAudit(s, c).answer
            ELSE MemoryAudit(m, c).answer = SqliteAudit(s, c).answer
         /\ PostgresAudit(s, c) = SqliteAudit(s, c)
         /\ AuditCoupled(MemoryAudit(m, c).table, SqliteAudit(s, c).table)
         /\ \A n \in DOMAIN MemoryAudit(m, c).table : MemoryAudit(m, c).table[n].at =< now
<1>1. /\ m \in Seq(EventRow) /\ IsTable(s) /\ DOMAIN s = {m[n].id : n \in DOMAIN m}
      /\ \A i, j \in DOMAIN m : i < j => m[i].at =< m[j].at /\ m[i].id # m[j].id
      /\ \A n \in DOMAIN m : s[m[n].id] = [project_id |-> m[n].project, payload |-> m[n]]
  BY DEF AuditCoupled
<1> USE DEF Done
<1>2. CASE /\ c.op = "append" /\ c.row \in EventRow /\ c.row.at = now
           /\ \A n \in DOMAIN m : m[n].id # c.row.id
  <2> DEFINE id == c.row.id
             row == c.row
             cols == [project_id |-> row.project, payload |-> row]
             n == Append(m, row)
             u == Put(s, id, cols)
             last == Len(m) + 1
  <2>1. id \notin DOMAIN s
    BY <1>1, <1>2
  <2>2. /\ MemoryAudit(m, c) = Done(n, Null)
        /\ SqliteAudit(s, c) = Done(u, Null)
        /\ PostgresAudit(s, c) = Done(u, Null)
    BY <1>2, <2>1 DEF MemoryAudit, SqliteAudit, PostgresAudit, Insert
  <2>3. /\ IsTable(u) /\ DOMAIN u = DOMAIN s \cup {id}
        /\ \A x \in DOMAIN s \cup {id} : u[x] = IF x = id THEN cols ELSE s[x]
    BY DEF Put, IsTable
  <2>4. /\ n \in Seq(EventRow) /\ last \in Nat /\ DOMAIN n = 1 .. last /\ DOMAIN m = 1 .. (last - 1)
        /\ n[last] = row /\ \A i \in DOMAIN m : n[i] = m[i]
    BY <1>1, <1>2
  <2>5. DOMAIN n = DOMAIN m \cup {last}
    BY <2>4
  <2> HIDE DEF n, u, last
  <2>6. DOMAIN u = {n[i].id : i \in DOMAIN n}
    BY <1>1, <2>3, <2>4, <2>5
  <2>7. ASSUME NEW i \in DOMAIN n
        PROVE  u[n[i].id] = [project_id |-> n[i].project, payload |-> n[i]] /\ n[i].at =< now
    <3>1. CASE i = last
      BY <1>2, <2>3, <2>4, <3>1
    <3>2. CASE i \in DOMAIN m
      BY <1>1, <1>2, <2>3, <2>4, <3>2
    <3> QED BY <2>5, <3>1, <3>2
  <2>8. ASSUME NEW i \in DOMAIN n, NEW j \in DOMAIN n, i < j
        PROVE  n[i].at =< n[j].at /\ n[i].id # n[j].id
    <3>1. i \in DOMAIN m /\ n[i] = m[i]
      BY <2>4, <2>8
    <3>2. CASE j = last
      BY <1>2, <2>4, <3>1, <3>2
    <3>3. CASE j \in DOMAIN m
      BY <1>1, <2>4, <2>8, <3>1, <3>3
    <3> QED BY <2>5, <3>2, <3>3
  <2>9. AuditCoupled(n, u) /\ \A i \in DOMAIN n : n[i].at =< now
    BY <2>3, <2>4, <2>6, <2>7, <2>8 DEF AuditCoupled
  <2> QED BY <1>2, <2>2, <2>9
<1>3. CASE c.op = "list" /\ c.limit \in Nat
  <2> DEFINE page == MapPage(m, c.project, c.limit)
             pages == SqlPages(s, c.project, c.limit)
  <2>1. /\ MemoryAudit(m, c) = Done(m, {page})
        /\ SqliteAudit(s, c) = Done(s, pages)
        /\ PostgresAudit(s, c) = Done(s, pages)
    BY <1>3 DEF MemoryAudit, SqliteAudit, PostgresAudit, MapPage, SqlPages
  <2>2. page \in pages
    BY <1>3, AuditListed
  <2> HIDE DEF page, pages
  <2> QED BY <1>3, <2>1, <2>2
<1> QED BY <1>2, <1>3 DEF AuditCallForms

-----------------------------------------------------------------------------
(* Datasets *)

DatasetCallForms(c) ==
  \/ /\ c.op = "create" /\ c.id \in DatasetIds /\ c.name \in RowIds
     /\ c.description \in {Undefined, "text"} /\ c.project \in ProjectIds \cup {Undefined}
  \/ /\ c.op = "update" /\ c.name \in {Undefined} \cup RowIds
     /\ c.description \in {Undefined, Null, "text"}
  \/ c.op = "reassign" /\ c.project \in ProjectIds
  \/ c.op \in {"get", "list"}

LEMMA DatasetCallsAreFormed ==
  ASSUME NEW c \in DatasetCalls
  PROVE  DatasetCallForms(c)
BY DEF DatasetCalls, DatasetCallForms

(* A dataset keeps its owner: in SQLite by the test of the old row, in      *)
(* PostgreSQL because DO UPDATE leaves the column.                          *)
LEMMA DatasetsAgree ==
  ASSUME NEW t, Coupled(t, t, DatasetRows), NEW c, DatasetCallForms(c)
  PROVE  /\ PostgresDatasets(t, c) = SqliteDatasets(t, c)
         /\ LET u == SqliteDatasets(t, c).table IN Coupled(u, u, DatasetRows)
<1>1. IsTable(t) /\ \A k \in DOMAIN t : t[k] \in DatasetRow /\ t[k].id = k /\ t[k] # Null
  BY NullIsNoRow DEF Coupled, DatasetRows
<1>2. ASSUME NEW row \in DatasetRow
      PROVE  Coupled(Put(t, row.id, row), Put(t, row.id, row), DatasetRows)
  <2>1. <<row.id, row, row>> \in DatasetRows
    BY DEF DatasetRows
  <2> QED BY <2>1, PutCoupled
<1> USE DEF Done
<1>3. CASE /\ c.op = "create" /\ c.id \in DatasetIds /\ c.name \in RowIds
           /\ c.description \in {Undefined, "text"} /\ c.project \in ProjectIds \cup {Undefined}
  <2> DEFINE old == Find(t, c.id)
             holder == IF old = Null \/ old.project = Null THEN Or(c.project, LegacyProject) ELSE old.project
             row == [id |-> c.id, name |-> c.name, project |-> holder,
                     description |-> Or(c.description, Null)]
             new == [id |-> c.id, name |-> c.name, project |-> Or(c.project, LegacyProject),
                     description |-> Or(c.description, Null)]
             after == Upsert(t, c.id, new, {"name", "description"})
  <2>1. SqliteDatasets(t, c) = Done(Put(t, c.id, row), row) /\ PostgresDatasets(t, c) = Done(after, after[c.id])
    BY <1>3 DEF SqliteDatasets, PostgresDatasets
  <2>2. Or(c.project, LegacyProject) \in ProjectIds \cup {LegacyProject} /\ Or(c.description, Null) \in {Null, "text"}
    BY <1>3 DEF Or
  <2>3. holder = IF c.id \in DOMAIN t THEN t[c.id].project ELSE Or(c.project, LegacyProject)
    <3>1. CASE c.id \in DOMAIN t
      <4>1. old = t[c.id] /\ old # Null /\ old.project # Null
        BY <1>1, <3>1, NullIsNoRow DEF Find, DatasetRow
      <4> QED BY <3>1, <4>1
    <3>2. CASE c.id \notin DOMAIN t
      BY <3>2 DEF Find
    <3> QED BY <3>1, <3>2
  <2>4. holder \in ProjectIds \cup {LegacyProject}
    BY <1>1, <2>2, <2>3 DEF DatasetRow
  <2> HIDE DEF holder
  <2>5. row \in DatasetRow /\ row.id = c.id
    BY <1>3, <2>2, <2>4 DEF DatasetRow
  <2>6. [x \in DOMAIN new |-> IF c.id \in DOMAIN t /\ x \notin {"name", "description"} THEN t[c.id][x] ELSE new[x]] = row
    <3>1. c.id \in DOMAIN t => t[c.id].id = c.id
      BY <1>1
    <3> QED BY <2>3, <3>1
  <2>7. after = Put(t, c.id, row)
    <3> HIDE DEF new, row
    <3> QED BY <2>6 DEF Upsert
  <2>8. Put(t, c.id, row)[c.id] = row
    <3> HIDE DEF row
    <3> QED BY DEF Put
  <2> HIDE DEF row, after
  <2> QED BY <1>2, <2>1, <2>5, <2>7, <2>8
<1>4. CASE /\ c.op = "update" /\ c.name \in {Undefined} \cup RowIds
           /\ c.description \in {Undefined, Null, "text"}
  <2> DEFINE old == Find(t, c.id)
             row == [old EXCEPT !.name = Or(c.name, @), !.description = Or(c.description, @)]
             cols == [name |-> Or(c.name, t[c.id].name), description |-> Or(c.description, t[c.id].description)]
             after == Update(t, c.id, cols)
  <2>1. /\ SqliteDatasets(t, c) = IF old = Null THEN Done(t, Null) ELSE Done(Put(t, c.id, row), row)
        /\ PostgresDatasets(t, c) = IF c.id \in DOMAIN t THEN Done(after, after[c.id]) ELSE Done(t, Null)
    BY <1>4 DEF SqliteDatasets, PostgresDatasets
  <2>2. CASE c.id \in DOMAIN t
    <3>1. old = t[c.id] /\ old # Null /\ old \in DatasetRow /\ old.id = c.id
      BY <1>1, <2>2 DEF Find
    <3>2. Or(c.name, old.name) \in RowIds /\ Or(c.description, old.description) \in {Null, "text"}
      BY <1>4, <3>1 DEF Or, DatasetRow
    <3>3. row \in DatasetRow /\ row.id = c.id
      BY <3>1, <3>2 DEF DatasetRow
    <3>4. With(t[c.id], cols) = row
      <4>1. row = [old EXCEPT !.name = Or(c.name, old.name), !.description = Or(c.description, old.description)]
        OBVIOUS
      <4>2. cols = [name |-> Or(c.name, old.name), description |-> Or(c.description, old.description)]
        BY <3>1
      <4> HIDE DEF row, cols, old
      <4>3. With(old, cols) = row
        <5> DEFINE n == Or(c.name, old.name)
                   d == Or(c.description, old.description)
        <5>1. DOMAIN old = {"id", "name", "project", "description"} /\ old = [x \in DOMAIN old |-> old[x]]
          BY <3>1 DEF DatasetRow
        <5>2. row = [old EXCEPT !.name = n, !.description = d] /\ cols = [name |-> n, description |-> d]
          BY <4>1, <4>2
        <5> HIDE DEF n, d
        <5>3. row = [x \in DOMAIN old |-> IF x = "name" THEN n ELSE IF x = "description" THEN d ELSE old[x]]
          BY <5>1, <5>2
        <5>4. With(old, cols)
                = [x \in DOMAIN old |-> IF x = "name" THEN n ELSE IF x = "description" THEN d ELSE old[x]]
          BY <5>1, <5>2 DEF With
        <5> QED BY <5>3, <5>4
      <4> QED BY <3>1, <4>3
    <3> HIDE DEF cols, row
    <3>5. after = Put(t, c.id, row)
      BY <1>1, <2>2, <3>4, UpdateIsPut
    <3>6. Put(t, c.id, row)[c.id] = row
      BY DEF Put
    <3> HIDE DEF after
    <3> QED BY <1>2, <2>1, <2>2, <3>1, <3>3, <3>5, <3>6
  <2>3. CASE c.id \notin DOMAIN t
    <3>1. old = Null
      BY <2>3 DEF Find
    <3> QED BY <2>1, <2>3, <3>1
  <2> QED BY <2>2, <2>3
<1>5. CASE c.op = "reassign" /\ c.project \in ProjectIds
  <2> DEFINE after == Update(t, c.id, [project |-> c.project])
             row == [t[c.id] EXCEPT !.project = c.project]
             moved == [t EXCEPT ![c.id].project = c.project]
  <2>1. /\ SqliteDatasets(t, c) = IF c.id \notin DOMAIN t THEN Done(t, Null) ELSE Done(moved, row)
        /\ PostgresDatasets(t, c) = Done(after, Find(after, c.id))
    BY <1>5 DEF SqliteDatasets, PostgresDatasets
  <2>2. CASE c.id \in DOMAIN t
    <3>1. t[c.id] \in DatasetRow /\ t[c.id].id = c.id
      BY <1>1, <2>2
    <3>2. row \in DatasetRow /\ row.id = c.id
      BY <1>5, <3>1 DEF DatasetRow
    <3>3. With(t[c.id], [project |-> c.project]) = row
      BY <3>1 DEF With, DatasetRow
    <3>4. moved = [t EXCEPT ![c.id] = row]
      BY <2>2
    <3> HIDE DEF row
    <3>5. after = Put(t, c.id, row)
      BY <1>1, <2>2, <3>3, UpdateIsPut
    <3>6. moved = Put(t, c.id, row)
      BY <1>1, <2>2, <3>4 DEF Put, IsTable
    <3>7. Find(Put(t, c.id, row), c.id) = row
      BY DEF Put, Find
    <3> HIDE DEF after, moved
    <3> QED BY <1>2, <2>1, <2>2, <3>2, <3>5, <3>6, <3>7
  <2>3. CASE c.id \notin DOMAIN t
    <3>1. after = t /\ Find(t, c.id) = Null
      BY <2>3 DEF Update, Find
    <3> QED BY <2>1, <2>3, <3>1
  <2> QED BY <2>2, <2>3
<1>6. CASE c.op \in {"get", "list"}
  <2>1. Selected(t, LAMBDA r : c.project \in {Undefined, r.project})
          = Selected(t, LAMBDA r : c.project = Undefined \/ r.project = c.project)
    BY DEF Selected
  <2>2. CASE c.op = "get"
    BY <2>2 DEF SqliteDatasets, PostgresDatasets
  <2>3. CASE c.op = "list"
    BY <2>1, <2>3 DEF SqliteDatasets, PostgresDatasets, Selected
  <2> QED BY <1>6, <2>2, <2>3
<1> QED BY <1>3, <1>4, <1>5, <1>6 DEF DatasetCallForms

-----------------------------------------------------------------------------
(* Schemas *)

SchemaCallForms(c) ==
  \/ /\ c.op = "upsert" /\ c.key \in {"schema"} \X DatasetIds /\ c.version \in {Undefined, 2}
     /\ c.definition \in RowIds /\ c.now \in 0 .. MaxClock
  \/ c.op \in {"get", "delete", "list"}

LEMMA SchemaCallsAreFormed ==
  ASSUME NEW c \in SchemaCalls, clock \in 0 .. MaxClock
  PROVE  SchemaCallForms(c)
<1> DEFINE known(d) == d = CHOOSE e \in DatasetIds : TRUE
<1> HIDE DEF known
<1>1. \/ \E d \in DatasetIds, v \in {Undefined, 2}, f \in RowIds :
           c = [op |-> "upsert", key |-> <<"schema", d>>, version |-> v, definition |-> f, known |-> known(d), now |-> clock]
      \/ c.op \in {"get", "delete", "list"}
  BY DEF SchemaCalls, known
<1> QED BY <1>1 DEF SchemaCallForms

(* A schema keeps the time it was created at, like the owner of a dataset.  *)
LEMMA SchemasAgree ==
  ASSUME NEW t, Coupled(t, t, SchemaRows), NEW c, SchemaCallForms(c)
  PROVE  /\ PostgresSchemas(t, c) = SqliteSchemas(t, c)
         /\ LET u == SqliteSchemas(t, c).table IN Coupled(u, u, SchemaRows)
<1>1. IsTable(t) /\ \A k \in DOMAIN t : t[k] \in SchemaRow /\ t[k].key = k /\ t[k] # Null
  BY NullIsNoRow DEF Coupled, SchemaRows
<1> USE DEF Done
<1>2. CASE /\ c.op = "upsert" /\ c.key \in {"schema"} \X DatasetIds /\ c.version \in {Undefined, 2}
           /\ c.definition \in RowIds /\ c.now \in 0 .. MaxClock
  <2> DEFINE old == Find(t, c.key)
             created == IF old = Null THEN c.now ELSE old.created
             row == [key |-> c.key, version |-> Or(c.version, 1), definition |-> c.definition,
                     created |-> created, updated |-> c.now]
             new == [key |-> c.key, version |-> Or(c.version, 1), definition |-> c.definition,
                     created |-> c.now, updated |-> c.now]
             after == Upsert(t, c.key, new, {"version", "definition", "updated"})
  <2>1. /\ SqliteSchemas(t, c) = IF c.known THEN Done(Put(t, c.key, row), row) ELSE Done(t, Failed)
        /\ PostgresSchemas(t, c) = IF c.known THEN Done(after, after[c.key]) ELSE Done(t, Failed)
    BY <1>2 DEF SqliteSchemas, PostgresSchemas
  <2>2. created = IF c.key \in DOMAIN t THEN t[c.key].created ELSE c.now
    BY <1>1 DEF Find
  <2>3. created \in 0 .. MaxClock /\ Or(c.version, 1) \in {1, 2}
    BY <1>1, <1>2, <2>2 DEF SchemaRow, Or
  <2> HIDE DEF created
  <2>4. row \in SchemaRow /\ row.key = c.key
    BY <1>2, <2>3 DEF SchemaRow
  <2>5. <<c.key, row, row>> \in SchemaRows
    <3> HIDE DEF row
    <3> QED BY <2>4 DEF SchemaRows
  <2>6. [x \in DOMAIN new |-> IF c.key \in DOMAIN t /\ x \notin {"version", "definition", "updated"}
                              THEN t[c.key][x] ELSE new[x]] = row
    <3>1. c.key \in DOMAIN t => t[c.key].key = c.key
      BY <1>1
    <3> QED BY <2>2, <3>1
  <2>7. after = Put(t, c.key, row)
    <3> HIDE DEF new, row
    <3> QED BY <2>6 DEF Upsert
  <2>8. Put(t, c.key, row)[c.key] = row
    <3> HIDE DEF row
    <3> QED BY DEF Put
  <2> HIDE DEF row, after
  <2> QED BY <2>1, <2>5, <2>7, <2>8, PutCoupled
<1>3. CASE c.op = "get"
  BY <1>3 DEF SqliteSchemas, PostgresSchemas
<1>4. CASE c.op = "list"
  BY <1>4 DEF SqliteSchemas, PostgresSchemas, Selected
<1>5. CASE c.op = "delete"
  <2> DEFINE had == c.key \in DOMAIN t
  <2>1. (\E k \in DOMAIN t : k = c.key) <=> had
    OBVIOUS
  <2>2. SqliteSchemas(t, c) = Done(Without(t, c.key), had)
    BY <1>5 DEF SqliteSchemas
  <2>3. PostgresSchemas(t, c) = Done(Without(t, c.key), \E k \in DOMAIN t : k = c.key)
    BY <1>5 DEF PostgresSchemas
  <2>4. PostgresSchemas(t, c) = Done(Without(t, c.key), had)
    <3>1. CASE had
      <4>1. (\E k \in DOMAIN t : k = c.key) = TRUE /\ had = TRUE
        BY <3>1
      <4> QED BY <2>3, <4>1, Zenon
    <3>2. CASE ~had
      <4>1. (\E k \in DOMAIN t : k = c.key) = FALSE /\ had = FALSE
        BY <3>2
      <4> QED BY <2>3, <4>1, Zenon
    <3> QED BY <3>1, <3>2
  <2> HIDE DEF had
  <2> QED BY <2>2, <2>4, WithoutCoupled
<1> QED BY <1>2, <1>3, <1>4, <1>5 DEF SchemaCallForms

-----------------------------------------------------------------------------
(* Projects *)

Free(t, slug) == \A k \in DOMAIN t : t[k].slug # slug

ProjectCallForms(c, t) ==
  \/ c.op = "insert" /\ c.row \in ProjectRow /\ c.row.id \notin DOMAIN t /\ Free(t, c.row.slug)
  \/ /\ c.op = "update" /\ c.patch \in [slug : DatasetIds \cup {Undefined}, status : {Undefined, "active", "archived"}]
     /\ c.patch.slug = Undefined \/ Free(t, c.patch.slug)
  \/ c.op \in {"get", "slug", "list"}

(* The service writes a slug that its lookup has not found: it is free.     *)
LEMMA ProjectCallsAreFormed ==
  ASSUME NEW c \in ProjectCalls, \A k \in DOMAIN memory : memory[k] \in ProjectRow
  PROVE  ProjectCallForms(c, memory)
<1>1. ASSUME NEW slug \in FreeSlugs
      PROVE  slug \in DatasetIds /\ Free(memory, slug)
  <2>1. slug \in DatasetIds /\ BySlug(memory, slug) = {Null}
    BY DEF FreeSlugs
  <2> DEFINE found == {memory[k] : k \in {k \in DOMAIN memory : memory[k].slug = slug}}
  <2>2. BySlug(memory, slug) = IF found = {} THEN {Null} ELSE found
    BY DEF BySlug, AnyOf, Selected
  <2>3. \A r \in found : r # Null
    BY NullIsNoRow
  <2> HIDE DEF found
  <2>4. found = {}
    BY <2>1, <2>2, <2>3
  <2>5. \A k \in DOMAIN memory : memory[k].slug # slug
    BY <2>4 DEF found
  <2> QED BY <2>1, <2>5 DEF Free
<1> DEFINE row(p, s) == [id |-> p, slug |-> s, status |-> "active"]
<1>2. ASSUME NEW p \in RowIds, NEW s \in FreeSlugs
      PROVE  row(p, s) \in ProjectRow /\ row(p, s).id = p /\ row(p, s).slug = s
  BY <1>1 DEF ProjectRow
<1>3. \/ \E p \in RowIds, s \in FreeSlugs : c \in InsertIfNew(row(p, s), p)
      \/ \E p \in RowIds : \E patch \in [slug : FreeSlugs, status : {Undefined}] :
           c = [op |-> "update", id |-> p, patch |-> patch]
      \/ \E p \in RowIds : \E patch \in [slug : {Undefined}, status : {"active", "archived"}] :
           c = [op |-> "update", id |-> p, patch |-> patch]
      \/ c.op \in {"get", "slug", "list"}
  BY DEF ProjectCalls
<1> HIDE DEF row
<1>4. ASSUME NEW p \in RowIds, NEW s \in FreeSlugs, c \in InsertIfNew(row(p, s), p)
      PROVE  ProjectCallForms(c, memory)
  <2>1. c = [op |-> "insert", row |-> row(p, s)] /\ p \notin DOMAIN memory
    BY <1>4 DEF InsertIfNew
  <2> QED BY <1>1, <1>2, <2>1 DEF ProjectCallForms
<1>5. ASSUME NEW p \in RowIds, NEW patch \in [slug : FreeSlugs, status : {Undefined}],
             c = [op |-> "update", id |-> p, patch |-> patch]
      PROVE  ProjectCallForms(c, memory)
  <2>1. patch.slug \in FreeSlugs /\ patch.slug \in DatasetIds /\ patch.status = Undefined
        /\ patch = [slug |-> patch.slug, status |-> patch.status]
    BY <1>1
  <2>2. patch \in [slug : DatasetIds \cup {Undefined}, status : {Undefined, "active", "archived"}]
    BY <2>1
  <2> QED BY <1>1, <1>5, <2>1, <2>2 DEF ProjectCallForms
<1>6. ASSUME NEW p \in RowIds, NEW patch \in [slug : {Undefined}, status : {"active", "archived"}],
             c = [op |-> "update", id |-> p, patch |-> patch]
      PROVE  ProjectCallForms(c, memory)
  <2>1. patch.slug = Undefined /\ patch \in [slug : DatasetIds \cup {Undefined}, status : {Undefined, "active", "archived"}]
    OBVIOUS
  <2> QED BY <1>6, <2>1 DEF ProjectCallForms
<1> QED BY <1>3, <1>4, <1>5, <1>6 DEF ProjectCallForms

(* undefined in a patch leaves the column.                                  *)
LEMMA PatchedIsWith ==
  ASSUME NEW row, NEW patch, DOMAIN patch \subseteq DOMAIN row,
         NEW set, set = {f \in DOMAIN patch : patch[f] # Undefined}
  PROVE  With(row, Restrict(patch, set)) = Patched(row, patch)
<1>1. Restrict(patch, set) = [f \in set |-> patch[f]] /\ DOMAIN row \cup set = DOMAIN row
  BY DEF Restrict
<1>2. With(row, [f \in set |-> patch[f]]) = [f \in DOMAIN row |-> IF f \in set THEN patch[f] ELSE row[f]]
  BY <1>1 DEF With
<1>3. Patched(row, patch) = [f \in DOMAIN row |-> IF f \in set THEN patch[f] ELSE row[f]]
  BY DEF Patched, Or
<1> QED BY <1>1, <1>2, <1>3

(* No two projects have a slug, so the unique index, which the Map has not, *)
(* refuses nothing.                                                         *)
LEMMA ProjectsAgree ==
  ASSUME NEW t, Coupled(t, t, ProjectRows), SlugsUnique(t), NEW c, ProjectCallForms(c, t)
  PROVE  /\ DrizzleProjects(t, c) = MemoryProjects(t, c)
         /\ LET u == MemoryProjects(t, c).table IN Coupled(u, u, ProjectRows) /\ SlugsUnique(u)
<1>1. IsTable(t) /\ \A k \in DOMAIN t : t[k] \in ProjectRow /\ t[k].id = k
  BY DEF Coupled, ProjectRows
<1>2. ASSUME NEW row \in ProjectRow, ~ SlugTaken(t, row.id, row.slug)
      PROVE  /\ Coupled(Put(t, row.id, row), Put(t, row.id, row), ProjectRows)
             /\ SlugsUnique(Put(t, row.id, row))
  <2> DEFINE u == Put(t, row.id, row)
  <2>1. <<row.id, row, row>> \in ProjectRows
    BY DEF ProjectRows
  <2>2. DOMAIN u = DOMAIN t \cup {row.id} /\ \A x \in DOMAIN u : u[x] = IF x = row.id THEN row ELSE t[x]
    BY DEF Put
  <2> HIDE DEF u
  <2>3. ASSUME NEW k \in DOMAIN u, NEW l \in DOMAIN u, u[k].slug = u[l].slug
        PROVE  k = l
    BY <1>2, <2>2, <2>3 DEF SlugTaken, SlugsUnique
  <2>4. SlugsUnique(u)
    BY <2>3 DEF SlugsUnique
  <2> QED BY <2>1, <2>4, PutCoupled DEF u
<1> USE DEF Done
<1>3. CASE c.op = "insert" /\ c.row \in ProjectRow /\ c.row.id \notin DOMAIN t /\ Free(t, c.row.slug)
  <2>1. ~ SlugTaken(t, c.row.id, c.row.slug)
    BY <1>3 DEF Free, SlugTaken
  <2>2. MemoryProjects(t, c) = Done(Put(t, c.row.id, c.row), c.row)
    BY <1>3 DEF MemoryProjects
  <2>3. DrizzleProjects(t, c) = Done(Put(t, c.row.id, c.row), c.row)
    BY <1>3, <2>1 DEF DrizzleProjects, Insert
  <2> QED BY <1>2, <1>3, <2>1, <2>2, <2>3
<1>4. CASE /\ c.op = "update" /\ c.patch \in [slug : DatasetIds \cup {Undefined}, status : {Undefined, "active", "archived"}]
           /\ c.patch.slug = Undefined \/ Free(t, c.patch.slug)
  <2> DEFINE set == {f \in DOMAIN c.patch : c.patch[f] # Undefined}
             after == Update(t, c.id, Restrict(c.patch, set))
             row == Patched(t[c.id], c.patch)
  <2>1. MemoryProjects(t, c) = IF c.id \notin DOMAIN t THEN Done(t, Null) ELSE Done(Put(t, c.id, row), row)
    BY <1>4 DEF MemoryProjects
  <2>2. DrizzleProjects(t, c) = IF c.id \notin DOMAIN t THEN Done(t, Null)
                                ELSE IF SlugTaken(t, c.id, after[c.id].slug) THEN Done(t, Failed)
                                ELSE Done(after, after[c.id])
    BY <1>4 DEF DrizzleProjects
  <2>3. CASE c.id \notin DOMAIN t
    BY <2>1, <2>2, <2>3
  <2>4. CASE c.id \in DOMAIN t
    <3> DEFINE old == t[c.id]
               patch == c.patch
    <3>1. old \in ProjectRow /\ old.id = c.id
      BY <1>1, <2>4
    <3>2. /\ DOMAIN old = {"id", "slug", "status"} /\ DOMAIN patch = {"slug", "status"}
          /\ patch.slug \in DatasetIds \cup {Undefined} /\ patch.status \in {Undefined, "active", "archived"}
      BY <1>4, <3>1 DEF ProjectRow
    <3>3. With(old, Restrict(patch, set)) = row
      BY <3>2, PatchedIsWith
    <3>4. row = [id |-> c.id, slug |-> Or(patch.slug, old.slug), status |-> Or(patch.status, old.status)]
      BY <3>1, <3>2 DEF Patched
    <3>5. Or(patch.slug, old.slug) \in DatasetIds /\ Or(patch.status, old.status) \in {"active", "archived"}
      BY <3>1, <3>2 DEF Or, ProjectRow
    <3>6. row \in ProjectRow /\ row.id = c.id
      BY <1>1, <3>1, <3>4, <3>5 DEF ProjectRow
    <3>7. ~ SlugTaken(t, c.id, row.slug)
      <4>1. CASE patch.slug = Undefined
        <5>1. row.slug = old.slug
          BY <3>4, <4>1 DEF Or
        <5> HIDE DEF row
        <5> QED BY <2>4, <5>1 DEF SlugTaken, SlugsUnique
      <4>2. CASE patch.slug # Undefined /\ Free(t, patch.slug)
        <5>1. row.slug = patch.slug
          BY <3>4, <4>2 DEF Or
        <5> HIDE DEF row
        <5> QED BY <4>2, <5>1 DEF SlugTaken, Free
      <4> QED BY <1>4, <4>1, <4>2
    <3> HIDE DEF row, set
    <3>8. after = Put(t, c.id, row)
      BY <1>1, <2>4, <3>3, UpdateIsPut
    <3>9. Put(t, c.id, row)[c.id] = row
      BY DEF Put
    <3>10. DrizzleProjects(t, c) = Done(Put(t, c.id, row), row) /\ MemoryProjects(t, c) = Done(Put(t, c.id, row), row)
      <4> HIDE DEF after
      <4> QED BY <2>1, <2>2, <2>4, <3>7, <3>8, <3>9
    <3> QED BY <1>2, <3>6, <3>7, <3>10
  <2> QED BY <2>3, <2>4
<1>5. CASE c.op \in {"get", "slug"}
  BY <1>5 DEF MemoryProjects, DrizzleProjects
<1>6. CASE c.op = "list"
  BY <1>6 DEF MemoryProjects, DrizzleProjects, Selected
<1> QED BY <1>3, <1>4, <1>5, <1>6 DEF ProjectCallForms

-----------------------------------------------------------------------------
(* Reads of entities *)

EntityCallForms(c) ==
  \/ c.op \in {"count", "find", "stats"}
  \/ c.op = "get" /\ c.id \in EventIds \cup {NotUuid}
  \/ c.op = "revision" /\ c.id \in EventIds \cup {NotUuid}
  \/ c.op = "list" /\ c.limit \in Nat
  \/ /\ c.op = "store"
     /\ \E i \in EventIds, v \in Values, schema \in DatasetIds : c.table = Stored(i, schema, v)

LEMMA EntityCallsAreFormed ==
  ASSUME NEW c \in EntityCalls
  PROVE  EntityCallForms(c)
<1>1. CASE \E i \in EventIds, schema \in DatasetIds, v \in Values :
             c = [op |-> "store", table |-> Stored(i, schema, v)]
  BY <1>1 DEF EntityCallForms
<1>2. CASE \E i \in EventIds \cup {NotUuid} : c = [op |-> "get", id |-> i]
  BY <1>2 DEF EntityCallForms
<1>3. CASE \E i \in EventIds \cup {NotUuid}, n \in 1 .. 2 : c = [op |-> "revision", id |-> i, rev |-> n]
  BY <1>3 DEF EntityCallForms
<1>4. CASE c \in [op : {"count", "stats"}, schema : DatasetIds, dataset : {"ds"}]
  BY <1>4 DEF EntityCallForms
<1>5. CASE c \in [op : {"find"}, text : SearchedTexts, schema : DatasetIds, dataset : {"ds"}]
  BY <1>5 DEF EntityCallForms
<1>6. CASE c \in [op : {"list"}, limit : 1 .. 2, offset : {Undefined, 1}, schema : DatasetIds, dataset : {"ds"}]
  BY <1>6 DEF EntityCallForms
<1> QED BY <1>1, <1>2, <1>3, <1>4, <1>5, <1>6 DEF EntityCalls

(* A stored entity has the id it was given, and is a row as any other.      *)
LEMMA StoredIsTable ==
  ASSUME EntityTable(sqlite), clock \in 0 .. MaxClock,
         NEW i \in EventIds, NEW schema \in DatasetIds, NEW v \in Values
  PROVE  EntityTable(Stored(i, schema, v))
<1> DEFINE old == Find(sqlite.rows, i)
           row == IF old = Null
                  THEN [id |-> i, rev |-> 1, version |-> 1, schema |-> schema, dataset |-> "ds",
                        value |-> v, at |-> clock]
                  ELSE [old EXCEPT !.rev = @ + 1, !.version = @ + 1, !.value = v]
<1>1. old # Null => old \in EntityRow
  BY DEF EntityTable, Find
<1>2. row \in EntityRow
  <2>1. CASE old = Null
    BY <2>1 DEF EntityRow
  <2>2. CASE old # Null
    <3>1. old \in EntityRow /\ old.rev + 1 \in Nat /\ old.version + 1 \in Nat
      BY <1>1, <2>2 DEF EntityRow
    <3>2. row = [old EXCEPT !.rev = old.rev + 1, !.version = old.version + 1, !.value = v]
      BY <2>2
    <3> QED BY <3>1, <3>2 DEF EntityRow
  <2> QED BY <2>1, <2>2
<1>3. row.rev \in Nat
  BY <1>2 DEF EntityRow
<1>4. Stored(i, schema, v) = [rows |-> Put(sqlite.rows, i, row),
                              snapshots |-> Put(sqlite.snapshots, <<i, row.rev>>, row)]
  BY DEF Stored
<1> HIDE DEF row, old
<1> QED BY <1>2, <1>3, <1>4 DEF EntityTable, Put

(* A listing without an offset starts at the first row, and every listing   *)
(* has a limit.                                                             *)
LEMMA EntitiesAgree ==
  ASSUME NEW t, NEW c, EntityTable(t), EntityCallForms(c)
  PROVE  /\ c.op \in {"count", "list"} => SqliteEntities(t, c) = PostgresEntities(t, c)
         /\ c.op \in {"get", "revision"} =>
              IF c.id = NotUuid THEN SqliteEntities(t, c) = Null /\ PostgresEntities(t, c) = Failed
              ELSE SqliteEntities(t, c) = PostgresEntities(t, c)
         /\ c.op = "find" =>
              {Unversioned(r) : r \in {r \in SqliteEntities(t, c) : ReadAlike(r)}}
                = {r \in PostgresEntities(t, c) : ReadAlike(r)}
         /\ SqliteStats(t, c) = PostgresStats(t, c)
<1>1. ASSUME NEW n \in Nat
      PROVE  n # Undefined
  BY DatabasesAssumption
<1>2. SqliteStats(t, c) = PostgresStats(t, c)
  <2> DEFINE count == [op |-> "count", schema |-> c.schema, dataset |-> c.dataset,
                       limit |-> SampleSize, offset |-> Undefined]
             list == [op |-> "list", schema |-> c.schema, dataset |-> c.dataset,
                      limit |-> SampleSize, offset |-> Undefined]
             countP == [op |-> "count", schema |-> c.schema, dataset |-> c.dataset,
                        limit |-> SampleSize, offset |-> 0]
             listP == [op |-> "list", schema |-> c.schema, dataset |-> c.dataset,
                       limit |-> SampleSize, offset |-> 0]
  <2>1. SampleSize \in Nat /\ SampleSize # Undefined
    BY <1>1, StorageAssumption
  <2>2. /\ OfSchema(t, countP) = OfSchema(t, count) /\ OfSchema(t, listP) = OfSchema(t, list)
    BY DEF OfSchema, Selected
  <2>3. SqliteEntities(t, count) = PostgresEntities(t, countP)
    BY <2>2 DEF SqliteEntities, PostgresEntities
  <2>4. /\ SqliteEntities(t, list) = Pages(OfSchema(t, list), SampleSize, 0)
        /\ PostgresEntities(t, listP) = Pages(OfSchema(t, list), SampleSize, 0)
    BY <2>1, <2>2 DEF SqliteEntities, PostgresEntities, Or
  <2>5. /\ SqliteStats(t, c) = {SchemaStats(c.schema, SqliteEntities(t, count), sample) : sample \in SqliteEntities(t, list)}
        /\ PostgresStats(t, c) = {SchemaStats(c.schema, PostgresEntities(t, countP), sample) : sample \in PostgresEntities(t, listP)}
    BY DEF SqliteStats, PostgresStats
  <2> HIDE DEF count, list, countP, listP
  <2> QED BY <2>3, <2>4, <2>5
<1>3. CASE c.op = "count"
  BY <1>2, <1>3 DEF SqliteEntities, PostgresEntities
<1>6. CASE c.op = "get" /\ c.id \in EventIds \cup {NotUuid}
  <2>1. SqliteEntities(t, c) = Find(t.rows, c.id)
    BY <1>6 DEF SqliteEntities
  <2>2. PostgresEntities(t, c) = IF c.id = NotUuid THEN Failed ELSE Find(t.rows, c.id)
    BY <1>6 DEF PostgresEntities
  <2>3. Find(t.rows, NotUuid) = Null
    BY DatabasesAssumption DEF EntityTable, Find
  <2> QED BY <1>2, <1>6, <2>1, <2>2, <2>3
<1>7. CASE c.op = "revision" /\ c.id \in EventIds \cup {NotUuid}
  <2>1. SqliteEntities(t, c) = Find(t.snapshots, <<c.id, c.rev>>)
    BY <1>7 DEF SqliteEntities
  <2>2. PostgresEntities(t, c) = IF c.id = NotUuid THEN Failed ELSE Find(t.snapshots, <<c.id, c.rev>>)
    BY <1>7 DEF PostgresEntities
  <2>3. Find(t.snapshots, <<NotUuid, c.rev>>) = Null
    BY DatabasesAssumption DEF EntityTable, Find
  <2> QED BY <1>2, <1>7, <2>1, <2>2, <2>3
<1>4. CASE c.op = "list" /\ c.limit \in Nat
  <2>1. c.limit # Undefined
    BY <1>1, <1>4
  <2>2. /\ SqliteEntities(t, c) = Pages(OfSchema(t, c), c.limit, Or(c.offset, 0))
        /\ PostgresEntities(t, c) = Pages(OfSchema(t, c), c.limit, Or(c.offset, 0))
    BY <1>4, <2>1 DEF SqliteEntities, PostgresEntities, Or
  <2> QED BY <1>2, <1>4, <2>2
<1>5. CASE c.op = "find"
  <2> DEFINE hits == {r \in OfSchema(t, c) : r.value.extracted = c.text}
             texts == {r \in OfSchema(t, c) : r.value.text = c.text}
             found == {Unversioned(r) : r \in texts}
  <2>1. SqliteEntities(t, c) = AnyOf(hits)
    BY <1>5 DEF SqliteEntities
  <2>2. PostgresEntities(t, c) = AnyOf(found)
    BY <1>5 DEF PostgresEntities
  <2>3. \A r \in OfSchema(t, c) : r \in EntityRow
    BY DEF OfSchema, Selected, EntityTable
  <2>4. \A r \in EntityRow : Unversioned(r) \in EntityRow /\ Unversioned(r).value = r.value
    BY DEF Unversioned, EntityRow
  <2>5. \A r \in EntityRow : r # Null
    BY DatabasesAssumption
  <2>6. \A r \in OfSchema(t, c) : ReadAlike(r) <=> ReadAlike(Unversioned(r))
    BY <2>3, <2>4, <2>5 DEF ReadAlike
  <2>7. \A S : {r \in AnyOf(S) : ReadAlike(r)} = {r \in S : ReadAlike(r)}
    BY DEF AnyOf, ReadAlike
  <2>8. \A r : r \in hits /\ ReadAlike(r) <=> r \in texts /\ ReadAlike(r)
    BY DEF ReadAlike
  <2>9. \A r : r \in texts => r \in OfSchema(t, c)
    OBVIOUS
  <2> HIDE DEF hits, texts
  <2>10. {Unversioned(r) : r \in {r \in hits : ReadAlike(r)}} = {r \in found : ReadAlike(r)}
    BY <2>6, <2>8, <2>9
  <2> HIDE DEF found
  <2>11. {r \in SqliteEntities(t, c) : ReadAlike(r)} = {r \in hits : ReadAlike(r)}
    BY <2>1, <2>7
  <2>12. {r \in PostgresEntities(t, c) : ReadAlike(r)} = {r \in found : ReadAlike(r)}
    BY <2>2, <2>7
  <2> QED BY <1>2, <1>5, <2>10, <2>11, <2>12
<1>8. CASE c.op \in {"stats", "store"}
  BY <1>2, <1>8
<1> QED BY <1>3, <1>4, <1>5, <1>6, <1>7, <1>8 DEF EntityCallForms

-----------------------------------------------------------------------------
(* Import runs *)

LEMMA SecondsAreMonotone ==
  ASSUME NEW a \in Nat, NEW b \in Nat, b =< a
  PROVE  b \div Second =< a \div Second
<1> DEFINE q == a \div Second
           r == b \div Second
<1>1. Second \in Nat /\ Second > 0
  BY StorageAssumption
<1>2. q \in Int /\ r \in Int /\ Second * r =< b /\ a < Second * (q + 1)
  BY <1>1
<1> HIDE DEF q, r
<1>3. CASE q + 1 =< r
  <2>1. Second * (q + 1) =< Second * r
    BY <1>1, <1>2, <1>3
  <2> QED BY <1>1, <1>2, <2>1
<1> QED BY <1>2, <1>3 DEF q, r
RunCallForms(c, s) ==
  \/ /\ c.op = "record" /\ c.id \notin DOMAIN s /\ c.run \in RunRow /\ c.run.id = c.id /\ c.now \in 0 .. MaxClock
  \/ c.op = "update" /\ c.patch \in [status : {"completed"}, imported : {1, Undefined}]
  \/ c.op = "list" /\ c.limit \in Nat

LEMMA RunCallsAreFormed ==
  ASSUME NEW c \in RunCalls, clock \in 0 .. MaxClock
  PROVE  RunCallForms(c, sqlite)
<1> DEFINE run(i, d) == [id |-> i, dataset |-> d, status |-> "running", imported |-> 0, errors |-> {}, trigger |-> "manual"]
<1>1. ASSUME NEW i \in EventIds, NEW d \in DatasetIds
      PROVE  run(i, d) \in RunRow /\ run(i, d).id = i
  BY DEF RunRow
<1>2. \/ \E i \in EventIds \ DOMAIN sqlite, d \in DatasetIds :
           c = [op |-> "record", id |-> i, run |-> run(i, d), now |-> clock]
      \/ c.op = "update" /\ c.patch \in [status : {"completed"}, imported : {1, Undefined}]
      \/ c.op = "list" /\ c.limit \in 1 .. 2
  BY DEF RunCalls
<1> HIDE DEF run
<1> QED BY <1>1, <1>2 DEF RunCallForms

OfDataset(t, dataset) == {k \in DOMAIN t : dataset = Undefined \/ t[k].run.dataset = dataset}

(* PostgreSQL knows when in a second a run was recorded: its page is one of *)
(* those SQLite may give.                                                   *)
LEMMA RunsListed ==
  ASSUME NEW s, NEW p, Coupled(s, p, RunRows), IsFiniteSet(DOMAIN s), NEW dataset, NEW limit \in Nat,
         NEW rowsS, rowsS = {s[k] : k \in OfDataset(s, dataset)},
         NEW rowsP, rowsP = {p[k] : k \in OfDataset(p, dataset)}
  PROVE  Listed(Latest(rowsP, limit)) \subseteq Listed(Latest(rowsS, limit))
<1> DEFINE K == OfDataset(s, dataset)
<1>1. /\ DOMAIN p = DOMAIN s
      /\ \A k \in DOMAIN s : /\ p[k].run.id = k /\ s[k].run = p[k].run
                             /\ p[k].at \in Nat /\ s[k].at = p[k].at \div Second
  BY DEF Coupled, RunRows
<1>2. OfDataset(p, dataset) = K /\ K \subseteq DOMAIN s
  BY <1>1 DEF OfDataset
<1> HIDE DEF K
<1>3. \A i, j \in K : (s[i] = s[j] => i = j) /\ (p[i] = p[j] => i = j)
  BY <1>1, <1>2
<1>4. IsFiniteSet(K) /\ rowsS = {s[k] : k \in K} /\ rowsP = {p[k] : k \in K}
  BY <1>2, FS_Subset DEF K
<1>5. Cardinality(rowsS) = Cardinality(K) /\ Cardinality(rowsP) = Cardinality(K)
  <2>1. \A i, j \in K : s[i] = s[j] => i = j
    BY <1>3
  <2>2. \A i, j \in K : p[i] = p[j] => i = j
    BY <1>3
  <2>3. Cardinality({s[k] : k \in K}) = Cardinality(K)
    BY <1>4, <2>1, ImageCardinality
  <2>4. Cardinality({p[k] : k \in K}) = Cardinality(K)
    BY <1>4, <2>2, ImageCardinality
  <2> QED BY <1>4, <2>3, <2>4
<1>6. ASSUME NEW page \in Latest(rowsP, limit)
      PROVE  \E other \in Latest(rowsS, limit) : {r.run : r \in page} = {r.run : r \in other}
  <2> DEFINE J == {k \in K : p[k] \in page}
             other == {s[k] : k \in J}
  <2>1. /\ page \subseteq rowsP
        /\ Cardinality(page) = (IF Cardinality(rowsP) < limit THEN Cardinality(rowsP) ELSE limit)
        /\ \A x \in page, y \in rowsP \ page : x.at >= y.at
    BY DEF Latest
  <2>2. page = {p[k] : k \in J} /\ J \subseteq K /\ IsFiniteSet(J)
    BY <1>4, <2>1, FS_Subset
  <2>3. Cardinality(page) = Cardinality(J) /\ Cardinality(other) = Cardinality(J)
    <3>1. \A i, j \in J : s[i] = s[j] => i = j
      BY <1>3
    <3>2. \A i, j \in J : p[i] = p[j] => i = j
      BY <1>3
    <3> HIDE DEF J
    <3>3. Cardinality({s[k] : k \in J}) = Cardinality(J)
      BY <2>2, <3>1, ImageCardinality
    <3>4. Cardinality({p[k] : k \in J}) = Cardinality(J)
      BY <2>2, <3>2, ImageCardinality
    <3> QED BY <2>2, <3>3, <3>4
  <2>4. other \in SUBSET rowsS
    BY <1>4, <2>2
  <2>5. ASSUME NEW x \in other, NEW y \in rowsS \ other
        PROVE  x.at >= y.at
    <3>1. PICK i \in J : x = s[i]
      OBVIOUS
    <3>2. PICK j \in K : y = s[j]
      BY <1>4
    <3>3. j \notin J
      BY <3>2
    <3>4. p[i] \in page /\ p[j] \in rowsP \ page /\ i \in DOMAIN s /\ j \in DOMAIN s
      BY <1>2, <1>4, <3>3
    <3>5. p[j].at =< p[i].at /\ p[i].at \in Nat /\ p[j].at \in Nat
      BY <1>1, <2>1, <3>4
    <3>6. p[j].at \div Second =< p[i].at \div Second
      BY <3>5, SecondsAreMonotone
    <3>7. x.at = p[i].at \div Second /\ y.at = p[j].at \div Second
      BY <1>1, <3>1, <3>2, <3>4
    <3>8. x.at \in Int /\ y.at \in Int
      BY <3>5, <3>7, StorageAssumption
    <3> QED BY <3>6, <3>7, <3>8
  <2>6. {r.run : r \in page} = {r.run : r \in other}
    <3>1. \A k \in J : s[k].run = p[k].run
      BY <1>1, <1>2
    <3>2. {r.run : r \in page} = {p[k].run : k \in J}
      BY <2>2
    <3> QED BY <3>1, <3>2
  <2>7. other \in Latest(rowsS, limit)
    <3> HIDE DEF other, J
    <3> QED BY <1>5, <2>1, <2>3, <2>4, <2>5 DEF Latest
  <2> HIDE DEF other
  <2> QED BY <2>6, <2>7
<1> DEFINE Runs(page) == {r.run : r \in page}
<1>7. /\ Listed(Latest(rowsS, limit)) = {Runs(page) : page \in Latest(rowsS, limit)}
      /\ Listed(Latest(rowsP, limit)) = {Runs(page) : page \in Latest(rowsP, limit)}
  BY DEF Listed
<1>8. \A page \in Latest(rowsP, limit) : \E other \in Latest(rowsS, limit) : Runs(page) = Runs(other)
  BY <1>6
<1> HIDE DEF Runs
<1> QED BY <1>7, <1>8

-----------------------------------------------------------------------------
LEMMA RunsAgree ==
  ASSUME NEW s, NEW p, Coupled(s, p, RunRows), IsFiniteSet(DOMAIN s), NEW c, RunCallForms(c, s)
  PROVE  /\ IF c.op = "list" THEN PostgresRuns(p, c).answer \subseteq SqliteRuns(s, c).answer
            ELSE SqliteRuns(s, c).answer = PostgresRuns(p, c).answer
         /\ Coupled(SqliteRuns(s, c).table, PostgresRuns(p, c).table, RunRows)
         /\ IsFiniteSet(DOMAIN SqliteRuns(s, c).table)
<1>1. /\ IsTable(s) /\ IsTable(p) /\ DOMAIN p = DOMAIN s
      /\ \A k \in DOMAIN s : /\ p[k] \in [run : RunRow, at : 0 .. MaxClock] /\ p[k].run.id = k
                             /\ s[k] = [run |-> p[k].run, at |-> p[k].at \div Second]
  BY DEF Coupled, RunRows
<1> USE DEF Done
<1>2. CASE /\ c.op = "record" /\ c.id \notin DOMAIN s /\ c.run \in RunRow /\ c.run.id = c.id
           /\ c.now \in 0 .. MaxClock
  <2> DEFINE row == [run |-> c.run, at |-> c.now \div Second]
             new == [run |-> c.run, at |-> c.now]
  <2>1. /\ SqliteRuns(s, c) = Done(Put(s, c.id, row), Null)
        /\ PostgresRuns(p, c) = Done(Put(p, c.id, new), Null)
    BY <1>1, <1>2 DEF SqliteRuns, PostgresRuns, Insert
  <2>2. <<c.id, row, new>> \in RunRows
    <3>1. new \in [run : RunRow, at : 0 .. MaxClock] /\ c.id = new.run.id /\ row = [run |-> new.run, at |-> new.at \div Second]
      BY <1>2
    <3> HIDE DEF row, new
    <3> QED BY <3>1 DEF RunRows
  <2> HIDE DEF row, new
  <2>3. IsFiniteSet(DOMAIN Put(s, c.id, row))
    <3>1. DOMAIN Put(s, c.id, row) = DOMAIN s \cup {c.id}
      BY DEF Put
    <3> QED BY <3>1, FS_AddElement
  <2> QED BY <1>2, <2>1, <2>2, <2>3, PutCoupled
<1>3. CASE c.op = "update" /\ c.patch \in [status : {"completed"}, imported : {1, Undefined}]
  <2> DEFINE patch == Restrict(c.patch, PatchedColumns \cap DOMAIN c.patch)
             patched == IF c.id \in DOMAIN s THEN [s EXCEPT ![c.id].run = Patched(@, patch)] ELSE s
             set == {f \in PatchedColumns \cap DOMAIN c.patch : c.patch[f] # Undefined}
             cols == IF c.id \in DOMAIN p THEN [run |-> With(p[c.id].run, Restrict(c.patch, set))]
                        ELSE [run |-> Null]
             after == Update(p, c.id, cols)
  <2>1. SqliteRuns(s, c) = Done(patched, Null) /\ PostgresRuns(p, c) = Done(after, Null)
    BY <1>3 DEF SqliteRuns, PostgresRuns
  <2>2. CASE c.id \notin DOMAIN s
    <3>1. patched = s /\ after = p
      BY <1>1, <2>2 DEF Update
    <3> QED BY <1>3, <2>1, <3>1
  <2>3. CASE c.id \in DOMAIN s
    <3> DEFINE old == p[c.id]
               run == Patched(old.run, c.patch)
               row == [run |-> run, at |-> old.at \div Second]
               new == [run |-> run, at |-> old.at]
    <3>1. /\ old.run \in RunRow /\ old.at \in 0 .. MaxClock /\ old.run.id = c.id
          /\ old = [run |-> old.run, at |-> old.at]
          /\ s[c.id] = [run |-> old.run, at |-> old.at \div Second]
      BY <1>1, <2>3
    <3>2. /\ DOMAIN c.patch = {"status", "imported"} /\ c.patch.status = "completed"
          /\ c.patch.imported \in {1, Undefined}
          /\ c.patch = [f \in DOMAIN c.patch |-> c.patch[f]]
      BY <1>3
    <3>3. patch = c.patch /\ set = {f \in DOMAIN c.patch : c.patch[f] # Undefined}
      BY <3>2 DEF PatchedColumns, Restrict
    <3>4. DOMAIN old.run = {"id", "dataset", "status", "imported", "errors", "trigger"}
      BY <3>1 DEF RunRow
    <3>5. With(old.run, Restrict(c.patch, set)) = run
      BY <3>2, <3>3, <3>4, PatchedIsWith
    <3>6. run \in RunRow /\ run.id = c.id
      <4>1. run = [id |-> c.id, dataset |-> old.run.dataset, status |-> Or("completed", old.run.status),
                   imported |-> Or(c.patch.imported, old.run.imported), errors |-> old.run.errors,
                   trigger |-> old.run.trigger]
        BY <3>1, <3>2, <3>4 DEF Patched
      <4>2. /\ Or("completed", old.run.status) \in {"running", "completed"}
            /\ Or(c.patch.imported, old.run.imported) \in {0, 1}
        BY <3>1, <3>2 DEF Or, RunRow
      <4> QED BY <3>1, <4>1, <4>2 DEF RunRow
    <3> HIDE DEF run, old
    <3>7. cols = [run |-> run] /\ With(old, [run |-> run]) = new
      <4>1. cols = [run |-> run]
        BY <1>1, <2>3, <3>5 DEF old
      <4> QED BY <3>1, <4>1 DEF With
    <3>8. after = Put(p, c.id, new)
      <4> HIDE DEF new, cols
      <4> QED BY <1>1, <2>3, <3>7, UpdateIsPut DEF old
    <3>9. patched = Put(s, c.id, row)
      <4>1. [s[c.id] EXCEPT !.run = Patched(@, patch)] = row
        BY <3>1, <3>3 DEF run
      <4>2. patched = [s EXCEPT ![c.id] = [s[c.id] EXCEPT !.run = Patched(@, patch)]]
        BY <2>3
      <4>3. patched = [s EXCEPT ![c.id] = row]
        <5> HIDE DEF patched, row, patch
        <5> QED BY <4>1, <4>2
      <4> HIDE DEF patched, row, patch
      <4>4. IsTable(s)
        BY <1>1
      <4> QED BY <2>3, <4>3, <4>4 DEF Put, IsTable
    <3>10. <<c.id, row, new>> \in RunRows
      <4>1. new \in [run : RunRow, at : 0 .. MaxClock] /\ c.id = new.run.id /\ row = [run |-> new.run, at |-> new.at \div Second]
        BY <3>1, <3>6
      <4> HIDE DEF row, new
      <4> QED BY <4>1 DEF RunRows
    <3> HIDE DEF row, new, after, patched
    <3>11. DOMAIN Put(s, c.id, row) = DOMAIN s
      BY <2>3 DEF Put
    <3> QED BY <1>3, <2>1, <3>8, <3>9, <3>10, <3>11, PutCoupled
  <2> QED BY <2>2, <2>3
<1>4. CASE c.op = "list" /\ c.limit \in Nat
  <2> DEFINE rowsS == Selected(s, LAMBDA r : c.dataset \in {Undefined, r.run.dataset})
             rowsP == Selected(p, LAMBDA r : c.dataset = Undefined \/ r.run.dataset = c.dataset)
  <2>1. SqliteRuns(s, c) = Done(s, Listed(Latest(rowsS, c.limit))) /\ PostgresRuns(p, c) = Done(p, Listed(Latest(rowsP, c.limit)))
    BY <1>4 DEF SqliteRuns, PostgresRuns
  <2>2. rowsS = {s[k] : k \in OfDataset(s, c.dataset)} /\ rowsP = {p[k] : k \in OfDataset(p, c.dataset)}
    BY DEF Selected, OfDataset
  <2> HIDE DEF rowsS, rowsP
  <2>3. Listed(Latest(rowsP, c.limit)) \subseteq Listed(Latest(rowsS, c.limit))
    BY <1>4, <2>2, RunsListed
  <2> QED BY <1>4, <2>1, <2>3
<1> QED BY <1>2, <1>3, <1>4 DEF RunCallForms

-----------------------------------------------------------------------------
(* The tables after a call *)

LEMMA SourcesStep ==
  ASSUME DatabasesInv, group = "sources", NEW c \in Calls
  PROVE  AnswersAgree(c) /\ (Call(c) => DatabasesInv')
<1>1. Coupled(memory, sqlite, SourceRows) /\ postgres = sqlite /\ RowCallForms(c, memory)
  <2>1. Calls = RowCalls
    BY DEF Calls
  <2> QED BY <2>1, RowCallsAreFormed DEF DatabasesInv
<1>2. Memory(c) = MemorySources(memory, c) /\ Sqlite(c) = SqliteSources(sqlite, c)
      /\ Postgres(c) = PostgresSources(sqlite, c)
  BY <1>1 DEF Memory, Sqlite, Postgres
<1>3. Memory(c).answer = Sqlite(c).answer /\ Postgres(c) = Sqlite(c)
      /\ Coupled(Memory(c).table, Sqlite(c).table, SourceRows)
  BY <1>1, <1>2, SourcesAgree
<1> QED BY <1>3 DEF AnswersAgree, Call, DatabasesInv

LEMMA ImportsStep ==
  ASSUME DatabasesInv, group = "imports", NEW c \in Calls
  PROVE  AnswersAgree(c) /\ (Call(c) => DatabasesInv')
<1>1. Coupled(memory, sqlite, ImportRows) /\ postgres = sqlite /\ RowCallForms(c, memory)
  <2>1. Calls = RowCalls
    BY DEF Calls
  <2> QED BY <2>1, RowCallsAreFormed DEF DatabasesInv
<1>2. Memory(c) = MemoryImports(memory, c) /\ Sqlite(c) = SqliteImports(sqlite, c)
      /\ Postgres(c) = PostgresImports(sqlite, c)
  BY <1>1 DEF Memory, Sqlite, Postgres
<1>3. Memory(c).answer = Sqlite(c).answer /\ Postgres(c) = Sqlite(c)
      /\ Coupled(Memory(c).table, Sqlite(c).table, ImportRows)
  BY <1>1, <1>2, ImportsAgree
<1> QED BY <1>3 DEF AnswersAgree, Call, DatabasesInv

LEMMA RoutesStep ==
  ASSUME DatabasesInv, group = "routes", NEW c \in Calls
  PROVE  AnswersAgree(c) /\ (Call(c) => DatabasesInv')
<1>1. Coupled(memory, sqlite, RouteRows) /\ postgres = sqlite /\ RouteCallForms(c)
  <2>1. Calls = RouteCalls
    BY DEF Calls
  <2> QED BY <2>1, RouteCallsAreFormed DEF DatabasesInv
<1>2. Memory(c) = MemoryRoutes(memory, c) /\ Sqlite(c) = SqliteRoutes(sqlite, c)
      /\ Postgres(c) = PostgresRoutes(sqlite, c)
  BY <1>1 DEF Memory, Sqlite, Postgres
<1>3. Memory(c).answer = Sqlite(c).answer /\ Postgres(c) = Sqlite(c)
      /\ Coupled(Memory(c).table, Sqlite(c).table, RouteRows)
  BY <1>1, <1>2, RoutesAgree
<1> QED BY <1>3 DEF AnswersAgree, Call, DatabasesInv

LEMMA TokensStep ==
  ASSUME DatabasesInv, group = "tokens", NEW c \in Calls
  PROVE  AnswersAgree(c) /\ (Call(c) => DatabasesInv')
<1>1. Coupled(memory, sqlite, TokenRows) /\ postgres = sqlite /\ TokenCallForms(c, memory)
  <2>1. Calls = TokenCalls
    BY DEF Calls
  <2> QED BY <2>1, TokenCallsAreFormed DEF DatabasesInv
<1>2. Memory(c) = MemoryTokens(memory, c) /\ Sqlite(c) = SqliteTokens(sqlite, c)
      /\ Postgres(c) = PostgresTokens(sqlite, c)
  BY <1>1 DEF Memory, Sqlite, Postgres
<1>3. Memory(c).answer = Sqlite(c).answer /\ Postgres(c) = Sqlite(c)
      /\ Coupled(Memory(c).table, Sqlite(c).table, TokenRows)
  BY <1>1, <1>2, TokensAgree
<1> QED BY <1>3 DEF AnswersAgree, Call, DatabasesInv

LEMMA SecretsStep ==
  ASSUME DatabasesInv, group = "secrets", NEW c \in Calls
  PROVE  AnswersAgree(c) /\ (Call(c) => DatabasesInv')
<1>1. Coupled(memory, sqlite, SecretRows) /\ postgres = sqlite /\ SecretCallForms(c)
  <2>1. Calls = SecretCalls
    BY DEF Calls
  <2> QED BY <2>1, SecretCallsAreFormed DEF DatabasesInv
<1>2. Memory(c) = MemorySecrets(memory, c) /\ Sqlite(c) = SqliteSecrets(sqlite, c)
      /\ Postgres(c) = PostgresSecrets(sqlite, c)
  BY <1>1 DEF Memory, Sqlite, Postgres
<1>3. Memory(c).answer = Sqlite(c).answer /\ Postgres(c) = Sqlite(c)
      /\ Coupled(Memory(c).table, Sqlite(c).table, SecretRows)
  BY <1>1, <1>2, SecretsAgree
<1> QED BY <1>3 DEF AnswersAgree, Call, DatabasesInv

LEMMA AuditStep ==
  ASSUME DatabasesInv, group = "audit", NEW c \in Calls
  PROVE  AnswersAgree(c) /\ (Call(c) => DatabasesInv')
<1>1. /\ AuditCoupled(memory, sqlite) /\ \A n \in DOMAIN memory : memory[n].at =< clock
      /\ postgres = sqlite /\ clock \in Nat /\ AuditCallForms(c, memory, clock)
  <2>1. clock \in Nat
    BY DatabasesAssumption DEF DatabasesInv
  <2>2. Calls = AuditCalls
    BY DEF Calls
  <2> QED BY <2>1, <2>2, AuditCallsAreFormed DEF DatabasesInv
<1>2. Memory(c) = MemoryAudit(memory, c) /\ Sqlite(c) = SqliteAudit(sqlite, c)
      /\ Postgres(c) = PostgresAudit(sqlite, c)
  BY <1>1 DEF Memory, Sqlite, Postgres
<1>3. /\ IF c.op = "list" THEN Memory(c).answer \subseteq Sqlite(c).answer
         ELSE Memory(c).answer = Sqlite(c).answer
      /\ Postgres(c) = Sqlite(c)
      /\ AuditCoupled(Memory(c).table, Sqlite(c).table)
      /\ \A n \in DOMAIN Memory(c).table : Memory(c).table[n].at =< clock
  BY <1>1, <1>2, AuditAgrees
<1>4. AnswersAgree(c)
  BY <1>3 DEF AnswersAgree
<1>5. Call(c) => DatabasesInv'
  BY <1>3 DEF Call, DatabasesInv
<1> QED BY <1>4, <1>5

LEMMA ProjectsStep ==
  ASSUME DatabasesInv, group = "projects", NEW c \in Calls
  PROVE  AnswersAgree(c) /\ (Call(c) => DatabasesInv')
<1>1. /\ Coupled(memory, postgres, ProjectRows) /\ SlugsUnique(memory)
      /\ \A k \in DOMAIN memory : memory[k] \in ProjectRow
  BY DEF DatabasesInv, Coupled, ProjectRows
<1>2. postgres = memory
  BY <1>1 DEF Coupled, ProjectRows, IsTable
<1>3. ProjectCallForms(c, memory)
  <2>1. Calls = ProjectCalls
    BY DEF Calls
  <2> QED BY <1>1, <2>1, ProjectCallsAreFormed
<1>4. Memory(c) = MemoryProjects(memory, c) /\ Postgres(c) = DrizzleProjects(memory, c)
  BY <1>2 DEF Memory, Postgres
<1>5. /\ Postgres(c) = Memory(c)
      /\ Coupled(Memory(c).table, Memory(c).table, ProjectRows) /\ SlugsUnique(Memory(c).table)
  BY <1>1, <1>2, <1>3, <1>4, ProjectsAgree
<1> QED BY <1>5 DEF AnswersAgree, Call, DatabasesInv

LEMMA DatasetsStep ==
  ASSUME DatabasesInv, group = "datasets", NEW c \in Calls
  PROVE  AnswersAgree(c) /\ (Call(c) => DatabasesInv')
<1>1. Coupled(sqlite, sqlite, DatasetRows) /\ postgres = sqlite /\ DatasetCallForms(c)
  <2>1. Calls = DatasetCalls
    BY DEF Calls
  <2> QED BY <2>1, DatasetCallsAreFormed DEF DatabasesInv
<1>2. Sqlite(c) = SqliteDatasets(sqlite, c) /\ Postgres(c) = PostgresDatasets(sqlite, c)
  BY <1>1 DEF Sqlite, Postgres
<1>3. Postgres(c) = Sqlite(c) /\ Coupled(Sqlite(c).table, Sqlite(c).table, DatasetRows)
  BY <1>1, <1>2, DatasetsAgree
<1> QED BY <1>3 DEF AnswersAgree, Call, DatabasesInv

LEMMA SchemasStep ==
  ASSUME DatabasesInv, group = "schemas", NEW c \in Calls
  PROVE  AnswersAgree(c) /\ (Call(c) => DatabasesInv')
<1>1. Coupled(sqlite, sqlite, SchemaRows) /\ postgres = sqlite /\ SchemaCallForms(c)
  <2>1. Calls = SchemaCalls
    BY DEF Calls
  <2> QED BY <2>1, SchemaCallsAreFormed DEF DatabasesInv
<1>2. Sqlite(c) = SqliteSchemas(sqlite, c) /\ Postgres(c) = PostgresSchemas(sqlite, c)
  BY <1>1 DEF Sqlite, Postgres
<1>3. Postgres(c) = Sqlite(c) /\ Coupled(Sqlite(c).table, Sqlite(c).table, SchemaRows)
  BY <1>1, <1>2, SchemasAgree
<1> QED BY <1>3 DEF AnswersAgree, Call, DatabasesInv

LEMMA EntitiesStep ==
  ASSUME DatabasesInv, group = "entities", NEW c \in Calls
  PROVE  AnswersAgree(c) /\ (Call(c) => DatabasesInv')
<1>1. postgres = sqlite /\ EntityTable(sqlite) /\ clock \in 0 .. MaxClock /\ EntityCallForms(c)
  <2>1. Calls = EntityCalls
    BY DEF Calls
  <2> QED BY <2>1, EntityCallsAreFormed DEF DatabasesInv
<1>2. /\ Sqlite(c) = IF c.op = "store" THEN Done(c.table, Null)
                     ELSE Done(sqlite, IF c.op = "stats" THEN SqliteStats(sqlite, c) ELSE SqliteEntities(sqlite, c))
      /\ Postgres(c) = IF c.op = "store" THEN Done(c.table, Null)
                       ELSE Done(sqlite, IF c.op = "stats" THEN PostgresStats(sqlite, c) ELSE PostgresEntities(sqlite, c))
  BY <1>1 DEF Sqlite, Postgres
<1>3. /\ c.op \in {"count", "list"} => SqliteEntities(sqlite, c) = PostgresEntities(sqlite, c)
      /\ c.op \in {"get", "revision"} =>
           IF c.id = NotUuid THEN SqliteEntities(sqlite, c) = Null /\ PostgresEntities(sqlite, c) = Failed
           ELSE SqliteEntities(sqlite, c) = PostgresEntities(sqlite, c)
      /\ c.op = "find" =>
           {Unversioned(r) : r \in {r \in SqliteEntities(sqlite, c) : ReadAlike(r)}}
             = {r \in PostgresEntities(sqlite, c) : ReadAlike(r)}
      /\ SqliteStats(sqlite, c) = PostgresStats(sqlite, c)
  BY <1>1, EntitiesAgree
<1>4. Postgres(c).table = Sqlite(c).table /\ EntityTable(Sqlite(c).table)
  <2>1. CASE c.op = "store"
    <3>1. PICK i \in EventIds, v \in Values, schema \in DatasetIds : c.table = Stored(i, schema, v)
      BY <1>1, <2>1 DEF EntityCallForms
    <3> QED BY <1>1, <1>2, <2>1, <3>1, StoredIsTable DEF Done
  <2>2. CASE c.op # "store"
    BY <1>1, <1>2, <2>2 DEF Done
  <2> QED BY <2>1, <2>2
<1>5. AnswersAgree(c)
  <2>1. CASE c.op \in {"store", "stats"}
    BY <1>2, <1>3, <2>1 DEF AnswersAgree, Done
  <2>2. CASE c.op \in {"count", "list"}
    BY <1>2, <1>3, <2>2 DEF AnswersAgree, Done
  <2>3. CASE c.op \in {"get", "revision"}
    BY <1>2, <1>3, <2>3 DEF AnswersAgree, Done
  <2>4. CASE c.op = "find"
    BY <1>2, <1>3, <2>4 DEF AnswersAgree, Done
  <2> QED BY <1>1, <2>1, <2>2, <2>3, <2>4 DEF EntityCallForms
<1> QED BY <1>4, <1>5 DEF Call, DatabasesInv

LEMMA RunsStep ==
  ASSUME DatabasesInv, group = "runs", NEW c \in Calls
  PROVE  AnswersAgree(c) /\ (Call(c) => DatabasesInv')
<1>1. Coupled(sqlite, postgres, RunRows) /\ IsFiniteSet(DOMAIN sqlite) /\ RunCallForms(c, sqlite)
  <2>1. Calls = RunCalls /\ clock \in 0 .. MaxClock
    BY DEF Calls, DatabasesInv
  <2> QED BY <2>1, RunCallsAreFormed DEF DatabasesInv
<1>2. Sqlite(c) = SqliteRuns(sqlite, c) /\ Postgres(c) = PostgresRuns(postgres, c)
  BY DEF Sqlite, Postgres
<1>3. /\ IF c.op = "list" THEN Postgres(c).answer \subseteq Sqlite(c).answer
         ELSE Sqlite(c).answer = Postgres(c).answer
      /\ Coupled(Sqlite(c).table, Postgres(c).table, RunRows) /\ IsFiniteSet(DOMAIN Sqlite(c).table)
  BY <1>1, <1>2, RunsAgree
<1> QED BY <1>3 DEF AnswersAgree, Call, DatabasesInv

LEMMA CallsAgree ==
  ASSUME DatabasesInv, NEW c \in Calls
  PROVE  AnswersAgree(c) /\ (Call(c) => DatabasesInv')
BY SourcesStep, ImportsStep, RoutesStep, TokensStep, SecretsStep, AuditStep, ProjectsStep,
   DatasetsStep, SchemasStep, EntitiesStep, RunsStep DEF DatabasesInv, Groups

-----------------------------------------------------------------------------
(* A database nobody has called yet has empty tables.                       *)
LEMMA InitDatabasesInv ==
  DatabaseInit => DatabasesInv
<1> SUFFICES ASSUME DatabaseInit PROVE DatabasesInv
  OBVIOUS
<1>1. clock \in 0 .. MaxClock /\ group \in Groups /\ postgres = sqlite
  BY DatabasesAssumption DEF DatabaseInit
<1>2. ASSUME group # "entities"
      PROVE  memory = <<>> /\ sqlite = <<>> /\ postgres = <<>>
  BY <1>2 DEF DatabaseInit, EmptyTable
<1>3. \A rel : Coupled(<<>>, <<>>, rel)
  BY DEF Coupled, IsTable
<1>4. AuditCoupled(<<>>, <<>>) /\ SlugsUnique(<<>>) /\ DOMAIN <<>> = {}
  BY DEF AuditCoupled, SlugsUnique, IsTable
<1>5. group = "entities" => EntityTable(sqlite)
  BY DEF DatabaseInit, EmptyTable, NoRows, EntityTable
<1> QED BY <1>1, <1>2, <1>3, <1>4, <1>5, FS_EmptySet DEF DatabasesInv

LEMMA TickDatabasesInv ==
  ASSUME DatabasesInv, Tick
  PROVE  DatabasesInv'
<1>1. clock' \in 0 .. MaxClock /\ clock =< clock' /\ clock \in Nat /\ clock' \in Nat
  BY DatabasesAssumption DEF DatabasesInv, Tick
<1>2. group = "audit" => \A n \in DOMAIN memory : memory[n].at =< clock'
  <2>1. ASSUME group = "audit", NEW n \in DOMAIN memory
        PROVE  memory[n].at =< clock'
    <3>1. memory \in Seq(EventRow) /\ memory[n].at =< clock
      BY <2>1 DEF DatabasesInv, AuditCoupled
    <3>2. memory[n] \in EventRow
      BY <3>1
    <3> QED BY <1>1, <3>1, <3>2 DEF EventRow
  <2> QED BY <2>1
<1> QED BY <1>1, <1>2 DEF DatabasesInv, Tick

(* The tables of the implementations stay coupled, whatever is called: the  *)
(* lookup columns are those of the payload, ids are those of the keys, and  *)
(* the slugs of projects are unique in the Map too.                         *)
THEOREM DatabasesInvariance == DatabaseSpec => []DatabasesInv
<1>1. DatabasesInv /\ [DatabaseNext]_databaseVars => DatabasesInv'
  <2> SUFFICES ASSUME DatabasesInv, [DatabaseNext]_databaseVars PROVE DatabasesInv'
    OBVIOUS
  <2>1. ASSUME NEW c \in Calls, Call(c)
        PROVE  DatabasesInv'
    BY <2>1, CallsAgree
  <2>2. CASE Tick
    BY <2>2, TickDatabasesInv
  <2>3. CASE UNCHANGED databaseVars
    BY <2>3 DEF databaseVars, DatabasesInv
  <2> QED BY <2>1, <2>2, <2>3 DEF DatabaseNext
<1> QED BY <1>1, InitDatabasesInv, PTL DEF DatabaseSpec

(* Every call is answered alike by the implementations of a table, after any*)
(* calls (BackendsAgree): the lookup columns of SQL, its constraints and    *)
(* its ON CONFLICT clauses never show.                                      *)
THEOREM BackendsAlwaysAgree == DatabaseSpec => []BackendsAgree
<1>1. DatabasesInv => BackendsAgree
  BY CallsAgree DEF BackendsAgree
<1> QED BY <1>1, DatabasesInvariance, PTL

-----------------------------------------------------------------------------
(* Opening a database, for any number of callers, datasets, projects and    *)
(* crashes: what is ready has every column and an owner for every dataset,  *)
(* and an owner is only ever changed by a reassignment.                     *)
(*                                                                          *)
(* The inductive invariant of the opening                                   *)

OwnersOK ==
  /\ owner = [d \in DOMAIN owner |-> owner[d]]
  /\ DOMAIN owner \subseteq Datasets
  /\ \A d \in DOMAIN owner : owner[d] \in Owners

AllOwned == \A d \in DOMAIN owner : Owned(d)

Past(p, labels) == pc[p] \in labels

(* What a caller's init has already done, by the statement it is at.        *)
Performed(p) ==
  /\ Past(p, {"backfill", "trigger", "version", "revision", "default"}) => "project_id" \in columns
  /\ Past(p, {"trigger", "version", "revision", "default"}) => AllOwned
  /\ Past(p, {"version", "revision", "default"}) => "run_trigger" \in columns
  /\ Past(p, {"revision", "default"}) => "schema_version" \in columns
  /\ Past(p, {"default"}) => "entity_revision" \in columns
  /\ Past(p, {"ready", "creating"}) => initialized

(* Ready storage; a database without project_id has no owners, and only     *)
(* SQLite holds the empty text that its backfill replaces.                  *)
Ready == initialized => columns = Columns /\ Default \in DOMAIN owner /\ AllOwned

NoOwnersBefore == "project_id" \notin columns => \A d \in DOMAIN owner : owner[d] = None

EmptyIsSqlites == backend = "postgres" => \A d \in DOMAIN owner : owner[d] # Empty

StartupInv ==
  /\ backend \in {"sqlite", "postgres"}
  /\ columns \subseteq Columns
  /\ initialized \in BOOLEAN
  /\ pc \in [Callers -> Labels]
  /\ OwnersOK
  /\ \A p \in Callers : Performed(p)
  /\ Ready
  /\ NoOwnersBefore
  /\ EmptyIsSqlites

-----------------------------------------------------------------------------
(* What a step may do to the owners                                         *)

Keeps(d) == d \in DOMAIN owner' /\ (Owned(d) => owner'[d] = owner[d])

(* Statements of init and the migration put the fallback project where      *)
(* there is no owner, or add a row.                                         *)
OwnersGrow ==
  /\ OwnersOK'
  /\ \A d \in DOMAIN owner : Keeps(d)
  /\ AllOwned => AllOwned'
  /\ EmptyIsSqlites'

LEMMA SameOwners ==
  ASSUME StartupInv, owner' = owner, backend' = backend
  PROVE  OwnersGrow
BY DEF StartupInv, OwnersGrow, OwnersOK, Keeps, AllOwned, Owned, EmptyIsSqlites

LEMMA BackfillOwns ==
  ASSUME StartupInv, NEW missing, missing \subseteq {None, Empty},
         owner' = Backfilled(missing), backend' = backend
  PROVE  /\ OwnersGrow
         /\ (\A d \in DOMAIN owner : owner[d] \notin Projects => owner[d] \in missing) => AllOwned'
<1> USE StartupAssumption DEF StartupInv
<1>1. owner' = [d \in DOMAIN owner |-> IF owner[d] \in missing THEN Legacy ELSE owner[d]]
  BY DEF Backfilled
<1>2. DOMAIN owner' = DOMAIN owner
  BY <1>1
<1>3. \A d \in DOMAIN owner : owner'[d] = IF owner[d] \in missing THEN Legacy ELSE owner[d]
  BY <1>1
<1>4. OwnersOK'
  BY <1>1, <1>2, <1>3 DEF OwnersOK, Owners
<1>5. \A d \in DOMAIN owner : Keeps(d)
  BY <1>2, <1>3 DEF Keeps, Owned
<1>6. AllOwned => AllOwned'
  BY <1>2, <1>5 DEF AllOwned, Keeps, Owned
<1>7. Legacy # Empty
  OBVIOUS
<1>8. EmptyIsSqlites'
  BY <1>2, <1>3, <1>7 DEF EmptyIsSqlites
<1>9. (\A d \in DOMAIN owner : owner[d] \notin Projects => owner[d] \in missing) => AllOwned'
  BY <1>2, <1>3 DEF AllOwned, Owned
<1> QED BY <1>4, <1>5, <1>6, <1>8, <1>9 DEF OwnersGrow

LEMMA AddedRowIsOwned ==
  ASSUME StartupInv, NEW d \in Datasets, NEW q \in Projects,
         owner' = WithRow(owner, d, q), backend' = backend
  PROVE  OwnersGrow /\ d \in DOMAIN owner'
<1> USE StartupAssumption DEF StartupInv
<1>1. /\ DOMAIN owner' = DOMAIN owner \cup {d}
      /\ owner' = [e \in DOMAIN owner' |-> owner'[e]]
      /\ \A e \in DOMAIN owner : owner'[e] = owner[e]
      /\ \A e \in DOMAIN owner' : e \notin DOMAIN owner => owner'[e] = q
  BY DEF WithRow
<1>2. OwnersOK'
  BY <1>1 DEF OwnersOK, Owners
<1>3. \A e \in DOMAIN owner : Keeps(e)
  BY <1>1 DEF Keeps
<1>4. AllOwned => AllOwned'
  BY <1>1 DEF AllOwned, Owned
<1>5. q # Empty
  OBVIOUS
<1>6. EmptyIsSqlites'
  BY <1>1, <1>5 DEF EmptyIsSqlites
<1> QED BY <1>1, <1>2, <1>3, <1>4, <1>6 DEF OwnersGrow

-----------------------------------------------------------------------------
(* A caller goes on to label, whose facts hold, while columns and owners    *)
(* only grow: the invariant is kept.                                        *)
LEMMA CallerAdvances ==
  ASSUME StartupInv, NEW p \in Callers, NEW label \in Labels, Goto(p, label),
         OwnersGrow, columns \subseteq columns', columns' \subseteq Columns,
         backend' = backend, Performed(p)', NoOwnersBefore',
         \/ initialized' = initialized
         \/ initialized' = TRUE /\ columns' = Columns /\ Default \in DOMAIN owner' /\ AllOwned'
  PROVE  StartupInv'
<1> USE DEF StartupInv
<1>1. pc' \in [Callers -> Labels] /\ \A o \in Callers \ {p} : pc'[o] = pc[o]
  BY DEF Goto
<1>2. \A o \in Callers \ {p} : Performed(o)'
  BY <1>1 DEF Performed, Past, OwnersGrow
<1>3. \A o \in Callers : Performed(o)'
  BY <1>2
<1>4. Ready'
  BY DEF Ready, OwnersGrow, Keeps
<1> QED BY <1>1, <1>3, <1>4 DEF OwnersGrow

LEMMA ColumnNames ==
  /\ Columns = {"project_id", "schema_version", "entity_revision", "run_trigger"}
  /\ NewColumns \subseteq Columns /\ ColumnsOf.entities \subseteq Columns
  /\ IndexFails \/ "project_id" \in columns \cup NewColumns
<1>1. DOMAIN ColumnsOf = Tables
  BY DEF ColumnsOf, Tables
<1>2. /\ ColumnsOf["datasets"] = {"project_id"}
      /\ ColumnsOf["entities"] = {"schema_version", "entity_revision"}
      /\ ColumnsOf["runs"] = {"run_trigger"}
  BY DEF ColumnsOf
<1>3. Range(ColumnsOf) = {{"project_id"}, {"schema_version", "entity_revision"}, {"run_trigger"}}
  BY <1>1, <1>2 DEF Range, Tables
<1>4. Columns = {"project_id", "schema_version", "entity_revision", "run_trigger"}
  BY <1>3 DEF Columns
<1>5. NewColumns \subseteq Columns
  BY <1>1, <1>2, <1>4 DEF NewColumns, Tables
<1>6. IndexFails \/ "project_id" \in columns \cup NewColumns
  BY <1>2 DEF IndexFails, NewColumns, Tables
<1> QED BY <1>2, <1>4, <1>5, <1>6

LEMMA LabelsAreLabels ==
  /\ {"idle", "tables", "project", "backfill", "trigger", "version", "revision",
      "default", "ready", "creating", "rejected"} \subseteq Labels
BY DEF Labels

(* Each step of a caller's init.                                            *)
LEMMA GetStorageStep ==
  ASSUME StartupInv, NEW p \in Callers, GetStorage(p)
  PROVE  StartupInv' /\ OwnersGrow
<1> USE DEF GetStorage, StartupInv
<1>1. OwnersGrow
  BY SameOwners
<1>2. PICK label \in {"ready", "tables"} : Goto(p, label) /\ (label = "ready" => initialized)
  OBVIOUS
<1>3. Performed(p)'
  BY <1>2 DEF Performed, Past, Goto
<1>4. NoOwnersBefore'
  BY DEF NoOwnersBefore
<1>5. columns' = columns /\ backend' = backend /\ initialized' = initialized /\ columns \subseteq Columns
  OBVIOUS
<1> HIDE DEF GetStorage, StartupInv
<1> QED BY <1>1, <1>2, <1>3, <1>4, <1>5, LabelsAreLabels, CallerAdvances

LEMMA CreateTablesStep ==
  ASSUME StartupInv, NEW p \in Callers, SqliteCreateTables(p) \/ PostgresCreateTables(p)
  PROVE  StartupInv' /\ OwnersGrow
<1> USE DEF StartupInv, SqliteCreateTables, PostgresCreateTables, InitVars
<1>1. OwnersGrow
  BY SameOwners
<1>2. PICK label \in {"project", "rejected"} : Goto(p, label)
  OBVIOUS
<1>3. columns' = columns \/ columns' = columns \cup NewColumns \/ columns' = columns \cup ColumnsOf.entities
  OBVIOUS
<1>4. columns \subseteq columns' /\ columns' \subseteq Columns
  BY <1>3, ColumnNames
<1>5. Performed(p)'
  BY <1>2 DEF Performed, Past, Goto
<1>6. NoOwnersBefore'
  BY <1>4 DEF NoOwnersBefore
<1>7. backend' = backend /\ initialized' = initialized
  OBVIOUS
<1> HIDE DEF SqliteCreateTables, PostgresCreateTables, StartupInv
<1> QED BY <1>1, <1>2, <1>4, <1>5, <1>6, <1>7, LabelsAreLabels, CallerAdvances

(* ALTER TABLE ADD COLUMN, DEFAULT the fallback project for project_id.     *)
LEMMA AddColumnStep ==
  ASSUME StartupInv, NEW p \in Callers, NEW column \in Columns, NEW label \in Labels,
         AddColumn(p, column, label),
         pc'[p] = label => Performed(p)'
  PROVE  StartupInv' /\ OwnersGrow
<1> USE DEF StartupInv, AddColumn, InitVars
<1>1. columns \subseteq columns' /\ columns' \subseteq Columns
  OBVIOUS
<1>2. OwnersGrow
  <2>1. CASE owner' = owner
    BY <2>1, SameOwners
  <2>2. CASE owner' # owner
    <3>1. column = "project_id" /\ "project_id" \notin columns
      BY <2>2
    <3>2. \A d \in DOMAIN owner : owner[d] = None
      BY <3>1 DEF NoOwnersBefore
    <3>3. owner' = Backfilled({None})
      BY <2>2, <3>1, <3>2 DEF Backfilled
    <3> QED BY <3>3, BackfillOwns
  <2> QED BY <2>1, <2>2
<1>3. Performed(p)'
  BY DEF Goto
<1>4. NoOwnersBefore'
  BY <1>1 DEF NoOwnersBefore
<1> QED BY <1>1, <1>2, <1>3, <1>4, CallerAdvances

LEMMA SqliteProjectIdStep ==
  ASSUME StartupInv, NEW p \in Callers, SqliteEnsureProjectId(p)
  PROVE  StartupInv' /\ OwnersGrow
<1>1. CASE AddColumn(p, "project_id", "backfill")
  <2>1. pc'[p] = "backfill" => Performed(p)'
    BY <1>1 DEF Performed, Past, AddColumn
  <2> QED BY <1>1, <2>1, ColumnNames, LabelsAreLabels, AddColumnStep
<1>2. CASE backend = "sqlite" /\ MayInit(p, "backfill") /\ owner' = Backfilled({None, Empty})
           /\ Goto(p, "trigger") /\ UNCHANGED <<InitVars, tables, columns>>
  <2> USE <1>2 DEF StartupInv, InitVars
  <2>1. OwnersGrow /\ AllOwned'
    <3>1. \A d \in DOMAIN owner : owner[d] \notin Projects => owner[d] \in {None, Empty}
      BY DEF OwnersOK, Owners
    <3> QED BY <3>1, BackfillOwns
  <2>2. "project_id" \in columns
    BY DEF MayInit, Performed, Past
  <2>3. Performed(p)'
    BY <2>1, <2>2 DEF Performed, Past, Goto
  <2>4. NoOwnersBefore'
    BY <2>2 DEF NoOwnersBefore
  <2> QED BY <2>1, <2>3, <2>4, LabelsAreLabels, CallerAdvances
<1> QED BY <1>1, <1>2 DEF SqliteEnsureProjectId

LEMMA PostgresProjectIdStep ==
  ASSUME StartupInv, NEW p \in Callers, PostgresEnsureProjectId(p)
  PROVE  StartupInv' /\ OwnersGrow
<1> USE DEF StartupInv, PostgresEnsureProjectId, InitVars
<1>1. OwnersGrow /\ AllOwned'
  <2>1. \A d \in DOMAIN owner : owner[d] \notin Projects => owner[d] \in {None}
    BY DEF OwnersOK, Owners, EmptyIsSqlites
  <2> QED BY <2>1, BackfillOwns
<1>2. columns \subseteq columns' /\ columns' \subseteq Columns /\ "project_id" \in columns'
  BY ColumnNames
<1>3. Performed(p)'
  BY <1>1, <1>2 DEF Performed, Past, Goto
<1>4. NoOwnersBefore'
  BY <1>2 DEF NoOwnersBefore
<1> QED BY <1>1, <1>2, <1>3, <1>4, LabelsAreLabels, CallerAdvances

LEMMA RunTriggerStep ==
  ASSUME StartupInv, NEW p \in Callers, EnsureImportRunTrigger(p)
  PROVE  StartupInv' /\ OwnersGrow
<1>1. MayInit(p, "trigger") /\ AddColumn(p, "run_trigger", "version")
  BY DEF EnsureImportRunTrigger
<1>2. AllOwned /\ "project_id" \in columns
  BY <1>1 DEF StartupInv, MayInit, Performed, Past
<1>3. owner' = owner /\ columns' = columns \cup {"run_trigger"}
  BY <1>1 DEF AddColumn
<1>4. pc'[p] = "version" => Performed(p)'
  BY <1>2, <1>3 DEF Performed, Past, AllOwned, Owned
<1> QED BY <1>1, <1>4, ColumnNames, LabelsAreLabels, AddColumnStep

LEMMA SqliteRevisionStep ==
  ASSUME StartupInv, NEW p \in Callers, SqliteEnsureRevisionColumns(p)
  PROVE  StartupInv' /\ OwnersGrow
<1>1. CASE MayInit(p, "version") /\ AddColumn(p, "schema_version", "revision")
  <2>1. AllOwned /\ {"project_id", "run_trigger"} \subseteq columns
    BY <1>1 DEF StartupInv, MayInit, Performed, Past
  <2>2. owner' = owner /\ columns' = columns \cup {"schema_version"}
    BY <1>1 DEF AddColumn
  <2>3. pc'[p] = "revision" => Performed(p)'
    BY <2>1, <2>2 DEF Performed, Past, AllOwned, Owned
  <2> QED BY <1>1, <2>3, ColumnNames, LabelsAreLabels, AddColumnStep
<1>2. CASE MayInit(p, "revision") /\ AddColumn(p, "entity_revision", "default")
  <2>1. AllOwned /\ {"project_id", "run_trigger", "schema_version"} \subseteq columns
    BY <1>2 DEF StartupInv, MayInit, Performed, Past
  <2>2. owner' = owner /\ columns' = columns \cup {"entity_revision"}
    BY <1>2 DEF AddColumn
  <2>3. pc'[p] = "default" => Performed(p)'
    BY <2>1, <2>2 DEF Performed, Past, AllOwned, Owned
  <2> QED BY <1>2, <2>3, ColumnNames, LabelsAreLabels, AddColumnStep
<1> QED BY <1>1, <1>2 DEF SqliteEnsureRevisionColumns

LEMMA PostgresRevisionStep ==
  ASSUME StartupInv, NEW p \in Callers, PostgresEnsureRevisionColumns(p)
  PROVE  StartupInv' /\ OwnersGrow
<1> USE DEF StartupInv, PostgresEnsureRevisionColumns, InitVars
<1>1. OwnersGrow
  BY SameOwners
<1>2. columns \subseteq columns' /\ columns' \subseteq Columns
  BY ColumnNames
<1>3. AllOwned /\ {"project_id", "run_trigger"} \subseteq columns
  BY DEF MayInit, Performed, Past
<1>4. Performed(p)'
  BY <1>1, <1>3 DEF Performed, Past, Goto, OwnersGrow
<1>5. NoOwnersBefore'
  BY <1>2, <1>3 DEF NoOwnersBefore
<1>6. Goto(p, "default") /\ backend' = backend /\ initialized' = initialized
  OBVIOUS
<1> HIDE DEF StartupInv, PostgresEnsureRevisionColumns
<1> QED BY <1>1, <1>2, <1>4, <1>5, <1>6, LabelsAreLabels, CallerAdvances

LEMMA DefaultDatasetStep ==
  ASSUME StartupInv, NEW p \in Callers, InsertDefaultDataset(p)
  PROVE  StartupInv' /\ OwnersGrow
<1> USE DEF StartupInv, InsertDefaultDataset
<1>1. OwnersGrow /\ Default \in DOMAIN owner'
  BY StartupAssumption, AddedRowIsOwned
<1>2. AllOwned /\ columns = Columns
  BY ColumnNames DEF MayInit, Performed, Past
<1>3. AllOwned' /\ columns' = Columns /\ initialized' = TRUE
  BY <1>1, <1>2 DEF OwnersGrow
<1>4. Performed(p)'
  BY <1>3 DEF Performed, Past, Goto
<1>5. NoOwnersBefore'
  BY <1>3, ColumnNames DEF NoOwnersBefore
<1>6. Goto(p, "ready") /\ backend' = backend /\ columns \subseteq columns'
  OBVIOUS
<1> HIDE DEF StartupInv, InsertDefaultDataset
<1> QED BY <1>1, <1>3, <1>4, <1>5, <1>6, LabelsAreLabels, CallerAdvances

LEMMA InitFailsStep ==
  ASSUME StartupInv, NEW p \in Callers, InitFails(p)
  PROVE  StartupInv' /\ OwnersGrow
<1> USE DEF StartupInv, InitFails, InitVars
<1>1. OwnersGrow
  BY SameOwners
<1>2. Performed(p)'
  BY DEF Performed, Past, Goto
<1>3. NoOwnersBefore'
  BY DEF NoOwnersBefore
<1>4. Goto(p, "idle") /\ UNCHANGED <<backend, initialized, columns>> /\ columns \subseteq Columns
  OBVIOUS
<1> HIDE DEF StartupInv, InitFails
<1> QED BY <1>1, <1>2, <1>3, <1>4, LabelsAreLabels, CallerAdvances

-----------------------------------------------------------------------------
(* Datasets of a ready storage.                                             *)
LEMMA CheckDatasetStep ==
  ASSUME StartupInv, NEW p \in Callers, CheckDatasetFree(p)
  PROVE  StartupInv' /\ OwnersGrow
<1> USE DEF StartupInv, CheckDatasetFree
<1>1. OwnersGrow
  BY SameOwners
<1>2. Performed(p)'
  BY DEF Performed, Past, Goto
<1>3. NoOwnersBefore'
  BY DEF NoOwnersBefore
<1>4. Goto(p, "creating") /\ UNCHANGED <<backend, initialized, columns>> /\ columns \subseteq Columns
  OBVIOUS
<1> HIDE DEF StartupInv, CheckDatasetFree
<1> QED BY <1>1, <1>2, <1>3, <1>4, LabelsAreLabels, CallerAdvances

LEMMA CreateDatasetStep ==
  ASSUME StartupInv, NEW p \in Callers, NEW q \in Projects, CreateDataset(p, q)
  PROVE  StartupInv' /\ OwnersGrow
<1> USE DEF StartupInv, CreateDataset
<1>1. OwnersGrow
  <2>1. owner' = WithRow(owner, Wanted[p], q) /\ Wanted[p] \in Datasets
    BY StartupAssumption DEF UpsertOwner
  <2> QED BY <2>1, AddedRowIsOwned
<1>2. Performed(p)'
  BY DEF Performed, Past, Goto
<1>3. columns = Columns
  BY DEF Performed, Past, Ready
<1>4. NoOwnersBefore'
  BY <1>3, ColumnNames DEF NoOwnersBefore
<1>5. Goto(p, "idle") /\ UNCHANGED <<backend, initialized, columns>> /\ columns \subseteq Columns
  OBVIOUS
<1> HIDE DEF StartupInv, CreateDataset
<1> QED BY <1>1, <1>2, <1>4, <1>5, LabelsAreLabels, CallerAdvances

LEMMA ReassignStep ==
  ASSUME StartupInv, NEW d \in Datasets, NEW q \in Projects, ReassignDataset(d, q)
  PROVE  StartupInv'
<1> USE DEF StartupInv, ReassignDataset
<1>1. /\ DOMAIN owner' = DOMAIN owner
      /\ owner' = [e \in DOMAIN owner' |-> owner'[e]]
      /\ \A e \in DOMAIN owner : owner'[e] = IF e = d THEN q ELSE owner[e]
  OBVIOUS
<1>2. OwnersOK'
  BY <1>1 DEF OwnersOK, Owners
<1>3. AllOwned => AllOwned'
  BY <1>1 DEF AllOwned, Owned
<1>4. \A p \in Callers : Performed(p)'
  BY <1>3 DEF Performed, Past
<1>5. columns = Columns /\ Ready'
  BY <1>1, <1>3 DEF Ready
<1>6. NoOwnersBefore'
  BY <1>5, ColumnNames DEF NoOwnersBefore
<1>7. EmptyIsSqlites'
  BY <1>1, StartupAssumption DEF EmptyIsSqlites
<1> QED BY <1>2, <1>4, <1>5, <1>6, <1>7

-----------------------------------------------------------------------------
(* The process and the migrations.                                          *)
LEMMA CrashStep ==
  ASSUME StartupInv, Crash
  PROVE  StartupInv' /\ OwnersGrow
<1> USE DEF StartupInv, Crash
<1>1. OwnersGrow
  BY SameOwners
<1>2. \A p \in Callers : Performed(p)'
  BY DEF Performed, Past
<1>3. pc' \in [Callers -> Labels]
  BY LabelsAreLabels
<1>4. Ready' /\ NoOwnersBefore'
  BY DEF Ready, NoOwnersBefore
<1> QED BY <1>1, <1>2, <1>3, <1>4 DEF OwnersGrow

LEMMA MigrateDatasetsStep ==
  ASSUME StartupInv, MigrateDatasets
  PROVE  StartupInv' /\ OwnersGrow
<1> USE DEF StartupInv, MigrateDatasets
<1>1. OwnersGrow
  BY BackfillOwns
<1>2. columns \subseteq columns' /\ columns' \subseteq Columns /\ "project_id" \in columns'
  BY ColumnNames
<1>3. \A p \in Callers : Performed(p)'
  BY <1>1, <1>2 DEF Performed, Past, OwnersGrow
<1>4. Ready'
  BY <1>1, <1>2 DEF Ready, OwnersGrow, Keeps
<1>5. NoOwnersBefore'
  BY <1>2 DEF NoOwnersBefore
<1> QED BY <1>1, <1>3, <1>2, <1>4, <1>5 DEF OwnersGrow

LEMMA FrameStep ==
  ASSUME StartupInv, UNCHANGED <<backend, columns, owner, initialized, pc>>
  PROVE  StartupInv' /\ OwnersGrow
<1>1. OwnersGrow
  BY SameOwners
<1>2. StartupInv'
  BY DEF StartupInv, OwnersOK, Performed, Past, AllOwned, Owned, Ready, NoOwnersBefore, EmptyIsSqlites
<1> QED BY <1>1, <1>2

LEMMA AnyStep ==
  ASSUME StartupInv, [StartupNext]_startupVars
  PROVE  /\ StartupInv'
         /\ OwnersGrow \/ \E d \in Datasets, q \in Projects : ReassignDataset(d, q)
<1>1. CASE \E p \in Callers : \/ GetStorage(p)
                              \/ SqliteCreateTables(p) \/ PostgresCreateTables(p)
                              \/ SqliteEnsureProjectId(p) \/ PostgresEnsureProjectId(p)
                              \/ EnsureImportRunTrigger(p)
                              \/ SqliteEnsureRevisionColumns(p) \/ PostgresEnsureRevisionColumns(p)
                              \/ InsertDefaultDataset(p)
                              \/ InitFails(p)
                              \/ CheckDatasetFree(p)
                              \/ \E q \in Projects : CreateDataset(p, q)
  BY <1>1, GetStorageStep, CreateTablesStep, SqliteProjectIdStep, PostgresProjectIdStep,
     RunTriggerStep, SqliteRevisionStep, PostgresRevisionStep, DefaultDatasetStep,
     InitFailsStep, CheckDatasetStep, CreateDatasetStep
<1>2. CASE Crash
  BY <1>2, CrashStep
<1>3. CASE MigrateDatasets
  BY <1>3, MigrateDatasetsStep
<1>4. CASE \/ MigrateProjects \/ EnsureLegacyProject
           \/ \E q \in Projects, slug \in Slugs : CreateProject(q, slug) \/ RenameProject(q, slug)
  BY <1>4, FrameStep DEF MigrateProjects, EnsureLegacyProject, CreateProject, RenameProject
<1>5. CASE \E d \in Datasets, q \in Projects : ReassignDataset(d, q)
  BY <1>5, ReassignStep
<1>6. CASE UNCHANGED startupVars
  BY <1>6, FrameStep DEF startupVars
<1> QED BY <1>1, <1>2, <1>3, <1>4, <1>5, <1>6 DEF StartupNext

-----------------------------------------------------------------------------
(* The invariant holds of a new database and of an old one.                 *)
LEMMA InitEstablishes == StartupInit => StartupInv
<1> SUFFICES ASSUME StartupInit PROVE StartupInv
  OBVIOUS
<1> USE DEF StartupInit
<1>1. columns \subseteq Columns
  OBVIOUS
<1>2. PICK rows \in SUBSET Datasets : owner \in [rows -> Owners]
  BY StartupAssumption
<1>3. OwnersOK
  BY <1>2 DEF OwnersOK
<1>4. pc \in [Callers -> Labels] /\ \A p \in Callers : Performed(p)
  BY LabelsAreLabels DEF Performed, Past
<1>5. Ready /\ NoOwnersBefore
  BY DEF Ready, NoOwnersBefore
<1>6. EmptyIsSqlites
  BY DEF EmptyIsSqlites
<1> QED BY <1>1, <1>3, <1>4, <1>5, <1>6 DEF StartupInv

(* Every reachable database satisfies the invariant, so that init repeated, *)
(* interrupted or run by several callers at once never loses what an        *)
(* earlier statement had done.                                              *)
THEOREM StartupInvariance == StartupSpec => []StartupInv
<1>1. StartupInit => StartupInv
  BY InitEstablishes
<1>2. StartupInv /\ [StartupNext]_startupVars => StartupInv'
  BY AnyStep
<1> QED BY <1>1, <1>2, PTL DEF StartupSpec

(* A ready storage (getStorage in storage/index.ts) has all columns and the *)
(* default dataset, every dataset of it has an owner, and no step but a     *)
(* reassignment changes an owner.                                           *)
THEOREM DatasetsAreOwned == StartupSpec => DatasetsOwned
<1> DEFINE ReadyStorage == initialized => /\ columns = Columns
                                          /\ Default \in DOMAIN owner
                                          /\ \A d \in DOMAIN owner : Owned(d)
           Reassigned == \A d \in DOMAIN owner :
             Owned(d) /\ owner'[d] # owner[d] => \E q \in Projects : ReassignDataset(d, q)
<1>1. StartupInv => ReadyStorage
  BY DEF StartupInv, Ready, AllOwned
<1>2. StartupInv /\ [StartupNext]_startupVars => [Reassigned]_startupVars
  <2> SUFFICES ASSUME StartupInv, [StartupNext]_startupVars PROVE Reassigned
    OBVIOUS
  <2>1. CASE OwnersGrow
    BY <2>1 DEF OwnersGrow, Keeps
  <2>2. CASE \E d \in Datasets, q \in Projects : ReassignDataset(d, q)
    <3>1. PICK d \in Datasets, q \in Projects : ReassignDataset(d, q)
      BY <2>2
    <3>2. \A e \in DOMAIN owner : e # d => owner'[e] = owner[e]
      BY <3>1 DEF ReassignDataset
    <3> QED BY <3>1, <3>2
  <2> QED BY <2>1, <2>2, AnyStep
<1> QED BY <1>1, <1>2, StartupInvariance, PTL DEF StartupSpec, DatasetsOwned

-----------------------------------------------------------------------------
(* Types                                                                    *)

(* What StartupTypeOK says beyond StartupInv.                               *)
RestTyped ==
  /\ tables \subseteq Tables
  /\ \E rows \in SUBSET Projects : projects \in [rows -> Slugs]
  /\ migrated \subseteq {"0000", "0001"}
  /\ crashes \in 0 .. MaxCrashes

LEMMA RowTyped ==
  ASSUME \E rows \in SUBSET Projects : projects \in [rows -> Slugs],
         NEW q \in Projects, NEW slug \in Slugs
  PROVE  \E rows \in SUBSET Projects : WithRow(projects, q, slug) \in [rows -> Slugs]
<1>1. PICK rows \in SUBSET Projects : projects \in [rows -> Slugs]
  OBVIOUS
<1>2. WithRow(projects, q, slug) \in [rows \cup {q} -> Slugs]
  BY <1>1 DEF WithRow
<1> QED BY <1>2

LEMMA RestStaysTyped ==
  ASSUME RestTyped, [StartupNext]_startupVars
  PROVE  RestTyped'
<1> USE DEF RestTyped
<1>1. UNCHANGED projects => (\E rows \in SUBSET Projects : projects \in [rows -> Slugs])'
  OBVIOUS
<1>2. ASSUME NEW p \in Callers,
             \/ GetStorage(p)
             \/ SqliteCreateTables(p) \/ PostgresCreateTables(p)
             \/ SqliteEnsureProjectId(p) \/ PostgresEnsureProjectId(p)
             \/ EnsureImportRunTrigger(p)
             \/ SqliteEnsureRevisionColumns(p) \/ PostgresEnsureRevisionColumns(p)
             \/ InsertDefaultDataset(p)
             \/ InitFails(p)
             \/ CheckDatasetFree(p)
             \/ \E q \in Projects : CreateDataset(p, q)
      PROVE  RestTyped'
  <2>1. UNCHANGED <<projects, migrated, crashes>>
    BY <1>2 DEF GetStorage, SqliteCreateTables, PostgresCreateTables, SqliteEnsureProjectId,
      PostgresEnsureProjectId, EnsureImportRunTrigger, SqliteEnsureRevisionColumns,
      PostgresEnsureRevisionColumns, AddColumn, InsertDefaultDataset, InitFails,
      CheckDatasetFree, CreateDataset, InitVars
  <2>2. tables' \in {tables, Tables, tables \cup {"datasets", "entities"}}
    BY <1>2 DEF GetStorage, SqliteCreateTables, PostgresCreateTables, SqliteEnsureProjectId,
      PostgresEnsureProjectId, EnsureImportRunTrigger, SqliteEnsureRevisionColumns,
      PostgresEnsureRevisionColumns, AddColumn, InsertDefaultDataset, InitFails,
      CheckDatasetFree, CreateDataset
  <2> QED BY <2>1, <2>2, <1>1 DEF Tables
<1>3. CASE Crash
  BY <1>1, <1>3, StartupAssumption DEF Crash
<1>4. CASE MigrateProjects
  BY <1>1, <1>4 DEF MigrateProjects
<1>5. CASE MigrateDatasets
  <2>1. projects' = WithRow(projects, Legacy, "legacy")
    BY <1>5 DEF MigrateDatasets
  <2>2. (\E rows \in SUBSET Projects : projects \in [rows -> Slugs])'
    BY <2>1, RowTyped, StartupAssumption DEF Slugs
  <2>3. tables' \subseteq Tables /\ migrated' \subseteq {"0000", "0001"} /\ crashes' = crashes
    BY <1>5 DEF MigrateDatasets, Tables
  <2> QED BY <2>2, <2>3
<1>6. CASE EnsureLegacyProject
  <2>1. (\E rows \in SUBSET Projects : projects \in [rows -> Slugs])'
    BY <1>6, RowTyped, StartupAssumption DEF EnsureLegacyProject, Slugs
  <2> QED BY <1>6, <2>1 DEF EnsureLegacyProject
<1>7. ASSUME NEW q \in Projects, NEW slug \in Slugs, CreateProject(q, slug) \/ RenameProject(q, slug)
      PROVE  RestTyped'
  <2>1. CASE CreateProject(q, slug)
    <3>1. (\E rows \in SUBSET Projects : projects \in [rows -> Slugs])'
      BY <2>1, RowTyped DEF CreateProject
    <3> QED BY <2>1, <3>1 DEF CreateProject
  <2>2. CASE RenameProject(q, slug)
    <3>1. PICK rows \in SUBSET Projects : projects \in [rows -> Slugs]
      OBVIOUS
    <3>2. projects' \in [rows -> Slugs]
      BY <2>2, <3>1 DEF RenameProject
    <3> QED BY <2>2, <3>2 DEF RenameProject
  <2> QED BY <1>7, <2>1, <2>2
<1>8. ASSUME NEW d \in Datasets, NEW q \in Projects, ReassignDataset(d, q)
      PROVE  RestTyped'
  BY <1>1, <1>8 DEF ReassignDataset
<1>9. CASE UNCHANGED startupVars
  BY <1>9 DEF startupVars
<1> QED BY <1>2, <1>3, <1>4, <1>5, <1>6, <1>7, <1>8, <1>9 DEF StartupNext

(* The type invariant of the life of a database.                            *)
THEOREM StartupTypeCorrect == StartupSpec => []StartupTypeOK
<1>1. StartupInit => RestTyped
  <2> SUFFICES ASSUME StartupInit PROVE RestTyped
    OBVIOUS
  <2>1. projects \in [{} -> Slugs]
    BY DEF StartupInit
  <2>2. tables \subseteq Tables /\ migrated = {} /\ crashes \in 0 .. MaxCrashes
    BY StartupAssumption DEF StartupInit
  <2> QED BY <2>1, <2>2 DEF RestTyped
<1>2. RestTyped /\ [StartupNext]_startupVars => RestTyped'
  BY RestStaysTyped
<1>3. StartupInv /\ RestTyped => StartupTypeOK
  <2> SUFFICES ASSUME StartupInv, RestTyped PROVE StartupTypeOK
    OBVIOUS
  <2>1. \E rows \in SUBSET Datasets : owner \in [rows -> Owners]
    BY DEF StartupInv, OwnersOK
  <2> QED BY <2>1 DEF StartupInv, RestTyped, StartupTypeOK
<1> QED BY <1>1, <1>2, <1>3, StartupInvariance, PTL DEF StartupSpec
=============================================================================
