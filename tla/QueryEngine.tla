---------------------------- MODULE QueryEngine ----------------------------
(***************************************************************************)
(* executeQuery of query/executor.ts: a text is parsed, planned            *)
(* (query/planner.ts) and executed by an adapter (storage/plan-executor.ts *)
(* with the scans of storage/sqlite.ts and storage/postgres.ts).  Tables   *)
(* hold the data of a dataset's entities by schema, in insertion order;    *)
(* where the engines leave the order of equal rows open, they keep it.     *)
(* A set of rows to keep, or an order, is one of positions.                *)
(***************************************************************************)
EXTENDS QueryLanguage, FiniteSets

CONSTANTS Engines, \* the adapters, of {"sqlite", "postgres"}
          Tables,  \* schema name -> sequence of entity data
          Texts,   \* the texts clients send
          Clauses, \* the where clauses they contain, with their parts
          Depth(_) \* how deep a clause nests

ASSUME EngineAssumption == Engines \subseteq {"sqlite", "postgres"}

(* Rows are flat: scalars under one-part names.                            *)
ASSUME TableAssumption ==
  \A s \in DOMAIN Tables :
    /\ Tables[s] \in Seq({Tables[s][i] : i \in DOMAIN Tables[s]})
    /\ \A i \in DOMAIN Tables[s] : \A f \in DOMAIN Tables[s][i] :
         /\ f = <<f[1]>> /\ Tables[s][i][f] \in ScalarValue
         /\ \A e \in Engines : Within(e, Tables[s][i][f]) \in Int

(* WhereExpr of query/ast.ts, as the parser builds it: no operand is       *)
(* missing.                                                                *)
ASSUME ClauseAssumption ==
  \A e \in Clauses :
    /\ Depth(e) \in Nat
    /\ e.type \in {"and", "or", "not"} => Children(e) # {}
    /\ \A x \in Children(e) : x \in Clauses /\ x.type # "none" /\ Depth(x) < Depth(e)

VARIABLES engine, \* the adapter of the running process
          text,   \* the last text executed
          parsed, \* its parse
          answer  \* its QueryResult

vars == <<engine, text, parsed, answer>>

-----------------------------------------------------------------------------
(* The where clause, in memory and in SQL.                                 *)

Conditions(e) ==
  LET conditions[x \in Clauses] ==
        IF x.type = "condition" THEN {x} ELSE UNION {conditions[y] : y \in Children(x)}
  IN  conditions[e]

EvaluateWhere(e, data) ==
  LET holds[x \in Clauses] ==
        \/ x.type = "none"
        \/ x.type = "condition" /\ EvaluateCondition(x, data)
        \/ x.type = "and" /\ \A y \in Children(x) : holds[y]
        \/ x.type = "or" /\ \E y \in Children(x) : holds[y]
        \/ x.type = "not" /\ ~holds[x.expr]
  IN  holds[e]

CanPushdownWhere(e) ==
  LET can[x \in Clauses] ==
        \/ x.type = "none"
        \/ x.type = "condition" /\ x.op # "exists"
        \/ x.type \in {"and", "or"} /\ \A y \in Children(x) : can[y]
  IN  can[e]

(* whereExprToSqlClauses.  exists and not compile to no clause, and an or  *)
(* leaves such children out.                                               *)
Compiles(e) ==
  LET compiles[x \in Clauses] ==
        \/ x.type = "condition" /\ x.op # "exists"
        \/ x.type \in {"and", "or"} /\ \E y \in Children(x) : compiles[y]
  IN  compiles[e]

SqlConditions(e) ==
  LET compiled[x \in Clauses] ==
        IF x.type = "not" \/ (x.type = "condition" /\ x.op = "exists") THEN {}
        ELSE IF x.type = "condition" THEN {x}
        ELSE UNION {compiled[y] : y \in Children(x)}
  IN  compiled[e]

(* Whether a row satisfies every clause compiled, in a statement of engine *)
(* g that is a scan or a count.                                            *)
SqlWhere(g, statement, e, data) ==
  LET selects[x \in Clauses] ==
        \/ ~Compiles(x)
        \/ x.type = "condition" /\ SqlCondition(g, statement, x, data)
        \/ x.type = "and" /\ \A y \in Children(x) : selects[y]
        \/ x.type = "or" /\ \E y \in Children(x) : Compiles(y) /\ selects[y]
  IN  selects[e]

-----------------------------------------------------------------------------
(* Scans: filter, order and page in SQL, then the filter again in memory.  *)

Rows(schema) == IF schema \in DOMAIN Tables THEN Tables[schema] ELSE <<>>

(* The rows at the positions I, in the order of the relation.              *)
Arranged(rows, I, order) ==
  LET place(i) == Cardinality({j \in I : <<j, i>> \in order})
  IN  [k \in 1..Cardinality(I) |-> rows[CHOOSE i \in I : place(i) = k]]

Kept(rows, I) == Arranged(rows, I, {p \in I \X I : p[1] <= p[2]})

(* A stable sort: a row goes behind those it does not precede.             *)
Sorted(rows, before) ==
  LET I == DOMAIN rows
  IN  Arranged(rows, I, {p \in I \X I : p \in before \/ (p[1] <= p[2] /\ <<p[2], p[1]>> \notin before)})

(* The positions of which ORDER BY puts the first before the second.       *)
SqlBefore(e, orderBy, rows) ==
  LET at(i) == Field(rows[i], SqlName(e, "scan", orderBy.field))
      less(i, j) == Precedes(e, at(i), at(j))
  IN  {p \in (DOMAIN rows) \X (DOMAIN rows) :
         /\ orderBy # NoOrder
         /\ IF orderBy.direction = "asc" THEN less(p[1], p[2]) ELSE less(p[2], p[1])}

Page(rows, offset, limit) ==
  LET first == IF offset = Unset THEN 1 ELSE offset + 1
      last  == IF limit = Unset THEN Len(rows) ELSE first + limit - 1
  IN  SubSeq(rows, first, IF last < Len(rows) THEN last ELSE Len(rows))

Project(data, select) ==
  IF select = <<>> THEN data
  ELSE [f \in DOMAIN data \cap {select[i] : i \in DOMAIN select} |-> data[f]]

Projected(rows, select) == [i \in DOMAIN rows |-> Project(rows[i], select)]

(* OFFSET without LIMIT is a syntax error in SQLite.                       *)
StatementFails(e, step) ==
  \/ e = "sqlite" /\ step.offset # Unset /\ step.limit = Unset
  \/ \E c \in SqlConditions(step.where) : NotSql(c)

(* Whether a cast of the statement meets a text that is no number.         *)
MayRaise(e, statement, step) ==
  \E c \in SqlConditions(step.where), i \in DOMAIN Rows(step.from) :
    CastRaises(e, statement, c, Rows(step.from)[i])

SqlPage(e, step, found) == Page(Sorted(found, SqlBefore(e, step.orderBy, found)), step.offset, step.limit)

SqlMatches(e, statement, q) ==
  {i \in DOMAIN Rows(q.from) : SqlWhere(e, statement, q.where, Rows(q.from)[i])}

SqlScan(e, step) == SqlPage(e, step, Kept(Rows(step.from), SqlMatches(e, "scan", step)))

PostFilter(where, rows) == Kept(rows, {i \in DOMAIN rows : EvaluateWhere(where, rows[i])})

ScanStepSqlOnly(e, step) == Projected(SqlScan(e, step), step.select)
ScanStep(e, step) == Projected(PostFilter(step.where, SqlScan(e, step)), step.select)

(* COUNT in SQL where the whole clause compiles, else a scan.              *)
CountStatement(step) == IF CanPushdownWhere(step.where) THEN "count" ELSE "scan"
CountInSql(e, step) == Cardinality(SqlMatches(e, "count", step))
CountMatching(e, step) ==
  IF CanPushdownWhere(step.where) THEN Cardinality(SqlMatches(e, "count", step))
  ELSE Len(ScanStep(e, step))

-----------------------------------------------------------------------------
(* Joins: both sides scanned, the right one hashed by its join field.      *)

JoinKey(data, f) == JsText(Field(data, f))

MergedData(l, r, alias) ==
  LET theirs == {alias \o f : f \in DOMAIN r}
  IN  [f \in DOMAIN l \cup theirs |->
         IF f \in theirs THEN r[SubSeq(f, Len(alias) + 1, Len(f))] ELSE l[f]]

ResolveNothing(j, f) == f
ResolveField(j, f) == IF Len(f) > 1 /\ <<f[1]>> = j.left.alias THEN Tail(f) ELSE f

(* remapWhere: a clause whose conditions name resolved fields holds of data *)
(* where the clause itself holds of the data under the names it gives.     *)
Resolved(j, fields, data) ==
  [f \in {g \in fields : ResolveField(j, g) \in DOMAIN data} |-> data[ResolveField(j, f)]]

(* sortEntities: values that are absent or null go last in both directions.*)
(* Where a number meets a text its comparison is no order, and what sort    *)
(* makes of it is left to the language: here the values alone decide.      *)
JsBefore(orderBy, rows) ==
  LET at(i) == Field(rows[i], orderBy.field)
  IN  {p \in (DOMAIN rows) \X (DOMAIN rows) :
         /\ orderBy # NoOrder
         /\ Populated(at(p[1]))
         /\ Populated(at(p[2])) => IF orderBy.direction = "asc" THEN at(p[1]).v < at(p[2]).v
                                   ELSE at(p[2]).v < at(p[1]).v}

(* Of the right rows with one key the last one is in the index.            *)
HashJoin(j, left, right) ==
  LET match(l) == {k \in DOMAIN right : JoinKey(right[k], j.right.field) = JoinKey(l, j.left.field)}
      last(l)  == right[CHOOSE k \in match(l) : \A m \in match(l) : m <= k]
      matched  == Kept(left, {i \in DOMAIN left : match(left[i]) # {}})
  IN  [i \in DOMAIN matched |-> MergedData(matched[i], last(matched[i]), j.right.alias)]

(* The left scan keeps the query's select, order, limit and offset, and    *)
(* all four are applied again to the joined rows.                          *)
Joined(e, q) ==
  HashJoin(q.join, ScanStep(e, [q EXCEPT !.where = NoWhere]), ScanStep(e, Query("scan", q.join.schema)))

JoinFilter(q, rows) ==
  LET fields == {c.field : c \in Conditions(q.where)}
  IN  Kept(rows, {i \in DOMAIN rows : EvaluateWhere(q.where, Resolved(q.join, fields, rows[i]))})

JsPage(q, rows) == Page(Sorted(rows, JsBefore(q.orderBy, rows)), q.offset, q.limit)

ExecuteJoin(e, q) == JsPage(q, Projected(JoinFilter(q, Joined(e, q)), q.select))

-----------------------------------------------------------------------------
Refused == [ok |-> FALSE, rows |-> <<>>, count |-> 0]

Listed(rows) == [ok |-> TRUE, rows |-> rows, count |-> Len(rows)]

(* planQuery and executePlan for a parsed query.                           *)
CountStep(q) == [Query("scan", q.from) EXCEPT !.where = q.where]

LeftStep(q) == IF q.join = NoJoin THEN q ELSE [q EXCEPT !.where = NoWhere]

ExecutePlan(e, q) ==
  IF StatementFails(e, LeftStep(q)) THEN Refused
  ELSE IF q.kind = "aggregate" THEN [ok |-> TRUE, rows |-> <<>>, count |-> CountMatching(e, CountStep(q))]
  ELSE IF q.join = NoJoin THEN Listed(ScanStep(e, q))
  ELSE Listed(ExecuteJoin(e, q))

(* PostgreSQL evaluates the operands of a clause in any order, so a cast   *)
(* that can raise need not.                                                *)
PossibleAnswers(e, q) ==
  LET statement == IF q.kind = "aggregate" THEN CountStatement(q) ELSE "scan"
  IN  {ExecutePlan(e, q)} \cup {a \in {Refused} : MayRaise(e, statement, LeftStep(q))}

Init == /\ engine \in Engines
        /\ text = <<>>
        /\ parsed = Fail
        /\ answer = Refused

(* Queries change nothing, so one query is a whole behaviour.              *)
ExecuteQuery(t) ==
  /\ text = <<>>
  /\ text' = t
  /\ parsed' = ParseQuery(t)
  /\ answer' \in IF parsed'.at = 0 THEN {Refused} ELSE PossibleAnswers(engine, parsed'.node)
  /\ UNCHANGED engine

Next == \E t \in Texts : ExecuteQuery(t)

Spec == Init /\ [][Next]_vars

(* What the parser answers; parseQualifiedField keeps no dot in an alias.   *)
IsName(f) == Name(f) \in Lexeme /\ Token(Name(f)).kind = "ident"

IsQualified(f) == f \in [alias : Seq(Parts), field : Seq(Parts) \ {<<>>}] /\ Len(f.alias) = 1

IsQuery(q) ==
  /\ q = [Query(q.kind, q.from) EXCEPT !.join = q.join, !.select = q.select, !.where = q.where,
                                      !.orderBy = q.orderBy, !.limit = q.limit, !.offset = q.offset]
  /\ q.kind \in {"select", "aggregate"} /\ IsName(q.from)
  /\ q.kind = "aggregate" => q = [Query(q.kind, q.from) EXCEPT !.where = q.where]
  /\ \/ q.join = NoJoin
     \/ /\ q.join = [schema |-> q.join.schema, left |-> q.join.left, right |-> q.join.right]
        /\ IsName(q.join.schema) /\ IsQualified(q.join.left) /\ IsQualified(q.join.right)
  /\ q.select = [i \in 1..Len(q.select) |-> q.select[i]] /\ Len(q.select) \in Nat
  /\ \A i \in DOMAIN q.select : IsName(q.select[i])
  /\ \/ q.orderBy = NoOrder
     \/ /\ q.orderBy = [field |-> q.orderBy.field, direction |-> q.orderBy.direction]
        /\ IsName(q.orderBy.field) /\ q.orderBy.direction \in {"asc", "desc"}
  /\ {q.limit, q.offset} \subseteq Nat \cup {Unset}

(* Limits and offsets are whole numbers.                                   *)
IsText(t) ==
  /\ t \in Seq(Lexeme)
  /\ \A i \in 1..Len(t) - 1 :
       t[i] \in {Word("limit"), Word("offset")} => t[i + 1].lex # "digits" \/ t[i + 1].text \in Nat

ASSUME TextAssumption ==
  /\ NoWhere \in Clauses
  /\ \A t \in Texts : IsText(t) /\ (ParseQuery(t).at = 0 \/ ParseQuery(t).node.where \in Clauses)

-----------------------------------------------------------------------------
(* What the answers must be.                                               *)

Asked == parsed.node
Answered == answer.ok

AllPlain(q) == \A c \in Conditions(q.where), i \in DOMAIN Rows(q.from) : Plain(c, Rows(q.from)[i])

Typed(statement, q) ==
  \A c \in Conditions(q.where), i \in DOMAIN Rows(q.from) :
    c.op = "exists" \/ Fits(engine, statement, c, Rows(q.from)[i])

Matches(q) == {i \in DOMAIN Rows(q.from) : EvaluateWhere(q.where, Rows(q.from)[i])}

(* SQL selects every row of such a clause: no or loses an alternative.     *)
KeepsAlternatives(e) ==
  LET keeps[x \in Clauses] ==
        \/ x.type \in {"none", "condition", "not"}
        \/ x.type = "and" /\ \A y \in Children(x) : keeps[y]
        \/ x.type = "or" /\ \A y \in Children(x) : Compiles(y) /\ keeps[y]
  IN  keeps[e]

(* A scan lists no row its where clause rejects.  Where the clause is      *)
(* plain and compiles to SQL whole, or loses no alternative and the scan   *)
(* is not paged, it lists exactly the page of the matching rows (scanStep  *)
(* filters in SQL, pages in SQL, and filters again in memory).             *)
ListsWhatMatches ==
  Answered /\ Asked.kind = "select" /\ Asked.join = NoJoin =>
    LET q     == Asked
        whole == CanPushdownWhere(q.where) \/ (KeepsAlternatives(q.where) /\ q.limit = Unset /\ q.offset = Unset)
    IN  /\ \A i \in DOMAIN answer.rows : \E k \in Matches(q) :
             answer.rows[i] = Project(Rows(q.from)[k], q.select)
        /\ whole /\ Typed("scan", q) /\ AllPlain(q)
             => answer.rows = Projected(SqlPage(engine, q, Kept(Rows(q.from), Matches(q))), q.select)

(* COUNT answers the number of rows the same where clause lists, although  *)
(* one counts in SQL and the other filters twice.                          *)
CountIsListed ==
  Answered /\ Asked.kind = "aggregate" /\ Typed("count", Asked) =>
    answer.count = Len(ScanStep(engine, Asked))

(* plan-executor.ts:215 of the clauses COUNT takes to SQL: "True when      *)
(* every predicate can be expressed by `whereExprToSqlClauses`".  Of a     *)
(* plain clause COUNT answers how many rows satisfy it.                    *)
CountIsExact ==
  Answered /\ Asked.kind = "aggregate" /\ AllPlain(Asked) =>
    answer.count = Cardinality(Matches(Asked))

(* The fields of a query about two schemas by the names of the schemas,    *)
(* joined on texts that are unique in the right one.                       *)
KeyJoin(q) ==
  LET j    == q.join
      R    == Rows(j.schema)
      keys == [k \in DOMAIN R |-> Field(R[k], j.right.field)]
  IN  /\ j.left.alias = q.from /\ j.right.alias = j.schema /\ q.from # j.schema
      /\ q.from = <<q.from[1]>> /\ j.schema = <<j.schema[1]>>
      /\ \A k \in DOMAIN R : keys[k] \in StringValue \ {String(0)}
      /\ \A k, m \in DOMAIN R : keys[k] = keys[m] => k = m
      /\ \A i \in DOMAIN Rows(q.from) : Field(Rows(q.from)[i], j.left.field).t # "number"
      /\ \A c \in Conditions(q.where) :
           c.field = <<c.field[1], c.field[2]>> /\ c.field[1] \in {q.from[1], j.schema[1]}

OneType(field, rows) ==
  \A i, k \in DOMAIN rows :
    LET x == Field(rows[i], field)
        y == Field(rows[k], field)
    IN  Populated(x) /\ Populated(y) => x.t = y.t

(* A join without projection or paging answers every pair of rows that     *)
(* agree on the key and satisfy the clause, ordered as asked for where the *)
(* values are numbers or are texts.                                        *)
JoinIsRelational ==
  LET q == Asked
      j == q.join
      plainJoin == /\ Answered /\ q.kind = "select" /\ j # NoJoin
                   /\ q.select = <<>> /\ q.limit = Unset /\ q.offset = Unset
  IN  plainJoin /\ KeyJoin(q) =>
        LET L == Rows(q.from)
            R == Rows(j.schema)
            pairs == {p \in (DOMAIN L) \X (DOMAIN R) :
                        /\ Field(L[p[1]], j.left.field) = Field(R[p[2]], j.right.field)
                        /\ EvaluateWhere(q.where, MergedData(MergedData(L[p[1]], L[p[1]], q.from), R[p[2]], j.schema))}
        IN  /\ Len(answer.rows) = Cardinality(pairs)
            /\ {answer.rows[i] : i \in DOMAIN answer.rows}
                 = {MergedData(L[p[1]], R[p[2]], j.right.alias) : p \in pairs}
            /\ OneType(q.orderBy.field, answer.rows) =>
                 \A p \in JsBefore(q.orderBy, answer.rows) : p[1] < p[2]

(* Phase3.md:45 of the filter after the SQL scan: "Handles NOT, EXISTS, OR *)
(* reliably".  A scan without limit, of a clause whose conditions SQL and  *)
(* memory read alike, lists every row that satisfies the clause and whose  *)
(* fields it names are populated.                                          *)
PostFilterReliable ==
  Answered /\ Asked.kind = "select" /\ Asked.join = NoJoin /\ Asked.select = <<>>
           /\ Asked.limit = Unset /\ Asked.offset = Unset /\ Typed("scan", Asked) =>
    \A k \in Matches(Asked) :
      LET d == Rows(Asked.from)[k]
      IN  (\A c \in Conditions(Asked.where) : Populated(Field(d, c.field)))
            => \E i \in DOMAIN answer.rows : answer.rows[i] = d
=============================================================================
