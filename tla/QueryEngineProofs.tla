------------------------- MODULE QueryEngineProofs -------------------------
(***************************************************************************)
(* What a query lists and counts, for any tables and texts: first one      *)
(* condition in SQL and in memory, for any field, operator, literals and   *)
(* entity; then whole clauses, by induction over how deep they nest; then  *)
(* scans, counts and joins, whose rows are handled by position.  And what  *)
(* the parser makes of a text, for any text: every parse moves forward,    *)
(* which unfolds the functions the parser is made of; a query is read back *)
(* from its text, part by part; and what is taken at all is in order.      *)
(***************************************************************************)
EXTENDS QueryTexts, FiniteSetTheorems, SequenceTheorems, TLAPS

(* The tag of a value says which values it is none of.                      *)
LEMMA Tags ==
  /\ \A x \in ScalarValue \union {Undefined} :
       /\ x.t \in {"number", "string", "null", "undefined"}
       /\ x.v \in Int
       /\ x.t = "null" => x = Null
       /\ x.t = "undefined" => x = Undefined
       /\ Populated(x) <=> x # Null /\ x # Undefined
  /\ Null # Undefined /\ ~Populated(Null) /\ ~Populated(Undefined)
BY DEF ScalarValue, NumberValue, StringValue, Null, Undefined, Populated

(* Values of one type, in SQL: equal where they are equal in memory, and in *)
(* the order of memory where the engine's is that order.                    *)
LEMMA SameTypeInSql ==
  ASSUME NEW e, NEW x \in ScalarValue \union {Undefined}, NEW y \in ScalarValue,
         Populated(x) /\ y # Null => x.t = y.t
  PROVE  /\ SqlCompare(e, "==", x, y) <=> Populated(x) /\ y # Null /\ x = y
         /\ SqlCompare(e, "!=", x, y) <=> Populated(x) /\ y # Null /\ x # y
         /\ OrderedAlike(e, x, y) =>
              \A op \in Orderings :
                SqlCompare(e, op, x, y) <=> Populated(x) /\ y # Null /\ JsCompare(op, x, y)
<1>1. Populated(y) <=> y # Null
  BY Tags DEF ScalarValue, NumberValue, StringValue, Null, Undefined
<1>2. CASE ~Populated(x) \/ y = Null
  BY <1>1, <1>2 DEF SqlCompare
<1>3. CASE Populated(x) /\ y # Null /\ x.t = "number"
  <2>1. /\ x = Number(x.v) /\ y = Number(y.v) /\ x.v \in Int /\ y.v \in Int /\ y.t = "number"
        /\ x # Null
    BY <1>3, Tags DEF ScalarValue, NumberValue, StringValue, Null, Undefined, Number
  <2>2. NumbersOf(e, x) = {x.v} /\ JsNumbers(x) = {x.v} /\ JsNumbers(y) = {y.v}
    BY <1>3, <2>1 DEF NumbersOf, JsNumbers
  <2>3. x = y <=> x.v = y.v
    BY <2>1
  <2>4. /\ Precedes("sqlite", x, y) <=> x.v < y.v
        /\ Precedes("sqlite", y, x) <=> y.v < x.v
    BY <1>3, <2>1 DEF Precedes, Rank, Within
  <2>5. \A op : SqlCompare(e, op, x, y) <=> Compare(op, x.v, y.v)
    <3>1. CASE e = "sqlite"
      BY <1>1, <1>3, <2>3, <2>4, <3>1 DEF SqlCompare, Compare, Test
    <3>2. CASE e # "sqlite"
      BY <1>1, <1>3, <2>1, <2>2, <3>2 DEF SqlCompare
    <3> QED BY <3>1, <3>2
  <2>6. \A op : JsCompare(op, x, y) <=> Compare(op, x.v, y.v)
    BY <1>3, <2>2 DEF JsCompare
  <2>7. /\ Compare("==", x.v, y.v) <=> x.v = y.v
        /\ Compare("!=", x.v, y.v) <=> x.v # y.v
    BY DEF Compare, Test
  <2> QED BY <1>3, <2>3, <2>5, <2>6, <2>7
<1>4. CASE Populated(x) /\ y # Null /\ x.t = "string"
  <2>1. x = String(x.v) /\ y = String(y.v) /\ x.v \in Nat /\ y.v \in Nat /\ y.t = "string"
    BY <1>4, Tags DEF ScalarValue, NumberValue, StringValue, Null, Undefined, String
  <2>2. TextOf(e, x) = x.v
    BY <1>4 DEF TextOf
  <2>3. x = y <=> x.v = y.v
    BY <2>1
  <2>4. /\ Precedes("sqlite", x, y) <=> Weight("sqlite", x.v) < Weight("sqlite", y.v)
        /\ Precedes("sqlite", y, x) <=> Weight("sqlite", y.v) < Weight("sqlite", x.v)
    BY <1>4, <2>1 DEF Precedes, Rank, Within
  <2>5. \A op : SqlCompare(e, op, x, y)
                 <=> Test(op, x.v = y.v, Weight(e, x.v) < Weight(e, y.v), Weight(e, y.v) < Weight(e, x.v))
    <3>1. CASE e = "sqlite"
      BY <1>1, <1>4, <2>3, <2>4, <3>1 DEF SqlCompare, Test
    <3>2. CASE e # "sqlite"
      BY <1>1, <1>4, <2>1, <2>2, <3>2 DEF SqlCompare
    <3> QED BY <3>1, <3>2
  <2>6. \A op : JsCompare(op, x, y) <=> Test(op, x.v = y.v, x.v < y.v, y.v < x.v)
    BY <1>4, <2>1 DEF JsCompare, Compare
  <2>7. OrderedAlike(e, x, y) => /\ x.v < y.v <=> Weight(e, x.v) < Weight(e, y.v)
                                 /\ y.v < x.v <=> Weight(e, y.v) < Weight(e, x.v)
    BY <1>4 DEF OrderedAlike
  <2>8. /\ SqlCompare(e, "==", x, y) <=> x.v = y.v
        /\ SqlCompare(e, "!=", x, y) <=> x.v # y.v
    BY <2>5 DEF Test
  <2>9. OrderedAlike(e, x, y) => \A op : SqlCompare(e, op, x, y) <=> JsCompare(op, x, y)
    BY <2>5, <2>6, <2>7 DEF Test
  <2> QED BY <1>4, <2>3, <2>8, <2>9
<1>5. Populated(x) => x.t \in {"number", "string"}
  BY DEF Populated
<1> QED BY <1>2, <1>3, <1>4, <1>5

(* The operators of a fitting condition, one by one.  The condition reads   *)
(* the same field in both places.                                           *)
LEMMA InAgrees ==
  ASSUME NEW e, NEW statement, NEW c, NEW data, Fits(e, statement, c, data), c.op = "in"
  PROVE  /\ SqlCondition(e, statement, c, data) => EvaluateCondition(c, data)
         /\ Plain(c, data) /\ EvaluateCondition(c, data) => SqlCondition(e, statement, c, data)
<1> DEFINE x == Field(data, c.field)
<1>1. /\ SqlName(e, statement, c.field) = c.field /\ x \in ScalarValue \union {Undefined}
      /\ \A i \in DOMAIN c.value : /\ c.value[i] \in ScalarValue
                                   /\ Populated(x) /\ c.value[i] # Null => x.t = c.value[i].t
  BY DEF Fits, Orderings
<1>2. /\ EvaluateCondition(c, data) <=> \E i \in DOMAIN c.value : x = c.value[i]
      /\ SqlCondition(e, statement, c, data) <=> \E i \in DOMAIN c.value : SqlCompare(e, "==", x, c.value[i])
  BY <1>1 DEF EvaluateCondition, SqlCondition, Orderings
<1>3. Plain(c, data) /\ EvaluateCondition(c, data) => Populated(x)
  BY DEF Plain
<1> HIDE DEF x
<1>4. \A i \in DOMAIN c.value :
         SqlCompare(e, "==", x, c.value[i]) <=> Populated(x) /\ c.value[i] # Null /\ x = c.value[i]
  <2> TAKE i \in DOMAIN c.value
  <2> DEFINE y == c.value[i]
  <2>1. y \in ScalarValue /\ (Populated(x) /\ y # Null => x.t = y.t)
    BY <1>1
  <2> HIDE DEF y
  <2>2. SqlCompare(e, "==", x, y) <=> Populated(x) /\ y # Null /\ x = y
    BY <1>1, <2>1, SameTypeInSql
  <2> QED BY <2>2 DEF y
<1>5. Populated(x) => x # Null
  BY Tags
<1> QED BY <1>2, <1>3, <1>4, <1>5

LEMMA EqualityAgrees ==
  ASSUME NEW e, NEW statement, NEW c, NEW data, Fits(e, statement, c, data), c.op \in {"==", "!="}
  PROVE  /\ SqlCondition(e, statement, c, data) => EvaluateCondition(c, data)
         /\ Plain(c, data) /\ EvaluateCondition(c, data) => SqlCondition(e, statement, c, data)
<1> DEFINE x == Field(data, c.field)
<1>1. /\ SqlName(e, statement, c.field) = c.field
      /\ x \in ScalarValue \union {Undefined} /\ c.value \in ScalarValue
      /\ Populated(x) /\ c.value # Null => x.t = c.value.t
  BY DEF Fits, Orderings
<1>2. Plain(c, data) /\ EvaluateCondition(c, data) => Populated(x) \/ c.op = "=="
  BY DEF Plain
<1>3. /\ Populated(x) <=> x # Null /\ x # Undefined
      /\ Null # Undefined
  BY <1>1, Tags
<1>4. CASE c.op = "=="
  <2>1. EvaluateCondition(c, data) <=> x = c.value \/ (c.value = Null /\ x = Undefined)
    BY <1>4 DEF EvaluateCondition, Orderings
  <2>2. SqlCondition(e, statement, c, data)
          <=> \/ c.value = Null /\ ~Populated(x)
              \/ c.value # Null /\ SqlCompare(e, "==", x, c.value)
    BY <1>1, <1>4 DEF SqlCondition, Orderings
  <2> HIDE DEF x
  <2>3. SqlCompare(e, "==", x, c.value) <=> Populated(x) /\ c.value # Null /\ x = c.value
    BY <1>1, SameTypeInSql
  <2>4. c.value # Undefined
    BY <1>1 DEF ScalarValue, NumberValue, StringValue, Null, Undefined
  <2> QED BY <1>3, <2>1, <2>2, <2>3, <2>4, Zenon
<1>5. CASE c.op = "!="
  <2>1. EvaluateCondition(c, data) <=> x # c.value
    BY <1>5 DEF EvaluateCondition, Orderings
  <2>2. SqlCondition(e, statement, c, data)
          <=> \/ c.value = Null /\ Populated(x)
              \/ c.value # Null /\ SqlCompare(e, "!=", x, c.value)
    BY <1>1, <1>5 DEF SqlCondition, Orderings
  <2> HIDE DEF x
  <2>3. SqlCompare(e, "!=", x, c.value) <=> Populated(x) /\ c.value # Null /\ x # c.value
    BY <1>1, SameTypeInSql
  <2>4. c.op # "=="
    BY <1>5
  <2> QED BY <1>2, <1>3, <2>1, <2>2, <2>3, <2>4, Zenon
<1> QED BY <1>4, <1>5

LEMMA OrderingAgrees ==
  ASSUME NEW e, NEW statement, NEW c, NEW data, Fits(e, statement, c, data), c.op \in Orderings
  PROVE  /\ SqlCondition(e, statement, c, data) => EvaluateCondition(c, data)
         /\ Plain(c, data) /\ EvaluateCondition(c, data) => SqlCondition(e, statement, c, data)
<1> DEFINE x == Field(data, c.field)
<1>1. /\ SqlName(e, statement, c.field) = c.field
      /\ x \in ScalarValue \union {Undefined} /\ c.value \in ScalarValue /\ c.value # Null
      /\ Populated(x) /\ c.value # Null => x.t = c.value.t
      /\ OrderedAlike(e, x, c.value)
  BY DEF Fits, Orderings
<1>2. Plain(c, data) /\ EvaluateCondition(c, data) => Populated(x)
  BY DEF Plain, Orderings
<1>3. EvaluateCondition(c, data) <=> JsCompare(c.op, x, c.value)
  BY DEF EvaluateCondition, Orderings
<1>4. SqlCondition(e, statement, c, data) <=> SqlCompare(e, c.op, x, c.value)
  BY <1>1 DEF SqlCondition, Orderings
<1> HIDE DEF x
<1>5. SqlCompare(e, c.op, x, c.value) <=> Populated(x) /\ JsCompare(c.op, x, c.value)
  BY <1>1, SameTypeInSql
<1> QED BY <1>2, <1>3, <1>4, <1>5

LEMMA ContainsAgrees ==
  ASSUME NEW e, NEW statement, NEW c, NEW data, Fits(e, statement, c, data), c.op = "contains"
  PROVE  /\ SqlCondition(e, statement, c, data) => EvaluateCondition(c, data)
         /\ Plain(c, data) /\ EvaluateCondition(c, data) => SqlCondition(e, statement, c, data)
<1> DEFINE x == Field(data, c.field)
<1>1. /\ SqlName(e, statement, c.field) = c.field
      /\ c.value \in NumberValue \union StringValue
      /\ JsText(c.value) \notin Wild \union NonAscii /\ JsText(x) \notin NonAscii
      /\ Populated(x) => WrittenAlike(e, x)
  BY DEF Fits, Orderings
<1>2. Plain(c, data) /\ EvaluateCondition(c, data) => Populated(x)
  BY DEF Plain
<1>3. EvaluateCondition(c, data) <=> HasPart(JsText(x), JsText(c.value))
  BY DEF EvaluateCondition, Orderings
<1>4. SqlCondition(e, statement, c, data)
        <=> Populated(x) /\ Like(e, TextOf(e, x), TextOf("memory", c.value))
  BY <1>1 DEF SqlCondition, Orderings
<1> HIDE DEF x
<1>5. JsText(c.value) = TextOf("memory", c.value)
  BY <1>1 DEF JsText, Populated, NumberValue, StringValue
<1>6. Populated(x) => TextOf(e, x) = JsText(x)
  BY <1>1 DEF JsText, WrittenAlike
<1>7. Populated(x) => (Like(e, TextOf(e, x), TextOf("memory", c.value)) <=> HasPart(JsText(x), JsText(c.value)))
  BY <1>1, <1>5, <1>6 DEF Like
<1> QED BY <1>2, <1>3, <1>4, <1>7

(* A row SQL selects for a fitting condition satisfies it in memory too, so  *)
(* the second filter of a scan drops no row that COUNT counted.  A condition *)
(* fits under the hypotheses SQL needs: the field's name and the text of its *)
(* value are the same in SQL, the literal has the field's type and is no     *)
(* null to order by or search for, what is searched is ASCII without a       *)
(* wildcard, and texts come in JavaScript's order (whereExprToSqlClauses     *)
(* against evaluateCondition).                                               *)
THEOREM SqlSelectsNoMore ==
  \A e, statement, c, data :
    Fits(e, statement, c, data) /\ SqlCondition(e, statement, c, data) => EvaluateCondition(c, data)
<1> SUFFICES ASSUME NEW e, NEW statement, NEW c, NEW data,
                    Fits(e, statement, c, data), SqlCondition(e, statement, c, data)
             PROVE  EvaluateCondition(c, data)
  OBVIOUS
<1>1. c.op = "in" \/ c.op \in {"==", "!="} \/ c.op \in Orderings \/ c.op = "contains"
  BY DEF Fits
<1> QED BY <1>1, InAgrees, EqualityAgrees, OrderingAgrees, ContainsAgrees

(* Where the condition is plain on the row as well, SQL and memory agree, so *)
(* the page SQL cuts is the page of the matching rows.                       *)
THEOREM PlainConditionsAgree ==
  \A e, statement, c, data :
    Fits(e, statement, c, data) /\ Plain(c, data)
      => (SqlCondition(e, statement, c, data) <=> EvaluateCondition(c, data))
<1> SUFFICES ASSUME NEW e, NEW statement, NEW c, NEW data, Fits(e, statement, c, data), Plain(c, data)
             PROVE  SqlCondition(e, statement, c, data) <=> EvaluateCondition(c, data)
  OBVIOUS
<1>1. c.op = "in" \/ c.op \in {"==", "!="} \/ c.op \in Orderings \/ c.op = "contains"
  BY DEF Fits
<1> QED BY <1>1, InAgrees, EqualityAgrees, OrderingAgrees, ContainsAgrees

-----------------------------------------------------------------------------
(* Induction over how deep a clause nests.                                 *)

LEMMA NatMinimum ==
  ASSUME NEW T, T \subseteq Nat, T # {}
  PROVE  \E n \in T : \A m \in T : n <= m
<1> DEFINE R == {p \in Nat \X Nat : p[1] < p[2]}
<1>1. IsWellFoundedOn(R, Nat)
  BY NatLessThanWellFounded DEF OpToRel
<1>2. PICK n \in T : \A m \in T : <<m, n>> \notin R
  <2> HIDE DEF R
  <2> QED BY <1>1, WFMin
<1>3. \A m \in T : m \in Nat /\ n \in Nat /\ ~(m < n)
  BY <1>2
<1> QED BY <1>3

LEMMA ClauseInduction ==
  ASSUME NEW P, \A e \in Clauses : Children(e) \subseteq P => e \in P
  PROVE  Clauses \subseteq P
<1> SUFFICES ASSUME Clauses \ P # {} PROVE FALSE
  OBVIOUS
<1> DEFINE T == {Depth(e) : e \in Clauses \ P}
<1>1. T \subseteq Nat /\ T # {}
  BY ClauseAssumption
<1>2. PICK n \in T : \A m \in T : n <= m
  <2> HIDE DEF T
  <2> QED BY <1>1, NatMinimum
<1>3. PICK e \in Clauses \ P : Depth(e) = n
  OBVIOUS
<1>4. \A x \in Children(e) : x \in P
  <2> SUFFICES ASSUME NEW x \in Children(e), x \notin P PROVE FALSE
    OBVIOUS
  <2>1. x \in Clauses /\ Depth(x) \in Nat /\ Depth(e) \in Nat /\ Depth(x) < Depth(e)
    BY ClauseAssumption
  <2>2. n <= Depth(x)
    BY <1>2, <2>1
  <2> QED BY <1>3, <2>1, <2>2
<1> QED BY <1>4

(* A function on clauses is defined by what it is on a clause given what it *)
(* is on the clause's children.                                             *)
LEMMA RecursiveFunctionExists ==
  ASSUME NEW V, NEW v \in V,
         NEW F \in [[Clauses -> V] -> [Clauses -> V]],
         \A g, h \in [Clauses -> V] : \A e \in Clauses :
           (\A x \in Children(e) : g[x] = h[x]) => F[g][e] = F[h][e]
  PROVE  \E f \in [Clauses -> V] : f = F[f]
<1> DEFINE Fixed(g, n) == \A e \in Clauses : Depth(e) < n => g[e] = F[g][e]
<1>1. \A e \in Clauses : Depth(e) \in Nat /\ \A x \in Children(e) : x \in Clauses /\ Depth(x) < Depth(e)
  BY ClauseAssumption
<1>2. ASSUME NEW n \in Nat, NEW g \in [Clauses -> V], Fixed(g, n)
      PROVE  F[g] \in [Clauses -> V] /\ Fixed(F[g], n + 1)
  <2>1. F[g] \in [Clauses -> V]
    OBVIOUS
  <2> SUFFICES ASSUME NEW e \in Clauses, Depth(e) < n + 1
               PROVE  F[g][e] = F[F[g]][e]
    BY <2>1
  <2>2. \A x \in Children(e) : g[x] = F[g][x]
    <3> TAKE x \in Children(e)
    <3>1. x \in Clauses /\ Depth(x) < n
      BY <1>1
    <3> QED BY <1>2, <3>1
  <2> QED BY <2>1, <2>2
<1>3. \A n \in Nat : \E g \in [Clauses -> V] : Fixed(g, n)
  <2> DEFINE Bad == {n \in Nat : ~\E g \in [Clauses -> V] : Fixed(g, n)}
  <2> SUFFICES ASSUME Bad # {} PROVE FALSE
    OBVIOUS
  <2>1. PICK n \in Bad : \A m \in Bad : n <= m
    <3>1. Bad \subseteq Nat
      OBVIOUS
    <3> HIDE DEF Bad
    <3> QED BY <3>1, NatMinimum
  <2>2. CASE n = 0
    <3>1. [e \in Clauses |-> v] \in [Clauses -> V]
      OBVIOUS
    <3>2. Fixed([e \in Clauses |-> v], 0)
      BY <1>1
    <3> QED BY <2>1, <2>2, <3>1, <3>2
  <2>3. CASE n # 0
    <3>1. n - 1 \in Nat /\ n - 1 \notin Bad
      BY <2>1, <2>3
    <3>2. PICK g \in [Clauses -> V] : Fixed(g, n - 1)
      BY <3>1
    <3> HIDE DEF Fixed
    <3>3. Fixed(F[g], n - 1 + 1) /\ F[g] \in [Clauses -> V]
      BY <1>2, <3>1, <3>2
    <3>4. n - 1 + 1 = n
      BY <2>1
    <3> QED BY <2>1, <3>3, <3>4
  <2> QED BY <2>2, <2>3
<1>4. ASSUME NEW n \in Nat, NEW g \in [Clauses -> V], NEW h \in [Clauses -> V], Fixed(g, n), Fixed(h, n)
      PROVE  \A e \in Clauses : Depth(e) < n => g[e] = h[e]
  <2> DEFINE P == {e \in Clauses : Depth(e) < n => g[e] = h[e]}
  <2>1. \A e \in Clauses : Children(e) \subseteq P => e \in P
    <3> SUFFICES ASSUME NEW e \in Clauses, Children(e) \subseteq P, Depth(e) < n
                 PROVE  g[e] = h[e]
      OBVIOUS
    <3>1. \A x \in Children(e) : g[x] = h[x]
      BY <1>1
    <3>2. F[g][e] = F[h][e]
      BY <3>1
    <3> QED BY <1>4, <3>2
  <2>2. Clauses \subseteq P
    <3> HIDE DEF P
    <3> QED BY <2>1, ClauseInduction
  <2> QED BY <2>2
<1> DEFINE G(n) == CHOOSE g \in [Clauses -> V] : Fixed(g, n)
           f == [e \in Clauses |-> G(Depth(e) + 1)[e]]
<1>5. \A n \in Nat : G(n) \in [Clauses -> V] /\ Fixed(G(n), n)
  BY <1>3
<1>6. \A e \in Clauses : f[e] = G(Depth(e) + 1)[e]
  OBVIOUS
<1>7. f \in [Clauses -> V]
  <2>1. \A e \in Clauses : G(Depth(e) + 1)[e] \in V
    <3> TAKE e \in Clauses
    <3>1. Depth(e) + 1 \in Nat
      BY <1>1
    <3>2. G(Depth(e) + 1) \in [Clauses -> V]
      BY <1>5, <3>1
    <3> HIDE DEF G
    <3> QED BY <3>2
  <2> HIDE DEF G
  <2> QED BY <2>1
<1>8. \A e \in Clauses : f[e] = F[f][e]
  <2> TAKE e \in Clauses
  <2> DEFINE g == G(Depth(e) + 1)
  <2>1. Depth(e) + 1 \in Nat /\ Depth(e) < Depth(e) + 1
    BY <1>1
  <2>2. g \in [Clauses -> V] /\ Fixed(g, Depth(e) + 1)
    BY <1>5, <2>1
  <2>3. \A x \in Children(e) : f[x] = g[x]
    <3> TAKE x \in Children(e)
    <3>1. /\ x \in Clauses /\ Depth(x) + 1 \in Nat
          /\ Depth(x) < Depth(x) + 1 /\ Depth(x) + 1 <= Depth(e) + 1
      BY <1>1
    <3>2. Fixed(g, Depth(x) + 1)
      <4> HIDE DEF g, G, f
      <4> QED BY <1>1, <2>1, <2>2, <3>1
    <3>3. G(Depth(x) + 1) \in [Clauses -> V] /\ Fixed(G(Depth(x) + 1), Depth(x) + 1)
      BY <1>5, <3>1
    <3>4. f[x] = G(Depth(x) + 1)[x]
      BY <1>6, <3>1
    <3> HIDE DEF g, G, f, Fixed
    <3> QED BY <1>4, <2>2, <3>1, <3>2, <3>3, <3>4
  <2>4. F[f][e] = F[g][e]
    <3> HIDE DEF g, G, f
    <3> QED BY <1>7, <2>2, <2>3
  <2>5. g[e] = F[g][e]
    <3> HIDE DEF g, G, f
    <3> QED BY <2>1, <2>2
  <2>6. f[e] = g[e]
    BY <1>6
  <2> HIDE DEF g, G, f
  <2> QED BY <2>4, <2>5, <2>6
<1>9. F[f] \in [Clauses -> V]
  <2> HIDE DEF f
  <2> QED BY <1>7
<1>10. f = F[f]
  <2> HIDE DEF f, G
  <2> QED BY <1>7, <1>8, <1>9
<1> HIDE DEF f
<1> QED BY <1>7, <1>10

-----------------------------------------------------------------------------
(* The recursive functions on clauses, unfolded.                           *)

LEMMA EvaluateWhereUnfolds ==
  ASSUME NEW d
  PROVE  \A x \in Clauses :
           /\ EvaluateWhere(x, d) \in BOOLEAN
           /\ EvaluateWhere(x, d) <=>
                \/ x.type = "none"
                \/ x.type = "condition" /\ EvaluateCondition(x, d)
                \/ x.type = "and" /\ \A y \in Children(x) : EvaluateWhere(y, d)
                \/ x.type = "or" /\ \E y \in Children(x) : EvaluateWhere(y, d)
                \/ x.type = "not" /\ ~EvaluateWhere(x.expr, d)
<1> DEFINE Step(g, x) ==
             \/ x.type = "none"
             \/ x.type = "condition" /\ EvaluateCondition(x, d)
             \/ x.type = "and" /\ \A y \in Children(x) : g[y]
             \/ x.type = "or" /\ \E y \in Children(x) : g[y]
             \/ x.type = "not" /\ ~g[x.expr]
           F == [g \in [Clauses -> BOOLEAN] |-> [x \in Clauses |-> Step(g, x)]]
           holds == CHOOSE f : f = [x \in Clauses |-> Step(f, x)]
<1>1. \A x \in Clauses : \A y \in Children(x) : y \in Clauses
  BY ClauseAssumption
<1>2. F \in [[Clauses -> BOOLEAN] -> [Clauses -> BOOLEAN]]
  OBVIOUS
<1>3. ASSUME NEW g \in [Clauses -> BOOLEAN], NEW h \in [Clauses -> BOOLEAN], NEW x \in Clauses,
             \A y \in Children(x) : g[y] = h[y]
      PROVE  F[g][x] = F[h][x]
  <2>1. Step(g, x) = Step(h, x)
    BY <1>1, <1>3 DEF Children
  <2>2. F[g][x] = Step(g, x) /\ F[h][x] = Step(h, x)
    OBVIOUS
  <2> HIDE DEF F, Step
  <2> QED BY <2>1, <2>2
<1>4. \E f \in [Clauses -> BOOLEAN] : f = F[f]
  <2> HIDE DEF F
  <2> QED BY <1>2, <1>3, RecursiveFunctionExists
<1>5. \E f : f = [x \in Clauses |-> Step(f, x)]
  BY <1>4
<1>6. holds = [x \in Clauses |-> Step(holds, x)]
  <2> HIDE DEF Step
  <2> QED BY <1>5
<1>7. \A x : EvaluateWhere(x, d) = holds[x]
  BY DEF EvaluateWhere
<1>8. \A x \in Clauses : holds[x] = Step(holds, x)
  <2> HIDE DEF Step, holds
  <2> QED BY <1>6
<1> QED
  <2> HIDE DEF holds
  <2> QED BY <1>1, <1>7, <1>8 DEF Children

LEMMA CanPushdownUnfolds ==
  \A x \in Clauses : CanPushdownWhere(x) <=>
           \/ x.type = "none"
           \/ x.type = "condition" /\ x.op # "exists"
           \/ x.type \in {"and", "or"} /\ \A y \in Children(x) : CanPushdownWhere(y)
<1> DEFINE Step(g, x) ==
             \/ x.type = "none"
             \/ x.type = "condition" /\ x.op # "exists"
             \/ x.type \in {"and", "or"} /\ \A y \in Children(x) : g[y]
           F == [g \in [Clauses -> BOOLEAN] |-> [x \in Clauses |-> Step(g, x)]]
           holds == CHOOSE f : f = [x \in Clauses |-> Step(f, x)]
<1>1. \A x \in Clauses : \A y \in Children(x) : y \in Clauses
  BY ClauseAssumption
<1>2. F \in [[Clauses -> BOOLEAN] -> [Clauses -> BOOLEAN]]
  OBVIOUS
<1>3. ASSUME NEW g \in [Clauses -> BOOLEAN], NEW h \in [Clauses -> BOOLEAN], NEW x \in Clauses,
             \A y \in Children(x) : g[y] = h[y]
      PROVE  F[g][x] = F[h][x]
  <2>1. Step(g, x) = Step(h, x)
    BY <1>1, <1>3
  <2>2. F[g][x] = Step(g, x) /\ F[h][x] = Step(h, x)
    OBVIOUS
  <2> HIDE DEF F, Step
  <2> QED BY <2>1, <2>2
<1>4. \E f \in [Clauses -> BOOLEAN] : f = F[f]
  <2> HIDE DEF F
  <2> QED BY <1>2, <1>3, RecursiveFunctionExists
<1>5. \E f : f = [x \in Clauses |-> Step(f, x)]
  BY <1>4
<1>6. holds = [x \in Clauses |-> Step(holds, x)]
  <2> HIDE DEF Step
  <2> QED BY <1>5
<1>7. \A x : CanPushdownWhere(x) = holds[x]
  BY DEF CanPushdownWhere
<1>8. \A x \in Clauses : holds[x] = Step(holds, x)
  <2> HIDE DEF Step, holds
  <2> QED BY <1>6
<1> QED
  <2> HIDE DEF holds
  <2> QED BY <1>1, <1>7, <1>8

LEMMA CompilesUnfolds ==
  \A x \in Clauses : Compiles(x) <=>
           \/ x.type = "condition" /\ x.op # "exists"
           \/ x.type \in {"and", "or"} /\ \E y \in Children(x) : Compiles(y)
<1> DEFINE Step(g, x) ==
             \/ x.type = "condition" /\ x.op # "exists"
             \/ x.type \in {"and", "or"} /\ \E y \in Children(x) : g[y]
           F == [g \in [Clauses -> BOOLEAN] |-> [x \in Clauses |-> Step(g, x)]]
           holds == CHOOSE f : f = [x \in Clauses |-> Step(f, x)]
<1>1. \A x \in Clauses : \A y \in Children(x) : y \in Clauses
  BY ClauseAssumption
<1>2. F \in [[Clauses -> BOOLEAN] -> [Clauses -> BOOLEAN]]
  OBVIOUS
<1>3. ASSUME NEW g \in [Clauses -> BOOLEAN], NEW h \in [Clauses -> BOOLEAN], NEW x \in Clauses,
             \A y \in Children(x) : g[y] = h[y]
      PROVE  F[g][x] = F[h][x]
  <2>1. Step(g, x) = Step(h, x)
    BY <1>1, <1>3
  <2>2. F[g][x] = Step(g, x) /\ F[h][x] = Step(h, x)
    OBVIOUS
  <2> HIDE DEF F, Step
  <2> QED BY <2>1, <2>2
<1>4. \E f \in [Clauses -> BOOLEAN] : f = F[f]
  <2> HIDE DEF F
  <2> QED BY <1>2, <1>3, RecursiveFunctionExists
<1>5. \E f : f = [x \in Clauses |-> Step(f, x)]
  BY <1>4
<1>6. holds = [x \in Clauses |-> Step(holds, x)]
  <2> HIDE DEF Step
  <2> QED BY <1>5
<1>7. \A x : Compiles(x) = holds[x]
  BY DEF Compiles
<1>8. \A x \in Clauses : holds[x] = Step(holds, x)
  <2> HIDE DEF Step, holds
  <2> QED BY <1>6
<1> QED
  <2> HIDE DEF holds
  <2> QED BY <1>1, <1>7, <1>8

LEMMA SqlWhereUnfolds ==
  ASSUME NEW db, NEW statement, NEW d
  PROVE  \A x \in Clauses : SqlWhere(db, statement, x, d) <=>
           \/ ~Compiles(x)
           \/ x.type = "condition" /\ SqlCondition(db, statement, x, d)
           \/ x.type = "and" /\ \A y \in Children(x) : SqlWhere(db, statement, y, d)
           \/ x.type = "or" /\ \E y \in Children(x) : Compiles(y) /\ SqlWhere(db, statement, y, d)
<1> DEFINE Step(g, x) ==
             \/ ~Compiles(x)
             \/ x.type = "condition" /\ SqlCondition(db, statement, x, d)
             \/ x.type = "and" /\ \A y \in Children(x) : g[y]
             \/ x.type = "or" /\ \E y \in Children(x) : Compiles(y) /\ g[y]
           F == [g \in [Clauses -> BOOLEAN] |-> [x \in Clauses |-> Step(g, x)]]
           holds == CHOOSE f : f = [x \in Clauses |-> Step(f, x)]
<1>1. \A x \in Clauses : \A y \in Children(x) : y \in Clauses
  BY ClauseAssumption
<1>2. F \in [[Clauses -> BOOLEAN] -> [Clauses -> BOOLEAN]]
  OBVIOUS
<1>3. ASSUME NEW g \in [Clauses -> BOOLEAN], NEW h \in [Clauses -> BOOLEAN], NEW x \in Clauses,
             \A y \in Children(x) : g[y] = h[y]
      PROVE  F[g][x] = F[h][x]
  <2>1. Step(g, x) = Step(h, x)
    BY <1>1, <1>3
  <2>2. F[g][x] = Step(g, x) /\ F[h][x] = Step(h, x)
    OBVIOUS
  <2> HIDE DEF F, Step
  <2> QED BY <2>1, <2>2
<1>4. \E f \in [Clauses -> BOOLEAN] : f = F[f]
  <2> HIDE DEF F
  <2> QED BY <1>2, <1>3, RecursiveFunctionExists
<1>5. \E f : f = [x \in Clauses |-> Step(f, x)]
  BY <1>4
<1>6. holds = [x \in Clauses |-> Step(holds, x)]
  <2> HIDE DEF Step
  <2> QED BY <1>5
<1>7. \A x : SqlWhere(db, statement, x, d) = holds[x]
  BY DEF SqlWhere
<1>8. \A x \in Clauses : holds[x] = Step(holds, x)
  <2> HIDE DEF Step, holds
  <2> QED BY <1>6
<1> QED
  <2> HIDE DEF holds
  <2> QED BY <1>1, <1>7, <1>8

LEMMA ConditionsUnfold ==
  \A x \in Clauses : Conditions(x) = IF x.type = "condition" THEN {x} ELSE UNION {Conditions(y) : y \in Children(x)}
<1> DEFINE Step(g, x) == IF x.type = "condition" THEN {x} ELSE UNION {g[y] : y \in Children(x)}
           F == [g \in [Clauses -> SUBSET Clauses] |-> [x \in Clauses |-> Step(g, x)]]
           conditions == CHOOSE f : f = [x \in Clauses |-> Step(f, x)]
<1>1. \A x \in Clauses : \A y \in Children(x) : y \in Clauses
  BY ClauseAssumption
<1>2. F \in [[Clauses -> SUBSET Clauses] -> [Clauses -> SUBSET Clauses]]
  <2>1. \A g \in [Clauses -> SUBSET Clauses] : \A x \in Clauses : Step(g, x) \in SUBSET Clauses
    BY <1>1
  <2> HIDE DEF Step
  <2> QED BY <2>1
<1>3. ASSUME NEW g \in [Clauses -> SUBSET Clauses], NEW h \in [Clauses -> SUBSET Clauses], NEW x \in Clauses,
             \A y \in Children(x) : g[y] = h[y]
      PROVE  F[g][x] = F[h][x]
  <2>1. Step(g, x) = Step(h, x)
    BY <1>3
  <2>2. F[g][x] = Step(g, x) /\ F[h][x] = Step(h, x)
    OBVIOUS
  <2> HIDE DEF F, Step
  <2> QED BY <2>1, <2>2
<1>4. \E f \in [Clauses -> SUBSET Clauses] : f = F[f]
  <2> HIDE DEF F
  <2> QED BY <1>2, <1>3, RecursiveFunctionExists
<1>5. \E f : f = [x \in Clauses |-> Step(f, x)]
  BY <1>4
<1>6. conditions = [x \in Clauses |-> Step(conditions, x)]
  <2> HIDE DEF Step
  <2> QED BY <1>5
<1>7. \A x : Conditions(x) = conditions[x]
  BY DEF Conditions
<1>8. \A x \in Clauses : conditions[x] = Step(conditions, x)
  <2> HIDE DEF Step, conditions
  <2> QED BY <1>6
<1> QED
  <2> HIDE DEF conditions
  <2> QED BY <1>7, <1>8

LEMMA KeepsAlternativesUnfolds ==
  \A x \in Clauses : KeepsAlternatives(x) <=>
           \/ x.type \in {"none", "condition", "not"}
           \/ x.type = "and" /\ \A y \in Children(x) : KeepsAlternatives(y)
           \/ x.type = "or" /\ \A y \in Children(x) : Compiles(y) /\ KeepsAlternatives(y)
<1> DEFINE Step(g, x) ==
             \/ x.type \in {"none", "condition", "not"}
             \/ x.type = "and" /\ \A y \in Children(x) : g[y]
             \/ x.type = "or" /\ \A y \in Children(x) : Compiles(y) /\ g[y]
           F == [g \in [Clauses -> BOOLEAN] |-> [x \in Clauses |-> Step(g, x)]]
           keeps == CHOOSE f : f = [x \in Clauses |-> Step(f, x)]
<1>1. \A x \in Clauses : \A y \in Children(x) : y \in Clauses
  BY ClauseAssumption
<1>2. F \in [[Clauses -> BOOLEAN] -> [Clauses -> BOOLEAN]]
  OBVIOUS
<1>3. ASSUME NEW g \in [Clauses -> BOOLEAN], NEW h \in [Clauses -> BOOLEAN], NEW x \in Clauses,
             \A y \in Children(x) : g[y] = h[y]
      PROVE  F[g][x] = F[h][x]
  <2>1. Step(g, x) = Step(h, x)
    BY <1>1, <1>3
  <2>2. F[g][x] = Step(g, x) /\ F[h][x] = Step(h, x)
    OBVIOUS
  <2> HIDE DEF F, Step
  <2> QED BY <2>1, <2>2
<1>4. \E f \in [Clauses -> BOOLEAN] : f = F[f]
  <2> HIDE DEF F
  <2> QED BY <1>2, <1>3, RecursiveFunctionExists
<1>5. \E f : f = [x \in Clauses |-> Step(f, x)]
  BY <1>4
<1>6. keeps = [x \in Clauses |-> Step(keeps, x)]
  <2> HIDE DEF Step
  <2> QED BY <1>5
<1>7. \A x : KeepsAlternatives(x) = keeps[x]
  BY DEF KeepsAlternatives
<1>8. \A x \in Clauses : keeps[x] = Step(keeps, x)
  <2> HIDE DEF Step, keeps
  <2> QED BY <1>6
<1> QED
  <2> HIDE DEF keeps
  <2> QED BY <1>1, <1>7, <1>8

-----------------------------------------------------------------------------
(* Whole clauses, in SQL and in memory.                                    *)

LEMMA PartsOfClauses ==
  /\ \A e \in Clauses : \A x \in Children(e) : x \in Clauses /\ x.type # "none" /\ Conditions(x) \subseteq Conditions(e)
  /\ \A e \in Clauses : e.type = "condition" => Conditions(e) = {e} /\ Children(e) = {}
  /\ \A e \in Clauses : e.type = "not" => Children(e) = {e.expr}
  /\ \A e \in Clauses : e.type \in {"and", "or"} => Children(e) # {}
<1>1. \A e \in Clauses : e.type = "condition" => Conditions(e) = {e} /\ Children(e) = {}
  BY ConditionsUnfold DEF Children
<1>2. \A e \in Clauses : \A x \in Children(e) : x \in Clauses /\ x.type # "none"
  BY ClauseAssumption
<1>3. \A e \in Clauses : \A x \in Children(e) : Conditions(x) \subseteq Conditions(e)
  <2> TAKE e \in Clauses
  <2> TAKE x \in Children(e)
  <2>1. e.type # "condition"
    BY <1>1
  <2> QED BY <2>1, ConditionsUnfold
<1>4. \A e \in Clauses : e.type = "not" => Children(e) = {e.expr}
  BY DEF Children
<1> QED BY <1>1, <1>2, <1>3, <1>4, ClauseAssumption

(* What a clause is on a row depends on the fields its conditions name.     *)
LEMMA ClauseReadsItsFields ==
  ASSUME NEW d, NEW f
  PROVE  \A e \in Clauses :
           (\A c \in Conditions(e) : Field(d, c.field) = Field(f, c.field))
             => (EvaluateWhere(e, d) <=> EvaluateWhere(e, f))
<1> DEFINE P == {e \in Clauses :
                   (\A c \in Conditions(e) : Field(d, c.field) = Field(f, c.field))
                     => (EvaluateWhere(e, d) <=> EvaluateWhere(e, f))}
<1>1. \A c : Field(d, c.field) = Field(f, c.field) => (EvaluateCondition(c, d) <=> EvaluateCondition(c, f))
  BY DEF EvaluateCondition
<1>2. ASSUME NEW e \in Clauses, Children(e) \subseteq P,
             \A c \in Conditions(e) : Field(d, c.field) = Field(f, c.field)
      PROVE  EvaluateWhere(e, d) <=> EvaluateWhere(e, f)
  <2>1. \A x \in Children(e) : EvaluateWhere(x, d) <=> EvaluateWhere(x, f)
    BY <1>2, PartsOfClauses
  <2>2. e.type = "condition" => (EvaluateCondition(e, d) <=> EvaluateCondition(e, f))
    BY <1>1, <1>2, PartsOfClauses
  <2>3. e.type = "not" => (EvaluateWhere(e.expr, d) <=> EvaluateWhere(e.expr, f))
    BY <2>1, PartsOfClauses
  <2> QED BY <2>1, <2>2, <2>3, EvaluateWhereUnfolds
<1>3. Clauses \subseteq P
  <2>1. \A e \in Clauses : Children(e) \subseteq P => e \in P
    BY <1>2
  <2> HIDE DEF P
  <2> QED BY <2>1, ClauseInduction
<1> QED BY <1>3

LEMMA PushdownParts ==
  \A e \in Clauses : CanPushdownWhere(e) =>
    /\ e.type \in {"none", "condition", "and", "or"}
    /\ e.type = "condition" => e.op # "exists"
    /\ e.type \in {"and", "or"} => \A x \in Children(e) : CanPushdownWhere(x)
BY CanPushdownUnfolds

(* What can be pushed down whole compiles.                                  *)
LEMMA PushdownCompiles ==
  \A e \in Clauses : CanPushdownWhere(e) /\ e.type # "none" => Compiles(e)
<1> DEFINE P == {e \in Clauses : CanPushdownWhere(e) /\ e.type # "none" => Compiles(e)}
<1>1. ASSUME NEW e \in Clauses, Children(e) \subseteq P, CanPushdownWhere(e), e.type # "none"
      PROVE  Compiles(e)
  <2>1. CASE e.type = "condition"
    BY <1>1, <2>1, PushdownParts, CompilesUnfolds
  <2>2. CASE e.type \in {"and", "or"}
    <3>1. PICK x \in Children(e) : x \in Clauses /\ x.type # "none"
      BY <2>2, PartsOfClauses, ClauseAssumption
    <3>2. Compiles(x)
      BY <1>1, <2>2, <3>1, PushdownParts
    <3> QED BY <2>2, <3>2, CompilesUnfolds
  <2> QED BY <1>1, <2>1, <2>2, PushdownParts
<1>2. Clauses \subseteq P
  <2>1. \A e \in Clauses : Children(e) \subseteq P => e \in P
    BY <1>1
  <2> HIDE DEF P
  <2> QED BY <2>1, ClauseInduction
<1> QED BY <1>2

(* The conditions of the clause e fit the row d; none of them meets an      *)
(* absent value memory accepts.                                             *)
FitsRow(db, statement, e, d) == \A c \in Conditions(e) : c.op = "exists" \/ Fits(db, statement, c, d)
PlainOn(e, d) == \A c \in Conditions(e) : Plain(c, d)

(* A row that SQL selects by a clause pushed down whole satisfies it in     *)
(* memory, where its conditions fit the row: types, names and texts as      *)
(* above (whereExprToSqlClauses against evaluateWhere).                     *)
THEOREM PushedDownSelectsNoMore ==
  ASSUME NEW db, NEW statement, NEW d
  PROVE  \A e \in Clauses :
           CanPushdownWhere(e) /\ FitsRow(db, statement, e, d) /\ SqlWhere(db, statement, e, d) => EvaluateWhere(e, d)
<1> DEFINE P == {e \in Clauses :
                   CanPushdownWhere(e) /\ FitsRow(db, statement, e, d) /\ SqlWhere(db, statement, e, d) => EvaluateWhere(e, d)}
<1>1. ASSUME NEW e \in Clauses, Children(e) \subseteq P,
             CanPushdownWhere(e), FitsRow(db, statement, e, d), SqlWhere(db, statement, e, d)
      PROVE  EvaluateWhere(e, d)
  <2>1. CASE e.type = "none"
    BY <2>1, EvaluateWhereUnfolds
  <2>2. CASE e.type = "condition"
    <3>1. Fits(db, statement, e, d) /\ Compiles(e)
      BY <1>1, <2>2, PartsOfClauses, PushdownParts, PushdownCompiles DEF FitsRow
    <3>2. SqlCondition(db, statement, e, d)
      BY <1>1, <2>2, <3>1, SqlWhereUnfolds
    <3> QED BY <2>2, <3>1, <3>2, SqlSelectsNoMore, EvaluateWhereUnfolds
  <2>3. CASE e.type \in {"and", "or"}
    <3>1. \A x \in Children(e) : SqlWhere(db, statement, x, d) => EvaluateWhere(x, d)
      BY <1>1, <2>3, PartsOfClauses, PushdownParts DEF FitsRow
    <3>2. Compiles(e)
      BY <1>1, <2>3, PushdownCompiles
    <3> QED BY <1>1, <2>3, <3>1, <3>2, SqlWhereUnfolds, EvaluateWhereUnfolds
  <2> QED BY <1>1, <2>1, <2>2, <2>3, PushdownParts
<1>2. Clauses \subseteq P
  <2>1. \A e \in Clauses : Children(e) \subseteq P => e \in P
    BY <1>1
  <2> HIDE DEF P
  <2> QED BY <2>1, ClauseInduction
<1> QED BY <1>2

(* Where the conditions fit and are plain on the row, SQL and memory agree. *)
THEOREM PushedDownAgrees ==
  ASSUME NEW db, NEW statement, NEW d
  PROVE  \A e \in Clauses :
           CanPushdownWhere(e) /\ FitsRow(db, statement, e, d) /\ PlainOn(e, d) => (SqlWhere(db, statement, e, d) <=> EvaluateWhere(e, d))
<1> DEFINE P == {e \in Clauses :
                   CanPushdownWhere(e) /\ FitsRow(db, statement, e, d) /\ PlainOn(e, d)
                     => (SqlWhere(db, statement, e, d) <=> EvaluateWhere(e, d))}
<1>1. ASSUME NEW e \in Clauses, Children(e) \subseteq P,
             CanPushdownWhere(e), FitsRow(db, statement, e, d), PlainOn(e, d)
      PROVE  SqlWhere(db, statement, e, d) <=> EvaluateWhere(e, d)
  <2>1. CASE e.type = "none"
    BY <2>1, EvaluateWhereUnfolds, SqlWhereUnfolds, CompilesUnfolds
  <2>2. CASE e.type = "condition"
    <3>1. Fits(db, statement, e, d) /\ Plain(e, d) /\ Compiles(e)
      BY <1>1, <2>2, PartsOfClauses, PushdownParts, PushdownCompiles DEF FitsRow, PlainOn
    <3>2. SqlCondition(db, statement, e, d) <=> EvaluateCondition(e, d)
      BY <3>1, PlainConditionsAgree
    <3> QED BY <2>2, <3>1, <3>2, SqlWhereUnfolds, EvaluateWhereUnfolds
  <2>3. CASE e.type \in {"and", "or"}
    <3>1. \A x \in Children(e) : SqlWhere(db, statement, x, d) <=> EvaluateWhere(x, d)
      BY <1>1, <2>3, PartsOfClauses, PushdownParts DEF FitsRow, PlainOn
    <3>2. Compiles(e)
      BY <1>1, <2>3, PushdownCompiles
    <3>3. \A x \in Children(e) : Compiles(x)
      <4> TAKE x \in Children(e)
      <4>1. x \in Clauses /\ x.type # "none" /\ CanPushdownWhere(x)
        BY <1>1, <2>3, PartsOfClauses, PushdownParts, ClauseAssumption
      <4> QED BY <4>1, PushdownCompiles
    <3> QED BY <2>3, <3>1, <3>2, <3>3, SqlWhereUnfolds, EvaluateWhereUnfolds
  <2> QED BY <1>1, <2>1, <2>2, <2>3, PushdownParts
<1>2. Clauses \subseteq P
  <2>1. \A e \in Clauses : Children(e) \subseteq P => e \in P
    BY <1>1
  <2> HIDE DEF P
  <2> QED BY <2>1, ClauseInduction
<1> QED BY <1>2

(* Where no or loses an alternative, SQL selects every row that satisfies   *)
(* the clause and that its conditions fit and are plain on, also where      *)
(* exists and not leave no SQL behind                                       *)
(* (whereExprToSqlClauses against evaluateWhere).                           *)
THEOREM AlternativesKept ==
  ASSUME NEW db, NEW statement, NEW d
  PROVE  \A e \in Clauses :
           KeepsAlternatives(e) /\ FitsRow(db, statement, e, d) /\ PlainOn(e, d) /\ EvaluateWhere(e, d) => SqlWhere(db, statement, e, d)
<1> DEFINE P == {e \in Clauses :
                   KeepsAlternatives(e) /\ FitsRow(db, statement, e, d) /\ PlainOn(e, d) /\ EvaluateWhere(e, d) => SqlWhere(db, statement, e, d)}
<1>1. ASSUME NEW e \in Clauses, Children(e) \subseteq P,
             KeepsAlternatives(e), FitsRow(db, statement, e, d), PlainOn(e, d), EvaluateWhere(e, d)
      PROVE  SqlWhere(db, statement, e, d)
  <2>1. CASE e.type \in {"none", "not"}
    <3>1. ~Compiles(e)
      BY <2>1, CompilesUnfolds
    <3> QED BY <3>1, SqlWhereUnfolds
  <2>2. CASE e.type = "condition"
    <3>1. EvaluateCondition(e, d) /\ Plain(e, d) /\ (e.op = "exists" \/ Fits(db, statement, e, d))
      BY <1>1, <2>2, PartsOfClauses, EvaluateWhereUnfolds DEF FitsRow, PlainOn
    <3>2. CASE e.op = "exists"
      <4>1. ~Compiles(e)
        BY <2>2, <3>2, CompilesUnfolds
      <4> QED BY <4>1, SqlWhereUnfolds
    <3>3. CASE Fits(db, statement, e, d)
      <4>1. SqlCondition(db, statement, e, d)
        BY <3>1, <3>3, PlainConditionsAgree
      <4> QED BY <2>2, <4>1, SqlWhereUnfolds
    <3> QED BY <3>1, <3>2, <3>3
  <2>3. CASE e.type \in {"and", "or"}
    <3>1. \A x \in Children(e) : KeepsAlternatives(x) /\ EvaluateWhere(x, d) => SqlWhere(db, statement, x, d)
      BY <1>1, PartsOfClauses DEF FitsRow, PlainOn
    <3>2. \A x \in Children(e) : KeepsAlternatives(x) /\ (e.type = "or" => Compiles(x))
      BY <1>1, <2>3, KeepsAlternativesUnfolds
    <3> QED BY <1>1, <2>3, <3>1, <3>2, SqlWhereUnfolds, EvaluateWhereUnfolds
  <2> QED BY <1>1, <2>1, <2>2, <2>3, EvaluateWhereUnfolds
<1>2. Clauses \subseteq P
  <2>1. \A e \in Clauses : Children(e) \subseteq P => e \in P
    BY <1>1
  <2> HIDE DEF P
  <2> QED BY <2>1, ClauseInduction
<1> QED BY <1>2

(* COUNT and a scan select the same rows by a clause whose fields have      *)
(* their names in COUNT, which are then their names in a scan.              *)
LEMMA CountSelectsTheSame ==
  ASSUME NEW db, NEW d
  PROVE  \A e \in Clauses :
           CanPushdownWhere(e) /\ FitsRow(db, "count", e, d)
             => (SqlWhere(db, "scan", e, d) <=> SqlWhere(db, "count", e, d))
<1> DEFINE P == {e \in Clauses :
                   CanPushdownWhere(e) /\ FitsRow(db, "count", e, d)
                     => (SqlWhere(db, "scan", e, d) <=> SqlWhere(db, "count", e, d))}
<1>1. ASSUME NEW e \in Clauses, Children(e) \subseteq P,
             CanPushdownWhere(e), FitsRow(db, "count", e, d)
      PROVE  SqlWhere(db, "scan", e, d) <=> SqlWhere(db, "count", e, d)
  <2>1. CASE e.type = "none"
    BY <2>1, SqlWhereUnfolds, CompilesUnfolds
  <2>2. CASE e.type = "condition"
    <3>1. Fits(db, "count", e, d)
      BY <1>1, <2>2, PartsOfClauses, PushdownParts DEF FitsRow
    <3>2. SqlName(db, "count", e.field) = e.field
      BY <3>1 DEF Fits
    <3>3. SqlName(db, "scan", e.field) = SqlName(db, "count", e.field)
      BY <3>2 DEF SqlName
    <3>4. SqlCondition(db, "scan", e, d) <=> SqlCondition(db, "count", e, d)
      BY <3>3 DEF SqlCondition
    <3> QED BY <2>2, <3>4, SqlWhereUnfolds
  <2>3. CASE e.type \in {"and", "or"}
    <3>1. \A x \in Children(e) : SqlWhere(db, "scan", x, d) <=> SqlWhere(db, "count", x, d)
      BY <1>1, <2>3, PartsOfClauses, PushdownParts DEF FitsRow
    <3> QED BY <2>3, <3>1, SqlWhereUnfolds
  <2> QED BY <1>1, <2>1, <2>2, <2>3, PushdownParts
<1>2. Clauses \subseteq P
  <2>1. \A e \in Clauses : Children(e) \subseteq P => e \in P
    BY <1>1
  <2> HIDE DEF P
  <2> QED BY <2>1, ClauseInduction
<1> QED BY <1>2

-----------------------------------------------------------------------------
(* Rows by their positions.                                                *)

IsList(s) == s \in Seq({s[i] : i \in DOMAIN s})

LEMMA ListsByLength ==
  ASSUME NEW s, NEW n \in Nat, s = [i \in 1..n |-> s[i]]
  PROVE  IsList(s) /\ Len(s) = n
<1> DEFINE S == {s[i] : i \in DOMAIN s}
<1>1. DOMAIN s = 1..n
  OBVIOUS
<1>2. \A i \in 1..n : s[i] \in S
  BY <1>1
<1> HIDE DEF S
<1>3. s \in [1..n -> S]
  BY <1>2
<1>4. s \in Seq(S) /\ Len(s) = n
  BY <1>3
<1> QED BY <1>4 DEF IsList, S

TotalOn(R, I) ==
  /\ \A i \in I : <<i, i>> \in R
  /\ \A i, j \in I : <<i, j>> \in R \/ <<j, i>> \in R
  /\ \A i, j \in I : <<i, j>> \in R /\ <<j, i>> \in R => i = j
  /\ \A i, j, k \in I : <<i, j>> \in R /\ <<j, k>> \in R => <<i, k>> \in R

(* The list s has the rows at the positions I, each at one place, in the    *)
(* order R.                                                                 *)
Arranges(s, rows, I, R, pos) ==
  /\ IsList(s) /\ Len(s) = Cardinality(I) /\ Cardinality(I) \in Nat
  /\ pos \in Bijection(1..Cardinality(I), I)
  /\ \A k \in 1..Cardinality(I) : s[k] = rows[pos[k]]
  /\ \A k, m \in 1..Cardinality(I) : k <= m <=> <<pos[k], pos[m]>> \in R

LEMMA ArrangedIsOrdered ==
  ASSUME NEW rows, NEW I, IsFiniteSet(I), NEW R, TotalOn(R, I)
  PROVE  \E pos : Arranges(Arranged(rows, I, R), rows, I, R, pos)
<1> DEFINE n == Cardinality(I)
           Below(i) == {j \in I : <<j, i>> \in R}
           place == [i \in I |-> Cardinality(Below(i))]
           pos == [k \in 1..n |-> CHOOSE i \in I : Cardinality(Below(i)) = k]
           s == Arranged(rows, I, R)
<1>1. n \in Nat
  BY FS_CardinalityType
<1>2. \A i \in I : Below(i) \subseteq I /\ IsFiniteSet(Below(i)) /\ i \in Below(i)
                   /\ Cardinality(Below(i)) \in 1..n
  <2> TAKE i \in I
  <2>1. Below(i) \in SUBSET I /\ i \in Below(i)
    BY DEF TotalOn
  <2> HIDE DEF Below
  <2>2. IsFiniteSet(Below(i)) /\ Cardinality(Below(i)) <= n
    BY <2>1, FS_Subset
  <2>3. Cardinality(Below(i)) \in Nat /\ Cardinality(Below(i)) # 0
    BY <2>1, <2>2, FS_EmptySet, FS_CardinalityType
  <2> QED BY <1>1, <2>1, <2>2, <2>3
<1>3. ASSUME NEW i \in I, NEW j \in I, i # j, <<i, j>> \in R
      PROVE  Cardinality(Below(i)) < Cardinality(Below(j))
  <2>1. Below(i) \in SUBSET Below(j)
    BY <1>3 DEF TotalOn
  <2>2. j \in Below(j) /\ j \notin Below(i)
    BY <1>3 DEF TotalOn
  <2> HIDE DEF Below
  <2>3. /\ Cardinality(Below(i)) \in Nat /\ Cardinality(Below(j)) \in Nat
        /\ IsFiniteSet(Below(j))
    BY <1>1, <1>2
  <2>4. Cardinality(Below(i)) <= Cardinality(Below(j)) /\ Cardinality(Below(i)) # Cardinality(Below(j))
    BY <2>1, <2>2, <2>3, FS_Subset
  <2> QED BY <2>3, <2>4
<1>4. place \in [I -> 1..n] /\ \A i \in I : place[i] = Cardinality(Below(i))
  <2> HIDE DEF Below
  <2>1. \A i \in I : Cardinality(Below(i)) \in 1..n
    BY <1>2
  <2> QED BY <2>1
<1>5. \A i, j \in I : i # j => place[i] # place[j]
  <2> TAKE i, j \in I
  <2> HAVE i # j
  <2>1. <<i, j>> \in R \/ <<j, i>> \in R
    BY DEF TotalOn
  <2>2. Cardinality(Below(i)) < Cardinality(Below(j)) \/ Cardinality(Below(j)) < Cardinality(Below(i))
    BY <1>3, <2>1
  <2>3. Cardinality(Below(i)) \in 1..n /\ Cardinality(Below(j)) \in 1..n
    BY <1>2
  <2> HIDE DEF Below, place
  <2> QED BY <1>1, <1>4, <2>2, <2>3
<1>6. \A k \in 1..n : \E i \in I : place[i] = k
  <2> HIDE DEF place
  <2>1. place \in Injection(I, 1..n)
    BY <1>4, <1>5 DEF Injection, IsInjective
  <2>2. IsFiniteSet(1..n) /\ Cardinality(1..n) = n
    BY <1>1, FS_Interval
  <2>3. place \in Surjection(I, 1..n)
    BY <2>1, <2>2, FS_Injection
  <2> QED BY <2>3 DEF Surjection
<1>7. \A k \in 1..n : pos[k] \in I /\ Cardinality(Below(pos[k])) = k
  <2> TAKE k \in 1..n
  <2>1. \E i \in I : Cardinality(Below(i)) = k
    BY <1>4, <1>6
  <2> HIDE DEF Below
  <2> QED BY <2>1
<1>8. \A k \in 1..n : s[k] = rows[pos[k]]
  BY DEF Arranged
<1>9. s = [k \in 1..n |-> rows[pos[k]]]
  BY DEF Arranged
<1>10. IsList(s) /\ Len(s) = n
  <2>1. s = [k \in 1..n |-> s[k]]
    BY <1>8, <1>9
  <2> HIDE DEF s
  <2> QED BY <1>1, <2>1, ListsByLength
<1>11. pos \in [1..n -> I]
  BY <1>7
<1> HIDE DEF pos, s
<1>12. \A k, m \in 1..n : k <= m <=> <<pos[k], pos[m]>> \in R
  <2> TAKE k, m \in 1..n
  <2>1. pos[k] \in I /\ pos[m] \in I /\ Cardinality(Below(pos[k])) = k /\ Cardinality(Below(pos[m])) = m
    BY <1>7
  <2>2. CASE pos[k] = pos[m]
    <3>1. k = m
      BY <2>1, <2>2
    <3> QED BY <2>1, <2>2, <3>1 DEF TotalOn
  <2>3. CASE pos[k] # pos[m]
    <3>1. <<pos[k], pos[m]>> \in R => k < m
      BY <1>3, <2>1, <2>3
    <3>2. <<pos[m], pos[k]>> \in R => m < k
      BY <1>3, <2>1, <2>3
    <3>3. <<pos[k], pos[m]>> \in R \/ <<pos[m], pos[k]>> \in R
      BY <2>1 DEF TotalOn
    <3> HIDE DEF Below
    <3> QED BY <3>1, <3>2, <3>3
  <2> QED BY <2>2, <2>3
<1>13. \A i \in I : \E k \in 1..n : pos[k] = i
  <2> TAKE i \in I
  <2>1. place[i] \in 1..n /\ place[i] = Cardinality(Below(i))
    BY <1>4
  <2>2. pos[place[i]] \in I /\ Cardinality(Below(pos[place[i]])) = place[i]
    BY <1>7, <2>1
  <2>3. place[pos[place[i]]] = place[i]
    BY <1>4, <2>2
  <2> HIDE DEF place, Below
  <2> QED BY <1>5, <2>1, <2>2, <2>3
<1>14. \A k, m \in 1..n : pos[k] = pos[m] => k = m
  BY <1>7
<1>15. pos \in Bijection(1..n, I)
  BY <1>11, <1>13, <1>14 DEF Bijection, Injection, Surjection, IsInjective
<1>16. Arranges(s, rows, I, R, pos)
  BY <1>1, <1>8, <1>10, <1>12, <1>15 DEF Arranges
<1> QED BY <1>16 DEF s

Ascending(I) == {p \in I \X I : p[1] <= p[2]}

LEMMA KeptIsArranged ==
  ASSUME NEW rows, NEW I, I \subseteq Nat, IsFiniteSet(I)
  PROVE  \E pos : Arranges(Kept(rows, I), rows, I, Ascending(I), pos)
<1>1. \A i, j \in I : <<i, j>> \in Ascending(I) <=> i <= j
  BY DEF Ascending
<1>2. TotalOn(Ascending(I), I)
  BY <1>1 DEF TotalOn
<1> QED BY <1>2, ArrangedIsOrdered DEF Kept, Ascending

(* Keeping every row changes nothing.                                       *)
LEMMA KeptWhole ==
  ASSUME NEW s, IsList(s)
  PROVE  Kept(s, DOMAIN s) = s
<1> DEFINE n == Len(s)
           Below(i) == {j \in DOMAIN s : <<j, i>> \in Ascending(DOMAIN s)}
<1>1. n \in Nat /\ DOMAIN s = 1..n /\ s = [i \in 1..n |-> s[i]]
  BY DEF IsList
<1>2. Cardinality(DOMAIN s) = n
  BY <1>1, FS_Interval
<1>3. \A i \in 1..n : Cardinality(Below(i)) = i
  <2> TAKE i \in 1..n
  <2>1. Below(i) = 1..i
    BY <1>1 DEF Ascending
  <2> HIDE DEF Below
  <2>2. i \in Int /\ 1 \in Int /\ i >= 1
    BY <1>1
  <2>3. Cardinality(1..i) = IF 1 > i THEN 0 ELSE i - 1 + 1
    BY <2>2, FS_Interval
  <2> QED BY <2>1, <2>2, <2>3
<1>4. \A k \in 1..n : (CHOOSE i \in DOMAIN s : Cardinality(Below(i)) = k) = k
  <2> HIDE DEF Below
  <2> QED BY <1>1, <1>3
<1>5. Kept(s, DOMAIN s) = [k \in 1..n |-> s[CHOOSE i \in DOMAIN s : Cardinality(Below(i)) = k]]
  BY <1>2 DEF Kept, Arranged, Ascending
<1> HIDE DEF Below
<1> QED BY <1>1, <1>4, <1>5

(* before is the strict part of an order in which rows may tie.             *)
StrictWeak(before, I) ==
  /\ \A i, j \in I : <<i, j>> \in before => <<j, i>> \notin before
  /\ \A i, j, k \in I : <<i, k>> \in before => <<i, j>> \in before \/ <<j, k>> \in before

Stably(before, I) == {p \in I \X I : p \in before \/ (p[1] <= p[2] /\ <<p[2], p[1]>> \notin before)}

LEMMA SortedIsArranged ==
  ASSUME NEW rows, IsList(rows), NEW before, StrictWeak(before, DOMAIN rows)
  PROVE  /\ Cardinality(DOMAIN rows) = Len(rows)
         /\ \E pos : Arranges(Sorted(rows, before), rows, DOMAIN rows, Stably(before, DOMAIN rows), pos)
<1> DEFINE I == DOMAIN rows
<1>1. I = 1..Len(rows) /\ Len(rows) \in Nat
  BY DEF IsList
<1>2. IsFiniteSet(I) /\ Cardinality(I) = Len(rows)
  <2>1. IsFiniteSet(1..Len(rows)) /\ Cardinality(1..Len(rows)) = IF 1 > Len(rows) THEN 0 ELSE Len(rows) - 1 + 1
    BY <1>1, FS_Interval
  <2> QED BY <1>1, <2>1
<1>3. \A i, j \in I : <<i, j>> \in Stably(before, I)
                        <=> <<i, j>> \in before \/ (i <= j /\ <<j, i>> \notin before)
  BY DEF Stably
<1>4. I \subseteq Nat
  BY <1>1
<1> HIDE DEF I
<1>5. TotalOn(Stably(before, I), I)
  <2>1. \A i \in I : <<i, i>> \in Stably(before, I)
    BY <1>3, <1>4 DEF StrictWeak, I
  <2>2. \A i, j \in I : <<i, j>> \in Stably(before, I) \/ <<j, i>> \in Stably(before, I)
    <3> TAKE i, j \in I
    <3>1. i <= j \/ j <= i
      BY <1>4
    <3> QED BY <1>3, <3>1
  <2>3. \A i, j \in I : <<i, j>> \in Stably(before, I) /\ <<j, i>> \in Stably(before, I) => i = j
    BY <1>3, <1>4 DEF StrictWeak, I
  <2>4. \A i, j, k \in I : <<i, j>> \in Stably(before, I) /\ <<j, k>> \in Stably(before, I)
                             => <<i, k>> \in Stably(before, I)
    <3> SUFFICES ASSUME NEW i \in I, NEW j \in I, NEW k \in I,
                        <<i, j>> \in Stably(before, I), <<j, k>> \in Stably(before, I)
                 PROVE  <<i, k>> \in before \/ (i <= k /\ <<k, i>> \notin before)
      BY <1>3
    <3>1. <<i, j>> \in before \/ (i <= j /\ <<j, i>> \notin before)
      BY <1>3
    <3>2. <<j, k>> \in before \/ (j <= k /\ <<k, j>> \notin before)
      BY <1>3
    <3>3. i \in Nat /\ j \in Nat /\ k \in Nat
      BY <1>4
    <3> QED BY <3>1, <3>2, <3>3 DEF StrictWeak, I
  <2> QED BY <2>1, <2>2, <2>3, <2>4 DEF TotalOn
<1> QED BY <1>2, <1>5, ArrangedIsOrdered DEF Sorted, Stably, I

-----------------------------------------------------------------------------
(* Scans.                                                                  *)

ScalarRows(rows) == \A i \in DOMAIN rows : \A f \in DOMAIN rows[i] : rows[i][f] \in ScalarValue

(* The rows of a table, whose texts have a place in the engines' orders.    *)
FlatRows(rows) ==
  \A i \in DOMAIN rows : \A f \in DOMAIN rows[i] :
    rows[i][f] \in ScalarValue /\ \A e \in Engines : Within(e, rows[i][f]) \in Int

LEMMA RowsAreLists ==
  \A s : IsList(Rows(s)) /\ FlatRows(Rows(s))
<1> TAKE s
<1>1. CASE s \in DOMAIN Tables
  BY <1>1, TableAssumption DEF Rows, IsList, FlatRows
<1>2. CASE s \notin DOMAIN Tables
  BY <1>2 DEF Rows, IsList, FlatRows
<1> QED BY <1>1, <1>2

LEMMA SqlOrderIsStrictWeak ==
  ASSUME NEW rows, FlatRows(rows), NEW e \in Engines, NEW orderBy
  PROVE  StrictWeak(SqlBefore(e, orderBy, rows), DOMAIN rows)
<1> DEFINE at(i) == Field(rows[i], SqlName(e, "scan", orderBy.field))
           rank(i) == Rank(e, at(i))
           place(i) == Within(e, at(i))
           less(i, j) == rank(i) < rank(j) \/ (rank(i) = rank(j) /\ place(i) < place(j))
<1>1. \A i \in DOMAIN rows : rank(i) \in Int /\ place(i) \in Int
  <2> TAKE i \in DOMAIN rows
  <2>1. at(i) = Undefined \/ (at(i) \in ScalarValue /\ Within(e, at(i)) \in Int)
    BY DEF FlatRows, Field
  <2> HIDE DEF at
  <2>2. at(i).t \in {"number", "string", "null", "undefined"}
    BY <2>1, Tags
  <2>3. rank(i) \in Int
    BY <2>2 DEF Rank
  <2>4. Within(e, Undefined) \in Int
    BY DEF Within, Undefined
  <2> QED BY <2>1, <2>3, <2>4
<1>2. \A i, j \in DOMAIN rows :
         <<i, j>> \in SqlBefore(e, orderBy, rows)
           <=> /\ orderBy # NoOrder
               /\ IF orderBy.direction = "asc" THEN less(i, j) ELSE less(j, i)
  BY DEF SqlBefore, Precedes
<1> HIDE DEF at, rank, place
<1> QED BY <1>1, <1>2 DEF StrictWeak

(* A page holds rows of the list; without limit and offset it is the list.  *)
LEMMA PageOfList ==
  ASSUME NEW s, IsList(s), NEW offset \in Nat \union {Unset}, NEW limit \in Nat \union {Unset}
  PROVE  /\ IsList(Page(s, offset, limit))
         /\ \A k \in DOMAIN Page(s, offset, limit) :
              \E i \in DOMAIN s : Page(s, offset, limit)[k] = s[i]
         /\ offset = Unset /\ limit = Unset => Page(s, offset, limit) = s
<1> DEFINE first == IF offset = Unset THEN 1 ELSE offset + 1
           last == IF limit = Unset THEN Len(s) ELSE first + limit - 1
           end == IF last < Len(s) THEN last ELSE Len(s)
           page == [i \in 1..(end - first + 1) |-> s[i + first - 1]]
<1>1. Len(s) \in Nat /\ DOMAIN s = 1..Len(s) /\ s = [i \in 1..Len(s) |-> s[i]]
  BY DEF IsList
<1>2. first \in Nat /\ first >= 1 /\ last \in Int /\ end \in Int /\ end <= Len(s)
  BY <1>1 DEF Unset
<1>3. Page(s, offset, limit) = SubSeq(s, first, end)
  BY DEF Page
<1> HIDE DEF first, end
<1>4. SubSeq(s, first, end) = page
  BY <1>1, <1>2
<1>5. IsList(page)
  <2>1. PICK n \in Nat : 1..(end - first + 1) = 1..n
    <3>1. CASE end - first + 1 >= 0
      <4>1. end - first + 1 \in Nat
        BY <1>2, <3>1
      <4> QED BY <4>1
    <3>2. CASE end - first + 1 < 0
      <4>1. \A m \in Int : m < 0 => 1..m = 1..0
        OBVIOUS
      <4> QED BY <1>2, <3>2, <4>1
    <3> QED BY <1>2, <3>1, <3>2
  <2>2. page = [i \in 1..n |-> page[i]]
    BY <2>1
  <2> HIDE DEF page
  <2> QED BY <2>2, ListsByLength
<1>6. \A k \in DOMAIN page : \E i \in DOMAIN s : page[k] = s[i]
  <2> TAKE k \in DOMAIN page
  <2>1. k + first - 1 \in DOMAIN s
    BY <1>1, <1>2
  <2> QED BY <2>1
<1>7. offset = Unset /\ limit = Unset => first = 1 /\ end = Len(s)
  BY <1>1 DEF first, end
<1>8. offset = Unset /\ limit = Unset => page = s
  BY <1>1, <1>7
<1> HIDE DEF page
<1> QED BY <1>3, <1>4, <1>5, <1>6, <1>8

Pageable(q) == q.offset \in Nat \union {Unset} /\ q.limit \in Nat \union {Unset}

LEMMA ListsHaveFiniteDomains ==
  ASSUME NEW s, IsList(s)
  PROVE  DOMAIN s = 1..Len(s) /\ Len(s) \in Nat /\ DOMAIN s \subseteq Nat /\ IsFiniteSet(DOMAIN s)
<1>1. DOMAIN s = 1..Len(s) /\ Len(s) \in Nat
  BY DEF IsList
<1>2. IsFiniteSet(1..Len(s))
  BY <1>1, FS_Interval
<1> QED BY <1>1, <1>2

(* What a filter keeps: a list of rows at the positions it keeps.           *)
LEMMA KeptRows ==
  ASSUME NEW rows, IsList(rows), NEW I \in SUBSET DOMAIN rows
  PROVE  /\ IsList(Kept(rows, I)) /\ Len(Kept(rows, I)) = Cardinality(I) /\ IsFiniteSet(I)
         /\ \A k \in DOMAIN Kept(rows, I) : \E i \in I : Kept(rows, I)[k] = rows[i]
<1>1. I \subseteq Nat /\ IsFiniteSet(I)
  BY ListsHaveFiniteDomains, FS_Subset
<1>2. PICK pos : Arranges(Kept(rows, I), rows, I, Ascending(I), pos)
  BY <1>1, KeptIsArranged
<1>3. IsList(Kept(rows, I)) /\ Len(Kept(rows, I)) = Cardinality(I)
  BY <1>2 DEF Arranges
<1>4. DOMAIN Kept(rows, I) = 1..Cardinality(I)
  BY <1>3, ListsHaveFiniteDomains
<1>5. \A k \in 1..Cardinality(I) : pos[k] \in I /\ Kept(rows, I)[k] = rows[pos[k]]
  BY <1>2 DEF Arranges, Bijection, Injection
<1> QED BY <1>1, <1>3, <1>4, <1>5

(* A sort lists the same rows, as often.                                    *)
LEMMA SortedRows ==
  ASSUME NEW rows, IsList(rows), NEW before, StrictWeak(before, DOMAIN rows)
  PROVE  /\ IsList(Sorted(rows, before)) /\ Len(Sorted(rows, before)) = Len(rows)
         /\ \A k \in DOMAIN Sorted(rows, before) : \E i \in DOMAIN rows : Sorted(rows, before)[k] = rows[i]
<1>1. Cardinality(DOMAIN rows) = Len(rows)
  BY SortedIsArranged
<1>2. PICK pos : Arranges(Sorted(rows, before), rows, DOMAIN rows, Stably(before, DOMAIN rows), pos)
  BY SortedIsArranged
<1>3. IsList(Sorted(rows, before)) /\ Len(Sorted(rows, before)) = Len(rows)
  BY <1>1, <1>2 DEF Arranges
<1>4. DOMAIN Sorted(rows, before) = 1..Len(rows)
  BY <1>3, ListsHaveFiniteDomains
<1>5. \A k \in 1..Len(rows) : pos[k] \in DOMAIN rows /\ Sorted(rows, before)[k] = rows[pos[k]]
  BY <1>1, <1>2 DEF Arranges, Bijection, Injection
<1> QED BY <1>3, <1>4, <1>5

(* The scan in SQL lists rows it selects; without limit and offset it lists *)
(* as many as it selects.                                                   *)
LEMMA SqlScanRows ==
  ASSUME NEW e \in Engines, NEW q, Pageable(q)
  PROVE  /\ IsList(SqlScan(e, q))
         /\ \A k \in DOMAIN SqlScan(e, q) :
              \E i \in SqlMatches(e, "scan", q) : SqlScan(e, q)[k] = Rows(q.from)[i]
         /\ q.offset = Unset /\ q.limit = Unset => Len(SqlScan(e, q)) = Cardinality(SqlMatches(e, "scan", q))
<1> DEFINE rows == Rows(q.from)
           I == SqlMatches(e, "scan", q)
           found == Kept(rows, I)
           before == SqlBefore(e, q.orderBy, found)
           order == Sorted(found, before)
           page == Page(order, q.offset, q.limit)
<1>1. IsList(rows) /\ FlatRows(rows) /\ I \in SUBSET DOMAIN rows
  BY RowsAreLists DEF SqlMatches
<1>2. SqlScan(e, q) = page
  BY DEF SqlScan, SqlPage
<1>3. q.offset \in Nat \union {Unset} /\ q.limit \in Nat \union {Unset}
  BY DEF Pageable
<1> HIDE DEF rows, I
<1>4. /\ IsList(found) /\ Len(found) = Cardinality(I)
      /\ \A k \in DOMAIN found : \E i \in I : found[k] = rows[i]
  BY <1>1, KeptRows
<1> HIDE DEF found
<1>5. FlatRows(found)
  BY <1>1, <1>4 DEF FlatRows
<1>6. StrictWeak(before, DOMAIN found)
  BY <1>5, SqlOrderIsStrictWeak
<1> HIDE DEF before
<1>7. /\ IsList(order) /\ Len(order) = Len(found)
      /\ \A k \in DOMAIN order : \E i \in DOMAIN found : order[k] = found[i]
  BY <1>4, <1>6, SortedRows
<1> HIDE DEF order
<1>8. /\ IsList(page)
      /\ \A k \in DOMAIN page : \E i \in DOMAIN order : page[k] = order[i]
      /\ q.offset = Unset /\ q.limit = Unset => page = order
  BY <1>3, <1>7, PageOfList
<1> HIDE DEF page
<1>9. \A k \in DOMAIN page : \E i \in I : page[k] = rows[i]
  BY <1>4, <1>7, <1>8
<1> QED BY <1>2, <1>4, <1>7, <1>8, <1>9 DEF rows, I

(* Where memory accepts every row SQL selects, the second filter keeps them *)
(* all.                                                                     *)
LEMMA SecondFilterKeepsAll ==
  ASSUME NEW e \in Engines, NEW q, Pageable(q),
         \A i \in SqlMatches(e, "scan", q) : EvaluateWhere(q.where, Rows(q.from)[i])
  PROVE  ScanStep(e, q) = Projected(SqlScan(e, q), q.select)
<1> DEFINE page == SqlScan(e, q)
           I == {i \in DOMAIN page : EvaluateWhere(q.where, page[i])}
<1>1. IsList(page)
  BY SqlScanRows
<1>2. I = DOMAIN page
  <2>1. \A k \in DOMAIN page : \E i \in SqlMatches(e, "scan", q) : page[k] = Rows(q.from)[i]
    BY SqlScanRows
  <2> HIDE DEF page
  <2> QED BY <2>1
<1>3. Kept(page, I) = page
  BY <1>1, <1>2, KeptWhole
<1>4. ScanStep(e, q) = Projected(Kept(page, I), q.select)
  BY DEF ScanStep, PostFilter
<1> QED BY <1>3, <1>4

(* A list of the rows at the positions I in the order R is the only one.    *)
LEMMA ArrangesOnce ==
  ASSUME NEW s, NEW t, NEW rows, NEW I, NEW R, NEW f, NEW g,
         Arranges(s, rows, I, R, f), Arranges(t, rows, I, R, g)
  PROVE  s = t
<1> DEFINE n == Cardinality(I)
           T == {k \in 1..n : f[k] # g[k]}
<1>1. /\ n \in Nat /\ f \in [1..n -> I] /\ g \in [1..n -> I]
      /\ \A k, m \in 1..n : f[k] = f[m] => k = m
      /\ \A k, m \in 1..n : g[k] = g[m] => k = m
      /\ \A i \in I : \E m \in 1..n : f[m] = i
      /\ \A i \in I : \E m \in 1..n : g[m] = i
  BY DEF Arranges, Bijection, Injection, Surjection, IsInjective
<1>2. /\ \A k, m \in 1..n : k <= m <=> <<f[k], f[m]>> \in R
      /\ \A k, m \in 1..n : k <= m <=> <<g[k], g[m]>> \in R
      /\ \A k \in 1..n : s[k] = rows[f[k]] /\ t[k] = rows[g[k]]
  BY DEF Arranges
<1>3. IsList(s) /\ IsList(t) /\ Len(s) = n /\ Len(t) = n
  BY DEF Arranges
<1> HIDE DEF n
<1>4. ASSUME T # {} PROVE FALSE
  <2>1. T \subseteq Nat
    BY <1>1
  <2>2. PICK k \in T : \A j \in T : k <= j
    <3> HIDE DEF T
    <3> QED BY <1>4, <2>1, NatMinimum
  <2>3. k \in 1..n /\ f[k] # g[k] /\ f[k] \in I /\ g[k] \in I
    BY <1>1, <2>2
  <2>4. PICK m \in 1..n : g[m] = f[k]
    BY <1>1, <2>3
  <2>5. PICK l \in 1..n : f[l] = g[k]
    BY <1>1, <2>3
  <2>6. \A j \in 1..n : j < k => f[j] = g[j]
    BY <1>1, <2>2, <2>3
  <2>7. ~(m < k) /\ m # k
    BY <1>1, <2>3, <2>4, <2>6
  <2>8. ~(l < k) /\ l # k
    BY <1>1, <2>3, <2>5, <2>6
  <2>9. k <= l /\ ~(m <= k)
    BY <1>1, <2>3, <2>7, <2>8
  <2>10. <<f[k], f[l]>> \in R
    BY <1>2, <2>3, <2>9
  <2>11. <<g[m], g[k]>> \in R
    BY <2>4, <2>5, <2>10
  <2> QED BY <1>2, <2>3, <2>9, <2>11
<1>5. \A k \in 1..n : s[k] = t[k]
  BY <1>2, <1>4
<1>6. s = [k \in 1..n |-> s[k]] /\ t = [k \in 1..n |-> t[k]]
  BY <1>3 DEF IsList
<1> QED BY <1>5, <1>6

(* Keeping some of the rows keeps their order.                              *)
LEMMA KeptOfArranged ==
  ASSUME NEW s, NEW rows, NEW I, NEW R, NEW f, Arranges(s, rows, I, R, f),
         NEW J \in SUBSET I, NEW K, K = {k \in DOMAIN s : f[k] \in J}
  PROVE  \E g : Arranges(Kept(s, K), rows, J, R, g)
<1> DEFINE n == Cardinality(I)
           m == Cardinality(K)
           kept == Kept(s, K)
<1>1. IsList(s) /\ DOMAIN s = 1..n /\ K \subseteq 1..n /\ K \subseteq Nat /\ IsFiniteSet(K)
  <2>1. IsList(s) /\ DOMAIN s = 1..n /\ DOMAIN s \subseteq Nat /\ IsFiniteSet(DOMAIN s)
    BY ListsHaveFiniteDomains DEF Arranges
  <2>2. K \in SUBSET DOMAIN s
    OBVIOUS
  <2> QED BY <2>1, <2>2, FS_Subset
<1>2. PICK h : Arranges(kept, s, K, Ascending(K), h)
  BY <1>1, KeptIsArranged
<1>3. /\ f \in [1..n -> I]
      /\ \A k, l \in 1..n : f[k] = f[l] => k = l
      /\ \A i \in I : \E k \in 1..n : f[k] = i
      /\ \A k, l \in 1..n : k <= l <=> <<f[k], f[l]>> \in R
      /\ \A k \in 1..n : s[k] = rows[f[k]]
  BY DEF Arranges, Bijection, Injection, Surjection, IsInjective
<1>4. /\ IsList(kept) /\ Len(kept) = m /\ m \in Nat
      /\ h \in [1..m -> K]
      /\ \A k, l \in 1..m : h[k] = h[l] => k = l
      /\ \A i \in K : \E k \in 1..m : h[k] = i
      /\ \A k, l \in 1..m : k <= l <=> <<h[k], h[l]>> \in Ascending(K)
      /\ \A k \in 1..m : kept[k] = s[h[k]]
  BY <1>2 DEF Arranges, Bijection, Injection, Surjection, IsInjective
<1>5. \A i \in K : i \in 1..n /\ f[i] \in J
  BY <1>1
<1>6. \A i \in J : \E k \in K : f[k] = i
  BY <1>1, <1>3
<1>7. Cardinality(J) = m
  <2> DEFINE p == [k \in K |-> f[k]]
  <2>1. p \in Bijection(K, J)
    BY <1>3, <1>5, <1>6 DEF Bijection, Injection, Surjection, IsInjective
  <2>2. ExistsBijection(K, J)
    BY <2>1 DEF ExistsBijection
  <2> QED BY <1>1, <2>2, FS_Bijection
<1> DEFINE g == [k \in 1..m |-> f[h[k]]]
<1> HIDE DEF n, m, kept
<1>8. g \in [1..m -> J] /\ \A k \in 1..m : g[k] = f[h[k]] /\ h[k] \in K
  BY <1>4, <1>5
<1> HIDE DEF g
<1>9. \A k, l \in 1..m : g[k] = g[l] => k = l
  BY <1>3, <1>4, <1>5, <1>8
<1>10. \A i \in J : \E k \in 1..m : g[k] = i
  BY <1>4, <1>6, <1>8
<1>11. g \in Bijection(1..m, J)
  BY <1>8, <1>9, <1>10 DEF Bijection, Injection, Surjection, IsInjective
<1>12. \A k \in 1..m : kept[k] = rows[g[k]]
  BY <1>3, <1>4, <1>5, <1>8
<1>13. \A k, l \in 1..m : k <= l <=> <<g[k], g[l]>> \in R
  <2> TAKE k, l \in 1..m
  <2>1. h[k] \in K /\ h[l] \in K /\ h[k] \in 1..n /\ h[l] \in 1..n /\ g[k] = f[h[k]] /\ g[l] = f[h[l]]
    BY <1>5, <1>8
  <2>2. k <= l <=> h[k] <= h[l]
    BY <1>4, <2>1 DEF Ascending
  <2> QED BY <1>3, <2>1, <2>2
<1>14. Arranges(kept, rows, J, R, g)
  BY <1>4, <1>7, <1>11, <1>12, <1>13 DEF Arranges
<1> QED BY <1>14 DEF kept

(* Rows that are kept and then sorted come in the order of all rows.        *)
LEMMA SortedKept ==
  ASSUME NEW rows, IsList(rows), FlatRows(rows), NEW J \in SUBSET DOMAIN rows,
         NEW e \in Engines, NEW orderBy,
         NEW s, s = Kept(rows, J)
  PROVE  \E g : Arranges(Sorted(s, SqlBefore(e, orderBy, s)), rows, J,
                         Stably(SqlBefore(e, orderBy, rows), DOMAIN rows), g)
<1> DEFINE n == Cardinality(J)
           all == SqlBefore(e, orderBy, rows)
           before == SqlBefore(e, orderBy, s)
           order == Sorted(s, before)
<1>1. IsFiniteSet(J) /\ J \subseteq Nat /\ IsList(s) /\ Len(s) = n
      /\ \A k \in DOMAIN s : \E i \in J : s[k] = rows[i]
  BY KeptRows, ListsHaveFiniteDomains
<1>2. PICK f : Arranges(s, rows, J, Ascending(J), f)
  BY <1>1, KeptIsArranged
<1>3. StrictWeak(before, DOMAIN s)
  <2>1. FlatRows(s)
    BY <1>1 DEF FlatRows
  <2> QED BY <2>1, SqlOrderIsStrictWeak
<1> HIDE DEF n
<1>4. DOMAIN s = 1..n /\ n \in Nat /\ Cardinality(DOMAIN s) = n
  <2> HIDE DEF before
  <2> QED BY <1>1, <1>3, SortedIsArranged, ListsHaveFiniteDomains
<1>5. PICK h : Arranges(order, s, DOMAIN s, Stably(before, DOMAIN s), h)
  <2> HIDE DEF before
  <2> QED BY <1>1, <1>3, SortedIsArranged
<1>6. /\ f \in [1..n -> J]
      /\ \A k, l \in 1..n : f[k] = f[l] => k = l
      /\ \A i \in J : \E k \in 1..n : f[k] = i
      /\ \A k, l \in 1..n : k <= l <=> <<f[k], f[l]>> \in Ascending(J)
      /\ \A k \in 1..n : s[k] = rows[f[k]]
  BY <1>2 DEF Arranges, Bijection, Injection, Surjection, IsInjective, n
<1> HIDE DEF order, before, all
<1>7. /\ IsList(order) /\ Len(order) = n
      /\ h \in [1..n -> 1..n]
      /\ \A k, l \in 1..n : h[k] = h[l] => k = l
      /\ \A i \in 1..n : \E k \in 1..n : h[k] = i
      /\ \A k, l \in 1..n : k <= l <=> <<h[k], h[l]>> \in Stably(before, DOMAIN s)
      /\ \A k \in 1..n : order[k] = s[h[k]]
  BY <1>4, <1>5 DEF Arranges, Bijection, Injection, Surjection, IsInjective
<1>8. \A a, b \in 1..n : <<a, b>> \in before <=> <<f[a], f[b]>> \in all
  <2> TAKE a, b \in 1..n
  <2>1. f[a] \in DOMAIN rows /\ f[b] \in DOMAIN rows /\ s[a] = rows[f[a]] /\ s[b] = rows[f[b]]
    BY <1>6
  <2> QED BY <1>4, <2>1 DEF before, all, SqlBefore
<1>9. \A a, b \in 1..n : <<a, b>> \in Stably(before, DOMAIN s) <=> <<f[a], f[b]>> \in Stably(all, DOMAIN rows)
  <2> TAKE a, b \in 1..n
  <2>1. f[a] \in J /\ f[b] \in J /\ f[a] \in DOMAIN rows /\ f[b] \in DOMAIN rows
    BY <1>6
  <2>2. a <= b <=> f[a] <= f[b]
    BY <1>6, <2>1 DEF Ascending
  <2>3. (<<a, b>> \in before <=> <<f[a], f[b]>> \in all) /\ (<<b, a>> \in before <=> <<f[b], f[a]>> \in all)
    BY <1>8
  <2> QED BY <1>4, <2>1, <2>2, <2>3 DEF Stably
<1> DEFINE g == [k \in 1..n |-> f[h[k]]]
<1>10. g \in [1..n -> J] /\ \A k \in 1..n : g[k] = f[h[k]] /\ h[k] \in 1..n
  BY <1>6, <1>7
<1> HIDE DEF g
<1>11. \A k, l \in 1..n : g[k] = g[l] => k = l
  BY <1>6, <1>7, <1>10
<1>12. \A i \in J : \E k \in 1..n : g[k] = i
  BY <1>6, <1>7, <1>10
<1>13. g \in Bijection(1..n, J)
  BY <1>10, <1>11, <1>12 DEF Bijection, Injection, Surjection, IsInjective
<1>14. \A k \in 1..n : order[k] = rows[g[k]]
  <2> TAKE k \in 1..n
  <2>1. h[k] \in 1..n /\ g[k] = f[h[k]] /\ order[k] = s[h[k]]
    BY <1>7, <1>10
  <2> QED BY <1>6, <2>1
<1>15. \A k, l \in 1..n : k <= l <=> <<g[k], g[l]>> \in Stably(all, DOMAIN rows)
  <2> TAKE k, l \in 1..n
  <2>1. h[k] \in 1..n /\ h[l] \in 1..n /\ g[k] = f[h[k]] /\ g[l] = f[h[l]]
    BY <1>10
  <2>2. k <= l <=> <<h[k], h[l]>> \in Stably(before, DOMAIN s)
    BY <1>7
  <2> QED BY <1>9, <2>1, <2>2
<1>16. Arranges(order, rows, J, Stably(all, DOMAIN rows), g)
  BY <1>4, <1>7, <1>13, <1>14, <1>15 DEF Arranges, n
<1> QED BY <1>16 DEF order, before, all

(* Without a page, filtering what SQL selected and sorted gives the matches *)
(* sorted, where SQL selected them all.                                     *)
LEMMA UnpagedScan ==
  ASSUME NEW e \in Engines, NEW q, q.limit = Unset, q.offset = Unset, Matches(q) \subseteq SqlMatches(e, "scan", q)
  PROVE  ScanStep(e, q) = Projected(SqlPage(e, q, Kept(Rows(q.from), Matches(q))), q.select)
<1> DEFINE rows == Rows(q.from)
           S == SqlMatches(e, "scan", q)
           M == Matches(q)
           R == Stably(SqlBefore(e, q.orderBy, rows), DOMAIN rows)
           Listing(J) == Sorted(Kept(rows, J), SqlBefore(e, q.orderBy, Kept(rows, J)))
           K == {k \in DOMAIN Listing(S) : EvaluateWhere(q.where, Listing(S)[k])}
<1>1. /\ IsList(rows) /\ FlatRows(rows)
      /\ S \in SUBSET DOMAIN rows /\ M \in SUBSET S /\ M \in SUBSET DOMAIN rows
      /\ \A i \in DOMAIN rows : i \in M <=> EvaluateWhere(q.where, rows[i])
  BY RowsAreLists DEF SqlMatches, Matches
<1>2. ScanStep(e, q) = Projected(Kept(SqlPage(e, q, Kept(rows, S)),
                         {k \in DOMAIN SqlPage(e, q, Kept(rows, S)) :
                            EvaluateWhere(q.where, SqlPage(e, q, Kept(rows, S))[k])}), q.select)
  BY DEF ScanStep, PostFilter, SqlScan
<1> HIDE DEF rows, S, M
<1>3. ASSUME NEW J \in SUBSET DOMAIN rows
      PROVE  /\ SqlPage(e, q, Kept(rows, J)) = Listing(J)
             /\ \E g : Arranges(Listing(J), rows, J, R, g)
  <2>1. PICK g : Arranges(Listing(J), rows, J, R, g)
    BY <1>1, SortedKept
  <2>2. IsList(Listing(J))
    BY <2>1 DEF Arranges
  <2>3. SqlPage(e, q, Kept(rows, J)) = Page(Listing(J), Unset, Unset)
    BY DEF SqlPage
  <2> HIDE DEF Listing
  <2>4. Page(Listing(J), Unset, Unset) = Listing(J)
    BY <2>2, PageOfList
  <2> QED BY <2>1, <2>3, <2>4
<1> HIDE DEF R, Listing
<1>4. PICK f : Arranges(Listing(S), rows, S, R, f)
  BY <1>1, <1>3
<1>5. K = {k \in DOMAIN Listing(S) : f[k] \in M}
  <2>1. \A k \in DOMAIN Listing(S) : f[k] \in S /\ Listing(S)[k] = rows[f[k]]
    <3>1. DOMAIN Listing(S) = 1..Cardinality(S)
      BY <1>4, ListsHaveFiniteDomains DEF Arranges
    <3> QED BY <1>4, <3>1 DEF Arranges, Bijection, Injection
  <2> QED BY <1>1, <2>1
<1>6. PICK g : Arranges(Kept(Listing(S), K), rows, M, R, g)
  <2> HIDE DEF K
  <2> QED BY <1>1, <1>4, <1>5, KeptOfArranged
<1>7. PICK h : Arranges(Listing(M), rows, M, R, h)
  BY <1>1, <1>3
<1>8. Kept(Listing(S), K) = Listing(M)
  <2> HIDE DEF K
  <2> QED BY <1>6, <1>7, ArrangesOnce
<1>9. ScanStep(e, q) = Projected(Kept(Listing(S), K), q.select)
  BY <1>1, <1>2, <1>3
<1>10. SqlPage(e, q, Kept(rows, M)) = Listing(M)
  BY <1>1, <1>3
<1> HIDE DEF K
<1> QED BY <1>8, <1>9, <1>10 DEF rows, M

-----------------------------------------------------------------------------
(* Texts and tokens.                                                        *)

(* The lexemes by their kind.                                               *)
LEMMA RecordsOfLexemes ==
  ASSUME NEW A, NEW B, NEW l \in [lex : A, text : B]
  PROVE  l = [lex |-> l.lex, text |-> l.text] /\ l.lex \in A /\ l.text \in B
OBVIOUS

LEMMA LexemesByKind ==
  ASSUME NEW l \in Lexeme
  PROVE  \/ l.lex = "quoted" /\ l.text \in Nat /\ l = [lex |-> "quoted", text |-> l.text]
         \/ l.lex = "digits" /\ l.text \in Int /\ l = Digits(l.text)
         \/ l.lex = "symbol" /\ l.text \in Operators \cup {"(", ")", ","} /\ l = Symbol(l.text)
         \/ l.lex = "word" /\ l.text \in Seq(Parts) \ {<<>>} /\ l = Name(l.text)
<1>1. CASE l \in [lex : {"word"}, text : Seq(Parts) \ {<<>>, <<"true">>, <<"false">>}]
  BY <1>1, RecordsOfLexemes DEF Name
<1>2. CASE l \in [lex : {"symbol"}, text : Operators \cup {"(", ")", ","}]
  BY <1>2, RecordsOfLexemes DEF Symbol
<1>3. CASE l \in [lex : {"quoted"}, text : Nat]
  BY <1>3, RecordsOfLexemes
<1>4. CASE l \in [lex : {"digits"}, text : Int]
  BY <1>4, RecordsOfLexemes DEF Digits
<1> QED BY <1>1, <1>2, <1>3, <1>4 DEF Lexeme

(* The words with a meaning of their own.                                   *)
LEMMA ReservedWords ==
  /\ \A k : Word(k).lex = "word" /\ Word(k).text[1] = k
  /\ \A k \in Keywords : k # "null" /\ k # "contains" /\ Word(k) \in Lexeme
  /\ Word("null") \in Lexeme /\ Word("contains") \in Lexeme
  /\ \A j, k : Word(j) = Word(k) => j = k
<1>1. \A k : Word(k) = [lex |-> "word", text |-> <<k>>] /\ Word(k).lex = "word" /\ Word(k).text[1] = k
  BY DEF Word
<1>2. \A k \in Keywords : k # "null" /\ k # "contains" /\ k # "true" /\ k # "false"
  BY DEF Keywords
<1>3. ASSUME NEW k \in Parts, k # "true", k # "false"
      PROVE  Word(k) \in Lexeme
  <2>1. <<k>> \in Seq(Parts) /\ <<k>> # <<>> /\ <<k>>[1] # <<"true">>[1] /\ <<k>>[1] # <<"false">>[1]
    BY <1>3
  <2> QED BY <1>1, <2>1 DEF Lexeme
<1> QED BY <1>1, <1>2, <1>3, PartsAssumption

LEMMA TokensByKind ==
  ASSUME NEW l
  PROVE  /\ l.lex = "quoted" => Token(l) = [kind |-> "string", value |-> String(l.text)]
         /\ l.lex = "digits" => Token(l) = [kind |-> "number", value |-> Number(l.text)]
         /\ l.lex = "symbol" => Token(l) = [kind |-> SymbolKind(l.text), value |-> l.text]
         /\ l = Word("null") => Token(l) = [kind |-> "null", value |-> Null]
         /\ l = Word("contains") => Token(l) = [kind |-> "op", value |-> "contains"]
         /\ \A k \in Keywords : l = Word(k) => Token(l) = [kind |-> "keyword", value |-> k]
         /\ l.lex = "word" /\ l # Word("null") /\ l # Word("contains") /\ l \notin {Word(k) : k \in Keywords}
              => Token(l) = [kind |-> "ident", value |-> l.text]
<1>1. l.lex # "word" => l # Word("null") /\ l # Word("contains") /\ l \notin {Word(k) : k \in Keywords}
  BY ReservedWords
<1>2. l.lex = "quoted" => Token(l) = [kind |-> "string", value |-> String(l.text)]
  BY <1>1 DEF Token
<1>3. l.lex = "digits" => Token(l) = [kind |-> "number", value |-> Number(l.text)]
  BY <1>1 DEF Token
<1>4. l.lex = "symbol" => Token(l) = [kind |-> SymbolKind(l.text), value |-> l.text]
  BY <1>1 DEF Token
<1>5. ASSUME l = Word("null")
      PROVE  Token(l) = [kind |-> "null", value |-> Null]
  <2>1. l.lex = "word" /\ l # Word("contains") /\ l \notin {Word(k) : k \in Keywords}
    BY <1>5, ReservedWords
  <2> QED BY <1>5, <2>1 DEF Token
<1>6. ASSUME l = Word("contains")
      PROVE  Token(l) = [kind |-> "op", value |-> "contains"]
  <2>1. l.lex = "word" /\ l # Word("null") /\ l \notin {Word(k) : k \in Keywords}
    BY <1>6, ReservedWords
  <2> QED BY <1>6, <2>1 DEF Token
<1>7. ASSUME NEW k \in Keywords, l = Word(k)
      PROVE  Token(l) = [kind |-> "keyword", value |-> k]
  <2>1. l.lex = "word" /\ l # Word("null") /\ l # Word("contains") /\ l \in {Word(j) : j \in Keywords} /\ l.text[1] = k
    BY <1>7, ReservedWords
  <2> QED BY <2>1 DEF Token
<1>8. ASSUME l.lex = "word", l # Word("null"), l # Word("contains"), l \notin {Word(k) : k \in Keywords}
      PROVE  Token(l) = [kind |-> "ident", value |-> l.text]
  BY <1>8 DEF Token
<1> QED BY <1>2, <1>3, <1>4, <1>5, <1>6, <1>7, <1>8

LEMMA SymbolKinds ==
  /\ SymbolKind("(") = "lparen" /\ SymbolKind(")") = "rparen" /\ SymbolKind(",") = "comma"
  /\ \A o \in Operators : SymbolKind(o) = "op"
BY DEF SymbolKind, Operators

(* What a token says of the lexeme it was made of.                          *)
Lexed(l, t) ==
  /\ t.kind \in {"string", "number", "null", "op", "keyword", "ident", "lparen", "rparen", "comma"}
  /\ t.kind = "string" => t.value \in StringValue
  /\ t.kind = "number" => l.lex = "digits" /\ t.value = Number(l.text) /\ l.text \in Int
  /\ t.kind = "null" => t.value = Null
  /\ t.kind = "op" => t.value \in Operators \cup {"contains"}
  /\ t.kind = "keyword" => t.value \in Keywords /\ l = Word(t.value)
  /\ t.kind = "ident" => IsName(t.value) /\ l = Name(t.value)
  /\ t.kind = "lparen" => l = Symbol("(")
  /\ t.kind = "rparen" => l = Symbol(")")

LEMMA TokensOfLexemes ==
  ASSUME NEW l \in Lexeme
  PROVE  Lexed(l, Token(l))
<1>1. CASE l.lex = "quoted" /\ l.text \in Nat
  <2>1. Token(l) = [kind |-> "string", value |-> String(l.text)] /\ String(l.text) \in StringValue
    BY <1>1, TokensByKind DEF String, StringValue
  <2> QED BY <2>1 DEF Lexed
<1>2. CASE l.lex = "digits" /\ l.text \in Int
  BY <1>2, TokensByKind DEF Lexed
<1>3. CASE l.lex = "symbol" /\ l.text \in Operators \cup {"(", ")", ","} /\ l = Symbol(l.text)
  <2>1. Token(l) = [kind |-> SymbolKind(l.text), value |-> l.text]
    BY <1>3, TokensByKind
  <2>2. Token(l).kind = SymbolKind(l.text) /\ Token(l).value = l.text
    BY <2>1
  <2>3. CASE l.text \in Operators
    BY <2>2, <2>3, SymbolKinds DEF Lexed
  <2>4. CASE l.text = "("
    BY <1>3, <2>2, <2>4, SymbolKinds DEF Lexed
  <2>5. CASE l.text = ")"
    BY <1>3, <2>2, <2>5, SymbolKinds DEF Lexed
  <2>6. CASE l.text = ","
    BY <2>2, <2>6, SymbolKinds DEF Lexed
  <2> QED BY <1>3, <2>3, <2>4, <2>5, <2>6
<1>4. CASE l.lex = "word" /\ l = Name(l.text)
  <2>2. CASE l = Word("null")
    <3>1. Token(l) = [kind |-> "null", value |-> Null]
      BY <2>2, TokensByKind
    <3> QED BY <3>1 DEF Lexed
  <2>3. CASE l = Word("contains")
    <3>1. Token(l) = [kind |-> "op", value |-> "contains"]
      BY <2>3, TokensByKind
    <3> QED BY <3>1 DEF Lexed
  <2>4. CASE l \in {Word(k) : k \in Keywords}
    <3>1. PICK k \in Keywords : l = Word(k)
      BY <2>4
    <3>4. Token(l) = [kind |-> "keyword", value |-> k]
      BY <3>1, TokensByKind
    <3> QED BY <3>1, <3>4 DEF Lexed
  <2>5. CASE l # Word("null") /\ l # Word("contains") /\ l \notin {Word(k) : k \in Keywords}
    <3>1. Token(l) = [kind |-> "ident", value |-> l.text]
      BY <1>4, <2>5, TokensByKind
    <3>2. IsName(l.text)
      BY <1>4, <3>1 DEF IsName
    <3> QED BY <1>4, <3>1, <3>2 DEF Lexed
  <2> QED BY <2>2, <2>3, <2>4, <2>5
<1> QED BY <1>1, <1>2, <1>3, <1>4, LexemesByKind

LEMMA LexemesToTokens ==
  /\ \A k \in Keywords : Word(k) \in Lexeme /\ Token(Word(k)) = [kind |-> "keyword", value |-> k]
  /\ Word("null") \in Lexeme /\ Token(Word("null")) = [kind |-> "null", value |-> Null]
  /\ Word("contains") \in Lexeme /\ Token(Word("contains")) = [kind |-> "op", value |-> "contains"]
  /\ \A o \in Operators : Symbol(o) \in Lexeme /\ Token(Symbol(o)) = [kind |-> "op", value |-> o]
  /\ Symbol("(") \in Lexeme /\ Token(Symbol("(")) = [kind |-> "lparen", value |-> "("]
  /\ Symbol(")") \in Lexeme /\ Token(Symbol(")")) = [kind |-> "rparen", value |-> ")"]
  /\ Comma \in Lexeme /\ Token(Comma).kind = "comma"
  /\ \A n \in Int : Digits(n) \in Lexeme /\ Token(Digits(n)) = [kind |-> "number", value |-> Number(n)]
  /\ \A n \in Nat : LET l == [lex |-> "quoted", text |-> n]
                    IN  l \in Lexeme /\ Token(l) = [kind |-> "string", value |-> String(n)]
  /\ \A f : IsName(f) => Name(f) \in Lexeme /\ Token(Name(f)) = [kind |-> "ident", value |-> f]
<1>1. \A c : Symbol(c).lex = "symbol" /\ Symbol(c).text = c
  BY DEF Symbol
<1>2. \A c \in Operators \cup {"(", ")", ","} : Symbol(c) \in Lexeme
  BY DEF Symbol, Lexeme
<1>3. \A c : Token(Symbol(c)) = [kind |-> SymbolKind(c), value |-> c]
  BY <1>1, TokensByKind
<1>4. \A n \in Int : Digits(n) \in Lexeme /\ Digits(n).lex = "digits" /\ Digits(n).text = n
  BY DEF Digits, Lexeme
<1>5. ASSUME NEW n \in Nat
      PROVE  LET l == [lex |-> "quoted", text |-> n]
             IN  l \in Lexeme /\ Token(l) = [kind |-> "string", value |-> String(n)]
  <2> DEFINE l == [lex |-> "quoted", text |-> n]
  <2>1. l \in Lexeme /\ l.lex = "quoted" /\ l.text = n
    BY DEF Lexeme
  <2> HIDE DEF l
  <2>2. Token(l) = [kind |-> "string", value |-> String(n)]
    BY <2>1, TokensByKind
  <2> QED BY <2>1, <2>2 DEF l
<1>8. ASSUME NEW f, IsName(f)
      PROVE  Name(f) \in Lexeme /\ Token(Name(f)) = [kind |-> "ident", value |-> f]
  <2>1. Name(f).lex = "word" /\ Name(f).text = f /\ Name(f) \in Lexeme /\ Token(Name(f)).kind = "ident"
    BY <1>8 DEF Name, IsName
  <2>2. Name(f) # Word("null") /\ Name(f) # Word("contains")
    <3>1. Token(Word("null")).kind = "null" /\ Token(Word("contains")).kind = "op"
      BY TokensByKind
    <3> QED BY <2>1, <3>1
  <2>3. Name(f) \notin {Word(k) : k \in Keywords}
    <3>1. \A k \in Keywords : Token(Word(k)).kind = "keyword"
      BY TokensByKind
    <3> QED BY <2>1, <3>1
  <2> QED BY <2>1, <2>2, <2>3, TokensByKind
<1>9. /\ \A k \in Keywords : Token(Word(k)) = [kind |-> "keyword", value |-> k]
      /\ Token(Word("null")) = [kind |-> "null", value |-> Null]
      /\ Token(Word("contains")) = [kind |-> "op", value |-> "contains"]
  BY TokensByKind
<1>10. \A n \in Int : Token(Digits(n)) = [kind |-> "number", value |-> Number(n)]
  BY <1>4, TokensByKind
<1>11. Comma \in Lexeme /\ Token(Comma).kind = "comma"
  <2>1. Comma \in Lexeme
    BY <1>2 DEF Comma
  <2>2. \A c : Token(Symbol(c)).kind = SymbolKind(c)
    BY <1>3
  <2>3. Token(Comma).kind = SymbolKind(",")
    BY <2>2, Zenon DEF Comma
  <2> QED BY <2>1, <2>3, SymbolKinds
<1>12. /\ Symbol("(") \in Lexeme /\ Token(Symbol("(")) = [kind |-> "lparen", value |-> "("]
       /\ Symbol(")") \in Lexeme /\ Token(Symbol(")")) = [kind |-> "rparen", value |-> ")"]
  BY <1>2, <1>3, SymbolKinds
<1>13. \A o \in Operators : Symbol(o) \in Lexeme /\ Token(Symbol(o)) = [kind |-> "op", value |-> o]
  BY <1>2, <1>3, SymbolKinds
<1> QED BY <1>11, <1>12, <1>13, <1>4, <1>5, <1>8, <1>9, <1>10, ReservedWords

(* The tokens of a text: those of its lexemes, and the end.                 *)
IsTokens(ts) ==
  /\ Len(ts) \in Nat \ {0} /\ DOMAIN ts = 1..Len(ts)
  /\ \A i \in 1..Len(ts) - 1 : \E l \in Lexeme : ts[i] = Token(l)
  /\ ts[Len(ts)].kind = "eof"

LEMMA TextTokens ==
  ASSUME NEW t \in Seq(Lexeme)
  PROVE  /\ IsTokens(Tokenize(t)) /\ Len(Tokenize(t)) = Len(t) + 1
         /\ \A i \in 1..Len(t) : Tokenize(t)[i] = Token(t[i])
<1> DEFINE body == [i \in 1..Len(t) |-> Token(t[i])]
           eof == [kind |-> "eof", value |-> ""]
           S == {Token(l) : l \in Lexeme} \cup {eof}
<1>1. eof.kind = "eof" /\ eof \in S /\ \A l \in Lexeme : Token(l) \in S
  OBVIOUS
<1>2. Tokenize(t) = body \o <<eof>>
  BY DEF Tokenize
<1>3. Len(t) \in Nat /\ \A i \in 1..Len(t) : t[i] \in Lexeme
  OBVIOUS
<1>4. \A i \in 1..Len(t) : body[i] = Token(t[i]) /\ t[i] \in Lexeme
  BY <1>3
<1> HIDE DEF eof, S
<1>5. body \in [1..Len(t) -> S]
  BY <1>1, <1>3
<1>6. body \in Seq(S) /\ Len(body) = Len(t)
  BY <1>3, <1>5
<1> HIDE DEF body
<1>7. <<eof>> \in Seq(S) /\ Len(<<eof>>) = 1 /\ <<eof>>[1] = eof
  BY <1>1
<1>8. /\ Len(body \o <<eof>>) = Len(t) + 1 /\ DOMAIN (body \o <<eof>>) = 1..(Len(t) + 1)
      /\ \A i \in 1..Len(t) : (body \o <<eof>>)[i] = body[i]
      /\ (body \o <<eof>>)[Len(t) + 1] = eof
  BY <1>3, <1>6, <1>7
<1>9. /\ Len(Tokenize(t)) = Len(t) + 1 /\ DOMAIN Tokenize(t) = 1..(Len(t) + 1)
      /\ \A i \in 1..Len(t) : Tokenize(t)[i] = Token(t[i]) /\ t[i] \in Lexeme
      /\ Tokenize(t)[Len(t) + 1].kind = "eof"
  BY <1>1, <1>2, <1>4, <1>8
<1>10. Len(Tokenize(t)) - 1 = Len(t) /\ Len(Tokenize(t)) \in Nat \ {0}
  BY <1>3, <1>9
<1> QED BY <1>9, <1>10 DEF IsTokens

(* Only the last token is the end.                                          *)
LEMMA TokenAt ==
  ASSUME NEW ts, IsTokens(ts), NEW p \in DOMAIN ts
  PROVE  /\ p \in Nat \ {0} /\ p <= Len(ts)
         /\ ts[p].kind = "eof" <=> p = Len(ts)
         /\ ts[p].kind # "eof" => p + 1 \in DOMAIN ts /\ \E l \in Lexeme : ts[p] = Token(l) /\ Lexed(l, ts[p])
<1>0. p \in 1..Len(ts) /\ Len(ts) \in Nat
  BY DEF IsTokens
<1>1. ASSUME p # Len(ts)
      PROVE  \E l \in Lexeme : ts[p] = Token(l) /\ Lexed(l, ts[p])
  <2>1. p \in 1..Len(ts) - 1
    BY <1>0, <1>1
  <2> QED BY <2>1, TokensOfLexemes DEF IsTokens
<1>2. p # Len(ts) => ts[p].kind # "eof"
  BY <1>1 DEF Lexed
<1>3. p # Len(ts) => p + 1 \in DOMAIN ts
  BY <1>0 DEF IsTokens
<1> QED BY <1>0, <1>1, <1>2, <1>3 DEF IsTokens

-----------------------------------------------------------------------------
(* Every parse moves forward.                                               *)

Ahead(ts, p, r) == r.at = 0 \/ r.at \in (p + 1)..Len(ts)

LEMMA Results ==
  /\ Fail.at = 0
  /\ \A node, at : Found(node, at).at = at /\ Found(node, at).node = node
BY DEF Fail, Found

(* The commas of a list stand at every second place, as far as they go.     *)
Separates(ts, p, i) == p + 2 * i - 1 \in DOMAIN ts /\ ts[p + 2 * i - 1].kind = "comma"

LEMMA CommasCounted ==
  ASSUME NEW ts, IsTokens(ts), NEW p \in DOMAIN ts
  PROVE  /\ Commas(ts, p) \in Nat /\ p + 2 * Commas(ts, p) \in DOMAIN ts
         /\ \A i \in 1..Commas(ts, p) : Separates(ts, p, i)
         /\ ~Separates(ts, p, Commas(ts, p) + 1)
         /\ \A k \in Nat : ~Separates(ts, p, k + 1) /\ (\A i \in 1..k : Separates(ts, p, i)) => k = Commas(ts, p)
<1> DEFINE T == {k \in Nat : ~Separates(ts, p, k + 1)}
<1>1. p \in 1..Len(ts) /\ Len(ts) \in Nat /\ DOMAIN ts = 1..Len(ts)
  BY DEF IsTokens
<1>2. T \subseteq Nat /\ Len(ts) \in T
  BY <1>1 DEF Separates
<1>3. PICK k \in T : \A j \in T : k <= j
  <2> HIDE DEF T
  <2> QED BY <1>2, NatMinimum
<1>4. k \in 0..Len(ts) /\ ~Separates(ts, p, k + 1)
  BY <1>1, <1>2, <1>3
<1>5. ASSUME NEW i \in 1..k
      PROVE  Separates(ts, p, i)
  <2>1. i - 1 \in Nat /\ ~(k <= i - 1) /\ i - 1 + 1 = i
    BY <1>4
  <2> QED BY <1>3, <2>1
<1>6. Commas(ts, p) = CHOOSE n \in 0..Len(ts) : ~Separates(ts, p, n + 1) /\ \A i \in 1..n : Separates(ts, p, i)
  BY DEF Commas, Separates
<1>7. /\ Commas(ts, p) \in 0..Len(ts) /\ ~Separates(ts, p, Commas(ts, p) + 1)
      /\ \A i \in 1..Commas(ts, p) : Separates(ts, p, i)
  BY <1>4, <1>5, <1>6
<1>8. p + 2 * Commas(ts, p) \in DOMAIN ts
  <2> DEFINE c == Commas(ts, p)
  <2>1. CASE c = 0
    BY <1>1, <2>1
  <2>2. CASE c # 0
    <3>1. Separates(ts, p, c)
      BY <1>7, <2>2
    <3>2. p + 2 * c - 1 \in DOMAIN ts /\ ts[p + 2 * c - 1].kind # "eof"
      BY <3>1 DEF Separates
    <3>3. p + 2 * c - 1 + 1 \in DOMAIN ts
      BY <3>2, TokenAt
    <3>4. p + 2 * c - 1 + 1 = p + 2 * c
      BY <1>1, <1>7
    <3> QED BY <3>3, <3>4
  <2> QED BY <2>1, <2>2
<1>9. ASSUME NEW n \in Nat, ~Separates(ts, p, n + 1), \A i \in 1..n : Separates(ts, p, i)
      PROVE  n = Commas(ts, p)
  <2> DEFINE c == Commas(ts, p)
  <2>1. c \in Nat
    BY <1>7
  <2> HIDE DEF c
  <2>2. ~(n < c)
    <3>1. n < c => n + 1 \in 1..c
      BY <2>1
    <3> QED BY <1>7, <1>9, <3>1 DEF c
  <2>3. ~(c < n)
    <3>1. c < n => c + 1 \in 1..n
      BY <2>1
    <3> QED BY <1>7, <1>9, <3>1 DEF c
  <2>4. n = c
    BY <2>1, <2>2, <2>3
  <2> QED BY <2>4 DEF c
<1>10. Commas(ts, p) \in Nat
  BY <1>7
<1> QED BY <1>7, <1>8, <1>9, <1>10

LEMMA ListsAdvance ==
  ASSUME NEW ts, IsTokens(ts), NEW p \in DOMAIN ts, NEW kinds, "eof" \notin kinds
  PROVE  Ahead(ts, p, ParseList(kinds, ts, p))
<1> DEFINE c == Commas(ts, p)
<1>1. c \in Nat /\ p + 2 * c \in DOMAIN ts
  BY CommasCounted
<1>2. p \in 1..Len(ts) /\ DOMAIN ts = 1..Len(ts) /\ Len(ts) \in Nat
  BY DEF IsTokens
<1> HIDE DEF c
<1>3. ParseList(kinds, ts, p) = Items(kinds, ts, p, c + 1)
  BY DEF ParseList, c
<1>4. CASE \E i \in 1..(c + 1) : ts[p + 2 * (i - 1)].kind \notin kinds
  BY <1>3, <1>4, Results DEF Items, Ahead
<1>5. CASE ~\E i \in 1..(c + 1) : ts[p + 2 * (i - 1)].kind \notin kinds
  <2>1. c + 1 \in 1..(c + 1) /\ p + 2 * (c + 1 - 1) = p + 2 * c /\ p + 2 * (c + 1) - 1 = p + 2 * c + 1
    BY <1>1, <1>2
  <2>2. ts[p + 2 * (c + 1 - 1)].kind \in kinds
    <3>1. \A i \in 1..(c + 1) : ts[p + 2 * (i - 1)].kind \in kinds
      BY <1>5
    <3> QED BY <1>1, <2>1, <3>1
  <2>3. ts[p + 2 * c].kind # "eof"
    BY <2>1, <2>2
  <2>4. p + 2 * c + 1 \in DOMAIN ts
    BY <1>1, <2>3, TokenAt
  <2>5. ParseList(kinds, ts, p).at = p + 2 * (c + 1) - 1
    BY <1>3, <1>5, Results DEF Items
  <2>6. p + 2 * c + 1 \in (p + 1)..Len(ts)
    BY <1>1, <1>2, <2>4
  <2> QED BY <2>1, <2>5, <2>6 DEF Ahead
<1> QED BY <1>4, <1>5

LEMMA ClosedAdvances ==
  ASSUME NEW ts, IsTokens(ts), NEW p \in Nat, NEW inner, Ahead(ts, p, inner)
  PROVE  Ahead(ts, p, Closed(ts, inner))
<1>1. CASE inner.at # 0 /\ ts[inner.at].kind = "rparen"
  <2>1. inner.at \in (p + 1)..Len(ts) /\ DOMAIN ts = 1..Len(ts) /\ Len(ts) \in Nat
    BY <1>1 DEF Ahead, IsTokens
  <2>2. inner.at \in DOMAIN ts /\ ts[inner.at].kind # "eof"
    BY <1>1, <2>1
  <2>3. inner.at + 1 \in DOMAIN ts
    BY <2>2, TokenAt
  <2>4. inner.at + 1 \in (p + 1)..Len(ts)
    BY <2>1, <2>3
  <2> QED BY <1>1, <2>4, Results DEF Closed, Ahead
<1>2. CASE ~(inner.at # 0 /\ ts[inner.at].kind = "rparen")
  BY <1>2, Results DEF Closed, Ahead
<1> QED BY <1>1, <1>2

LEMMA ConditionsAdvance ==
  ASSUME NEW ts, IsTokens(ts), NEW p \in DOMAIN ts
  PROVE  Ahead(ts, p, ParseCondition(ts, p))
<1>1. p \in 1..Len(ts) /\ DOMAIN ts = 1..Len(ts) /\ Len(ts) \in Nat
  BY DEF IsTokens
<1>2. \A i \in DOMAIN ts : ts[i].kind # "eof" => i + 1 \in DOMAIN ts
  BY TokenAt
<1>3. CASE ts[p].kind # "ident"
  BY <1>3, Results DEF ParseCondition, Ahead
<1>4. CASE ts[p].kind = "ident" /\ Keyword(ts, p + 1, "exists")
  <2>1. p + 1 \in DOMAIN ts
    BY <1>2, <1>4
  <2>2. p + 1 + 1 \in DOMAIN ts
    BY <1>2, <1>4, <2>1 DEF Keyword, Match
  <2>3. ParseCondition(ts, p).at = p + 2
    BY <1>4, Results DEF ParseCondition
  <2>4. p + 2 \in (p + 1)..Len(ts)
    BY <1>1, <2>2
  <2> QED BY <2>3, <2>4 DEF Ahead
<1>5. CASE ts[p].kind = "ident" /\ ~Keyword(ts, p + 1, "exists") /\ Keyword(ts, p + 1, "in")
  <2>1. p + 1 \in DOMAIN ts
    BY <1>2, <1>5
  <2>2. p + 1 + 1 \in DOMAIN ts /\ p + 1 + 1 = p + 2
    BY <1>1, <1>2, <1>5, <2>1 DEF Keyword, Match
  <2>3. CASE ts[p + 2].kind # "lparen"
    BY <1>5, <2>3, Results DEF ParseCondition, Ahead
  <2>4. CASE ts[p + 2].kind = "lparen"
    <3>1. p + 2 + 1 \in DOMAIN ts /\ p + 2 + 1 = p + 3
      BY <1>1, <1>2, <2>2, <2>4
    <3>2. Ahead(ts, p + 3, ParseList(ValueKinds, ts, p + 3))
      BY <3>1, ListsAdvance DEF ValueKinds
    <3>3. Ahead(ts, p + 3, Closed(ts, ParseList(ValueKinds, ts, p + 3)))
      BY <1>1, <3>2, ClosedAdvances
    <3> DEFINE list == Closed(ts, ParseList(ValueKinds, ts, p + 3))
    <3>4. ParseCondition(ts, p) = InList(ts[p].value, list)
      BY <1>5, <2>4 DEF ParseCondition
    <3> HIDE DEF list
    <3>5. Ahead(ts, p + 3, list)
      BY <3>3 DEF list
    <3> QED BY <1>1, <3>4, <3>5, Results DEF InList, Ahead
  <2> QED BY <2>3, <2>4
<1>6. CASE ts[p].kind = "ident" /\ ~Keyword(ts, p + 1, "exists") /\ ~Keyword(ts, p + 1, "in")
  <2>1. CASE ts[p + 1].kind = "op" /\ ts[p + 2].kind \in ValueKinds
    <3>1. p + 1 \in DOMAIN ts
      BY <1>2, <1>6
    <3>2. p + 1 + 1 \in DOMAIN ts /\ p + 1 + 1 = p + 2
      BY <1>1, <1>2, <2>1, <3>1
    <3>3. p + 2 + 1 \in DOMAIN ts
      BY <1>2, <2>1, <3>2 DEF ValueKinds
    <3>4. p + 3 \in (p + 1)..Len(ts)
      BY <1>1, <3>3
    <3>5. ParseCondition(ts, p).at = p + 3
      BY <1>6, <2>1, Results DEF ParseCondition
    <3> QED BY <3>4, <3>5 DEF Ahead
  <2>2. CASE ~(ts[p + 1].kind = "op" /\ ts[p + 2].kind \in ValueKinds)
    BY <1>6, <2>2, Results DEF ParseCondition, Ahead
  <2> QED BY <2>1, <2>2
<1> QED BY <1>3, <1>4, <1>5, <1>6

(* The chains that start at a token, in the order in which they are made:   *)
(* from the last token back, and the conjunctions of a token first.         *)
Spots(ts) == {"or", "and"} \X DOMAIN ts
Level(ts, x) == 2 * (Len(ts) - x[2]) + (IF x[1] = "or" THEN 1 ELSE 0)
ChainAt(ts, g, x) == ChainFrom(ts, g, x[1], Operand(ts, g, x[1], x[2]))

(* Those a chain is made of are the same in g and in h.                     *)
SameBelow(ts, g, h, n) ==
  \A y \in Spots(ts) : Level(ts, y) < n => g[y] = h[y] /\ Ahead(ts, y[2], g[y])

LEMMA WholeAt == \A word, chain : Whole(word, chain).at = chain.at
BY Results DEF Whole

LEMMA PrimariesAdvance ==
  ASSUME NEW ts, IsTokens(ts), NEW p \in DOMAIN ts, NEW g, NEW h,
         p + 1 \in DOMAIN ts => g[<<"or", p + 1>>] = h[<<"or", p + 1>>] /\ Ahead(ts, p + 1, g[<<"or", p + 1>>])
  PROVE  ParsePrimary(ts, g, p) = ParsePrimary(ts, h, p) /\ Ahead(ts, p, ParsePrimary(ts, g, p))
<1>1. p \in 1..Len(ts) /\ DOMAIN ts = 1..Len(ts) /\ Len(ts) \in Nat
  BY DEF IsTokens
<1>2. CASE ts[p].kind = "lparen"
  <2>1. p + 1 \in DOMAIN ts
    BY <1>2, TokenAt
  <2> DEFINE inner == Whole("or", g[<<"or", p + 1>>])
  <2>2. inner.at = g[<<"or", p + 1>>].at
    BY WholeAt
  <2>3. Ahead(ts, p, inner)
    BY <1>1, <2>1, <2>2 DEF Ahead
  <2>4. ParsePrimary(ts, g, p) = Closed(ts, inner) /\ ParsePrimary(ts, h, p) = Closed(ts, inner)
    BY <1>2, <2>1 DEF ParsePrimary
  <2> HIDE DEF inner
  <2> QED BY <1>1, <2>3, <2>4, ClosedAdvances
<1>3. CASE ts[p].kind # "lparen"
  BY <1>3, ConditionsAdvance DEF ParsePrimary
<1> QED BY <1>2, <1>3

LEMMA NotsAdvance ==
  ASSUME NEW ts, IsTokens(ts), NEW p \in DOMAIN ts, NEW g, NEW h,
         \A q \in DOMAIN ts : q > p => g[<<"or", q>>] = h[<<"or", q>>] /\ Ahead(ts, q, g[<<"or", q>>])
  PROVE  ParseNot(ts, g, p) = ParseNot(ts, h, p) /\ Ahead(ts, p, ParseNot(ts, g, p))
<1>1. p \in 1..Len(ts) /\ DOMAIN ts = 1..Len(ts) /\ Len(ts) \in Nat
  BY DEF IsTokens
<1>2. ASSUME NEW q \in DOMAIN ts, q >= p
      PROVE  ParsePrimary(ts, g, q) = ParsePrimary(ts, h, q) /\ Ahead(ts, q, ParsePrimary(ts, g, q))
  <2>1. q + 1 \in DOMAIN ts => q + 1 > p
    BY <1>1, <1>2
  <2> QED BY <2>1, PrimariesAdvance
<1>3. CASE Keyword(ts, p, "not")
  <2>1. p + 1 \in DOMAIN ts /\ p + 1 >= p
    BY <1>1, <1>3, TokenAt DEF Keyword, Match
  <2>2. /\ ParsePrimary(ts, g, p + 1) = ParsePrimary(ts, h, p + 1)
        /\ Ahead(ts, p + 1, ParsePrimary(ts, g, p + 1))
    BY <1>2, <2>1
  <2> DEFINE inner == ParsePrimary(ts, g, p + 1)
  <2>3. ParseNot(ts, g, p) = Negated(inner) /\ ParseNot(ts, h, p) = Negated(inner)
    BY <1>3, <2>2 DEF ParseNot
  <2>4. Ahead(ts, p + 1, inner)
    BY <2>2
  <2> HIDE DEF inner
  <2>5. Negated(inner).at = inner.at
    BY Results DEF Negated
  <2> QED BY <1>1, <2>3, <2>4, <2>5 DEF Ahead
<1>4. CASE ~Keyword(ts, p, "not")
  BY <1>1, <1>2, <1>4 DEF ParseNot
<1> QED BY <1>3, <1>4

LEMMA ChainsAdvance ==
  ASSUME NEW ts, IsTokens(ts), NEW x \in Spots(ts), NEW g, NEW h, SameBelow(ts, g, h, Level(ts, x))
  PROVE  ChainAt(ts, g, x) = ChainAt(ts, h, x) /\ Ahead(ts, x[2], ChainAt(ts, g, x))
<1> DEFINE word == x[1]
           p == x[2]
           operand == Operand(ts, g, word, p)
<1>1. /\ word \in {"or", "and"} /\ p \in 1..Len(ts) /\ DOMAIN ts = 1..Len(ts) /\ Len(ts) \in Nat
      /\ Level(ts, x) = 2 * (Len(ts) - p) + (IF word = "or" THEN 1 ELSE 0)
  BY DEF IsTokens, Spots, Level
<1>2. ASSUME NEW w \in {"or", "and"}, NEW q \in DOMAIN ts, q > p \/ (q = p /\ w = "and" /\ word = "or")
      PROVE  g[<<w, q>>] = h[<<w, q>>] /\ Ahead(ts, q, g[<<w, q>>])
  <2>1. <<w, q>> \in Spots(ts) /\ <<w, q>>[1] = w /\ <<w, q>>[2] = q
    BY DEF Spots
  <2> HIDE DEF word, p
  <2>2. Level(ts, <<w, q>>) < Level(ts, x)
    BY <1>1, <1>2 DEF Level
  <2> QED BY <2>1, <2>2 DEF SameBelow
<1> HIDE DEF word, p
<1>3. operand = Operand(ts, h, word, p) /\ Ahead(ts, p, operand)
  <2>1. CASE word = "or"
    <3>1. p \in DOMAIN ts
      BY <1>1
    <3>2. g[<<"and", p>>] = h[<<"and", p>>] /\ Ahead(ts, p, g[<<"and", p>>])
      BY <1>2, <2>1, <3>1
    <3>3. operand = Whole("and", g[<<"and", p>>]) /\ Operand(ts, h, word, p) = Whole("and", h[<<"and", p>>])
      BY <2>1 DEF Operand
    <3>4. operand.at = g[<<"and", p>>].at
      BY <3>3, WholeAt
    <3> QED BY <3>2, <3>3, <3>4 DEF Ahead
  <2>2. CASE word # "or"
    <3>1. operand = ParseNot(ts, g, p) /\ Operand(ts, h, word, p) = ParseNot(ts, h, p)
      BY <2>2 DEF Operand
    <3>2. \A q \in DOMAIN ts : q > p => g[<<"or", q>>] = h[<<"or", q>>] /\ Ahead(ts, q, g[<<"or", q>>])
      BY <1>2
    <3>3. p \in DOMAIN ts
      BY <1>1
    <3> HIDE DEF operand
    <3> QED BY <3>1, <3>2, <3>3, NotsAdvance
  <2> QED BY <2>1, <2>2
<1>4. ChainAt(ts, g, x) = ChainFrom(ts, g, word, operand) /\ ChainAt(ts, h, x) = ChainFrom(ts, h, word, operand)
  BY <1>3 DEF ChainAt, word, p
<1> HIDE DEF operand
<1>5. CASE operand.at = 0
  BY <1>4, <1>5, Results DEF ChainFrom, Ahead, p
<1>6. CASE operand.at # 0 /\ ~Keyword(ts, operand.at, word)
  <2>1. ChainFrom(ts, g, word, operand) = Found(<<operand.node>>, operand.at)
    BY <1>6 DEF ChainFrom
  <2>2. ChainFrom(ts, h, word, operand) = Found(<<operand.node>>, operand.at)
    BY <1>6 DEF ChainFrom
  <2> QED BY <1>3, <1>4, <2>1, <2>2, Results DEF Ahead, p
<1>7. CASE operand.at # 0 /\ Keyword(ts, operand.at, word)
  <2>1. operand.at \in (p + 1)..Len(ts) /\ operand.at \in DOMAIN ts
    BY <1>1, <1>3, <1>7 DEF Ahead
  <2>2. operand.at + 1 \in DOMAIN ts
    BY <1>7, <2>1, TokenAt DEF Keyword, Match
  <2>3. operand.at + 1 > p /\ operand.at + 1 > operand.at
    BY <1>1, <2>1
  <2> DEFINE rest == g[<<word, operand.at + 1>>]
  <2>4. rest = h[<<word, operand.at + 1>>] /\ Ahead(ts, operand.at + 1, rest)
    BY <1>1, <1>2, <2>2, <2>3
  <2>5. /\ ChainFrom(ts, g, word, operand) = Prepended(operand.node, rest)
        /\ ChainFrom(ts, h, word, operand) = Prepended(operand.node, rest)
    BY <1>7, <2>4 DEF ChainFrom
  <2> HIDE DEF rest
  <2>6. Prepended(operand.node, rest).at = rest.at
    BY Results DEF Prepended
  <2>7. Ahead(ts, p, rest)
    BY <1>1, <2>1, <2>4 DEF Ahead
  <2> QED BY <1>4, <2>5, <2>6, <2>7 DEF Ahead, p
<1> QED BY <1>5, <1>6, <1>7

(* Chains answers its own equation, and every chain it finds ends ahead.    *)
LEMMA ChainsUnfold ==
  ASSUME NEW ts, IsTokens(ts)
  PROVE  \A x \in Spots(ts) : Chains(ts)[x] = ChainAt(ts, Chains(ts), x) /\ Ahead(ts, x[2], Chains(ts)[x])
<1> DEFINE Fixed(g, n) == g = [x \in Spots(ts) |-> g[x]]
                          /\ \A x \in Spots(ts) : Level(ts, x) < n => g[x] = ChainAt(ts, g, x) /\ Ahead(ts, x[2], g[x])
           next(g) == [x \in Spots(ts) |-> ChainAt(ts, g, x)]
<1>1. \A x \in Spots(ts) : Level(ts, x) \in 0..2 * Len(ts)
  BY DEF Spots, Level, IsTokens
<1>2. ASSUME NEW n \in Nat, NEW g, Fixed(g, n)
      PROVE  Fixed(next(g), n + 1)
  <2>1. next(g) = [x \in Spots(ts) |-> next(g)[x]] /\ \A x \in Spots(ts) : next(g)[x] = ChainAt(ts, g, x)
    OBVIOUS
  <2> HIDE DEF next
  <2>2. ASSUME NEW x \in Spots(ts), Level(ts, x) < n + 1
        PROVE  next(g)[x] = ChainAt(ts, next(g), x) /\ Ahead(ts, x[2], next(g)[x])
    <3>1. \A y \in Spots(ts) : Level(ts, y) < Level(ts, x) => g[y] = next(g)[y] /\ Ahead(ts, y[2], g[y])
      BY <1>1, <1>2, <2>1, <2>2
    <3>2. SameBelow(ts, g, next(g), Level(ts, x))
      BY <3>1 DEF SameBelow
    <3> QED BY <2>1, <3>2, ChainsAdvance
  <2> QED BY <2>1, <2>2
<1>3. \A n \in Nat : \E g : Fixed(g, n)
  <2> DEFINE Bad == {n \in Nat : ~\E g : Fixed(g, n)}
  <2> SUFFICES ASSUME Bad # {} PROVE FALSE
    OBVIOUS
  <2>1. PICK n \in Bad : \A k \in Bad : n <= k
    <3>1. Bad \subseteq Nat
      OBVIOUS
    <3> HIDE DEF Bad
    <3> QED BY <3>1, NatMinimum
  <2>2. CASE n = 0
    <3>1. Fixed([x \in Spots(ts) |-> Fail], 0)
      BY <1>1
    <3> QED BY <2>1, <2>2, <3>1
  <2>3. CASE n # 0
    <3>1. n - 1 \in Nat /\ n - 1 \notin Bad /\ n - 1 + 1 = n
      BY <2>1, <2>3
    <3>2. PICK g : Fixed(g, n - 1)
      BY <3>1
    <3> HIDE DEF Fixed, next
    <3>3. Fixed(next(g), n - 1 + 1)
      BY <1>2, <3>1, <3>2
    <3> QED BY <2>1, <3>1, <3>3
  <2> QED BY <2>2, <2>3
<1> DEFINE top == 2 * Len(ts) + 1
           chains == CHOOSE f : f = [x \in Spots(ts) |-> ChainAt(ts, f, x)]
<1>4. top \in Nat /\ \A x \in Spots(ts) : Level(ts, x) < top
  BY <1>1 DEF IsTokens
<1>5. \E f : f = [x \in Spots(ts) |-> ChainAt(ts, f, x)]
  <2>1. PICK g : Fixed(g, top)
    BY <1>3, <1>4
  <2>2. g = [x \in Spots(ts) |-> g[x]] /\ \A x \in Spots(ts) : g[x] = ChainAt(ts, g, x)
    BY <1>4, <2>1
  <2> QED BY <2>2
<1>6. chains = [x \in Spots(ts) |-> ChainAt(ts, chains, x)]
  BY <1>5
<1>7. Chains(ts) = chains
  BY DEF Chains, ChainAt, Spots
<1> HIDE DEF chains
<1>8. \A x \in Spots(ts) : Chains(ts)[x] = ChainAt(ts, Chains(ts), x)
  BY <1>6, <1>7
<1>9. \A x \in Spots(ts) : Ahead(ts, x[2], Chains(ts)[x])
  <2> DEFINE Behind == {n \in Nat : \E x \in Spots(ts) : Level(ts, x) = n /\ ~Ahead(ts, x[2], Chains(ts)[x])}
  <2> SUFFICES ASSUME Behind # {} PROVE FALSE
    BY <1>1
  <2>1. PICK n \in Behind : \A k \in Behind : n <= k
    <3>1. Behind \subseteq Nat
      OBVIOUS
    <3> HIDE DEF Behind
    <3> QED BY <3>1, NatMinimum
  <2>2. PICK x \in Spots(ts) : Level(ts, x) = n /\ ~Ahead(ts, x[2], Chains(ts)[x])
    BY <2>1
  <2>3. SameBelow(ts, Chains(ts), Chains(ts), Level(ts, x))
    BY <1>1, <2>1, <2>2 DEF SameBelow
  <2>4. Ahead(ts, x[2], ChainAt(ts, Chains(ts), x))
    BY <2>3, ChainsAdvance
  <2> QED BY <1>8, <2>2, <2>4
<1> QED BY <1>8, <1>9

-----------------------------------------------------------------------------
(* Texts and where they stand among the tokens.                             *)

LEMMA DownInduction ==
  ASSUME NEW n \in Nat \ {0}, NEW P, n \in P, \A i \in 1..n - 1 : i + 1 \in P => i \in P
  PROVE  1..n \subseteq P
<1> SUFFICES ASSUME 1..n \subseteq P => FALSE PROVE FALSE
  OBVIOUS
<1> DEFINE T == {k \in Nat : n - k \in 1..n /\ n - k \notin P}
<1>1. T \subseteq Nat /\ T # {}
  <2>1. PICK i \in 1..n : i \notin P
    OBVIOUS
  <2>2. n - i \in Nat /\ n - (n - i) = i
    OBVIOUS
  <2>3. n - i \in T
    BY <2>1, <2>2
  <2> QED BY <2>3
<1>2. PICK k \in T : \A j \in T : k <= j
  <2> HIDE DEF T
  <2> QED BY <1>1, NatMinimum
<1>3. k # 0 /\ k \in Nat /\ n - k \in 1..n /\ n - k \notin P
  BY <1>2
<1>4. k - 1 \in Nat /\ ~(k <= k - 1) /\ n - (k - 1) = n - k + 1 /\ n - k + 1 \in 1..n /\ n - k \in 1..n - 1
  BY <1>3
<1>5. n - k + 1 \in P
  BY <1>2, <1>4
<1> QED BY <1>3, <1>4, <1>5

LEMMA JoinedTexts ==
  ASSUME NEW S, NEW s \in Seq(S), NEW t \in Seq(S)
  PROVE  /\ s \o t \in Seq(S) /\ Len(s \o t) = Len(s) + Len(t)
         /\ \A i \in 1..Len(s) : (s \o t)[i] = s[i]
         /\ \A i \in 1..Len(t) : (s \o t)[Len(s) + i] = t[i]
OBVIOUS

LEMMA ShortTexts ==
  ASSUME NEW S, NEW a \in S
  PROVE  <<a>> \in Seq(S) /\ Len(<<a>>) = 1 /\ <<a>>[1] = a
OBVIOUS

(* The text t stands among the tokens from p on, and q comes after it.      *)
Reads(ts, p, t, q) ==
  /\ p \in Nat \ {0} /\ t \in Seq(Lexeme) /\ q = p + Len(t) /\ q \in DOMAIN ts
  /\ \A i \in 1..Len(t) : ts[p + i - 1] = Token(t[i])

(* The lexeme l stands at p.                                                *)
Stands(ts, p, l) == p \in DOMAIN ts /\ p + 1 \in DOMAIN ts /\ ts[p] = Token(l)

LEMMA ReadsParts ==
  ASSUME NEW ts, IsTokens(ts), NEW s \in Seq(Lexeme), NEW t \in Seq(Lexeme), NEW u, u = s \o t,
         NEW p, NEW q, Reads(ts, p, u, q)
  PROVE  \E m : Reads(ts, p, s, m) /\ Reads(ts, m, t, q)
<1>1. /\ p \in Nat \ {0} /\ Len(s) \in Nat /\ Len(t) \in Nat /\ Len(u) = Len(s) + Len(t)
      /\ p + Len(u) \in DOMAIN ts /\ DOMAIN ts = 1..Len(ts) /\ Len(ts) \in Nat /\ q = p + Len(u)
      /\ \A i \in 1..Len(u) : ts[p + i - 1] = Token(u[i])
  BY JoinedTexts DEF Reads, IsTokens
<1>2. \A i \in 1..Len(s) : ts[p + i - 1] = Token(s[i])
  BY <1>1, JoinedTexts
<1>3. ASSUME NEW i \in 1..Len(t)
      PROVE  ts[p + Len(s) + i - 1] = Token(t[i])
  <2>1. Len(s) + i \in 1..Len(u) /\ p + (Len(s) + i) - 1 = p + Len(s) + i - 1
    BY <1>1
  <2>2. u[Len(s) + i] = t[i]
    BY JoinedTexts
  <2> QED BY <1>1, <2>1, <2>2
<1>4. p + Len(s) \in DOMAIN ts /\ q = p + Len(s) + Len(t) /\ p + Len(s) \in Nat \ {0}
  BY <1>1
<1>5. Reads(ts, p, s, p + Len(s))
  BY <1>1, <1>2, <1>4 DEF Reads
<1>6. Reads(ts, p + Len(s), t, q)
  BY <1>1, <1>3, <1>4 DEF Reads
<1> QED BY <1>5, <1>6

LEMMA ReadsOne ==
  ASSUME NEW ts, IsTokens(ts), NEW l \in Lexeme, NEW p, NEW q, Reads(ts, p, <<l>>, q)
  PROVE  Stands(ts, p, l) /\ q = p + 1 /\ p \in Nat \ {0}
<1>1. Len(<<l>>) = 1 /\ <<l>>[1] = l
  OBVIOUS
<1>2. p \in Nat \ {0} /\ q = p + 1 /\ p + 1 \in DOMAIN ts /\ ts[p + 1 - 1] = Token(l) /\ p + 1 - 1 = p
  BY <1>1 DEF Reads
<1> QED BY <1>2 DEF IsTokens, Stands

(* A text that begins with the lexeme l.                                    *)
LEMMA ReadsFirst ==
  ASSUME NEW ts, IsTokens(ts), NEW l \in Lexeme, NEW t \in Seq(Lexeme), NEW u, u = <<l>> \o t,
         NEW p, NEW q, Reads(ts, p, u, q)
  PROVE  Stands(ts, p, l) /\ Reads(ts, p + 1, t, q) /\ p \in Nat \ {0}
<1> DEFINE s == <<l>>
<1>1. s \in Seq(Lexeme) /\ u = s \o t
  OBVIOUS
<1> HIDE DEF s
<1>2. PICK m : Reads(ts, p, s, m) /\ Reads(ts, m, t, q)
  BY <1>1, ReadsParts
<1>3. Stands(ts, p, l) /\ m = p + 1 /\ p \in Nat \ {0}
  BY <1>2, ReadsOne DEF s
<1> QED BY <1>2, <1>3

(* A text, a separator and another text.                                    *)
LEMMA ReadsSeparated ==
  ASSUME NEW ts, IsTokens(ts), NEW s \in Seq(Lexeme), NEW l \in Lexeme, NEW t \in Seq(Lexeme),
         NEW u, u = s \o <<l>> \o t, NEW p, NEW q, Reads(ts, p, u, q)
  PROVE  \E m \in Nat : Reads(ts, p, s, m) /\ Stands(ts, m, l) /\ Reads(ts, m + 1, t, q)
<1> DEFINE a == s \o <<l>>
           w == <<l>>
<1>1. w \in Seq(Lexeme) /\ a \in Seq(Lexeme) /\ a = s \o w /\ u = a \o t
  BY JoinedTexts
<1> HIDE DEF a, w
<1>2. PICK k : Reads(ts, p, a, k) /\ Reads(ts, k, t, q)
  BY <1>1, ReadsParts
<1>3. PICK m : Reads(ts, p, s, m) /\ Reads(ts, m, w, k)
  BY <1>1, <1>2, ReadsParts
<1>4. Stands(ts, m, l) /\ k = m + 1 /\ m \in Nat
  BY <1>3, ReadsOne DEF w
<1> QED BY <1>2, <1>3, <1>4

(* The texts of a list, from the last one back.                             *)
IsSeparated(f, texts, separator) ==
  \A i \in DOMAIN texts :
    /\ f[i] = IF i = Len(texts) THEN texts[i] ELSE texts[i] \o <<separator>> \o f[i + 1]
    /\ f[i] \in Seq(Lexeme)

LEMMA SeparatedUnfolds ==
  ASSUME NEW n \in Nat \ {0}, NEW texts, DOMAIN texts = 1..n, Len(texts) = n,
         \A i \in 1..n : texts[i] \in Seq(Lexeme), NEW separator \in Lexeme
  PROVE  \E f : IsSeparated(f, texts, separator) /\ Separated(texts, separator) = f[1]
<1> DEFINE step(f, i) == IF i = Len(texts) THEN texts[i] ELSE texts[i] \o <<separator>> \o f[i + 1]
           Good(i) == \E f : /\ f = [j \in 1..n |-> f[j]]
                             /\ \A j \in i..n : f[j] = step(f, j) /\ f[j] \in Seq(Lexeme)
<1>1. Good(n)
  <2> DEFINE f == [j \in 1..n |-> texts[n]]
  <2>1. n \in 1..n /\ \A j \in n..n : j = n
    OBVIOUS
  <2>2. f = [j \in 1..n |-> f[j]] /\ f[n] = texts[n] /\ texts[n] \in Seq(Lexeme)
    BY <2>1
  <2>3. f[n] = step(f, n)
    <3> HIDE DEF f
    <3> QED BY <2>2
  <2> HIDE DEF f, step
  <2>4. \A j \in n..n : f[j] = step(f, j) /\ f[j] \in Seq(Lexeme)
    BY <2>1, <2>2, <2>3
  <2> QED BY <2>2, <2>4
<1>2. ASSUME NEW i \in 1..n - 1, Good(i + 1)
      PROVE  Good(i)
  <2>1. PICK f : /\ f = [j \in 1..n |-> f[j]]
                 /\ \A j \in (i + 1)..n : f[j] = step(f, j) /\ f[j] \in Seq(Lexeme)
    BY <1>2
  <2> DEFINE g == [j \in 1..n |-> IF j = i THEN step(f, i) ELSE f[j]]
  <2>2. i \in 1..n /\ i # n /\ i + 1 \in (i + 1)..n /\ \A j \in i..n : j = i \/ j \in (i + 1)..n
    OBVIOUS
  <2>3. texts[i] \in Seq(Lexeme) /\ <<separator>> \in Seq(Lexeme) /\ f[i + 1] \in Seq(Lexeme)
    <3>1. f[i + 1] \in Seq(Lexeme)
      BY <2>1, <2>2
    <3>2. texts[i] \in Seq(Lexeme) /\ <<separator>> \in Seq(Lexeme)
      BY <2>2
    <3> QED BY <3>1, <3>2
  <2>4. step(f, i) = texts[i] \o <<separator>> \o f[i + 1]
    BY <2>2
  <2>5. step(f, i) \in Seq(Lexeme)
    BY <2>3, <2>4
  <2> HIDE DEF step
  <2>6. g = [j \in 1..n |-> g[j]] /\ g[i] = step(f, i) /\ \A j \in (i + 1)..n : g[j] = f[j]
    BY <2>2
  <2> HIDE DEF g
  <2>7. \A j \in i..n : step(g, j) = step(f, j)
    <3> TAKE j \in i..n
    <3>1. j # n => j + 1 \in (i + 1)..n
      BY <2>2
    <3>2. j # n => g[j + 1] = f[j + 1]
      BY <2>6, <3>1
    <3> QED BY <3>2 DEF step
  <2>8. \A j \in i..n : g[j] = step(g, j) /\ g[j] \in Seq(Lexeme)
    BY <2>1, <2>2, <2>5, <2>6, <2>7
  <2> QED BY <2>6, <2>8
<1>3. Good(1)
  <2> DEFINE P == {i \in 1..n : Good(i)}
  <2> HIDE DEF Good
  <2>1. n \in P
    BY <1>1
  <2>2. \A i \in 1..n - 1 : i + 1 \in P => i \in P
    BY <1>2
  <2>3. 1..n \subseteq P
    <3> HIDE DEF P
    <3> QED BY <2>1, <2>2, DownInduction
  <2> QED BY <2>3
<1> DEFINE separated == CHOOSE f : f = [i \in DOMAIN texts |-> step(f, i)]
<1>4. PICK f : f = [j \in 1..n |-> f[j]] /\ \A j \in 1..n : f[j] = step(f, j)
  BY <1>3
<1>5. f = [i \in DOMAIN texts |-> step(f, i)]
  <2> HIDE DEF step
  <2> QED BY <1>4
<1>6. separated = [i \in DOMAIN texts |-> step(separated, i)]
  <2> HIDE DEF step
  <2> QED BY <1>5
<1>7. Separated(texts, separator) = separated[1]
  BY DEF Separated
<1> HIDE DEF separated
<1>8. \A i \in 1..n : separated[i] = step(separated, i)
  <2> HIDE DEF step
  <2> QED BY <1>6
<1>9. \A i \in 1..n : separated[i] \in Seq(Lexeme)
  <2> DEFINE P == {i \in 1..n : separated[i] \in Seq(Lexeme)}
  <2>1. n \in P
    BY <1>8
  <2>2. ASSUME NEW i \in 1..n - 1, i + 1 \in P
        PROVE  i \in P
    <3>1. i \in 1..n /\ i # n
      OBVIOUS
    <3>2. texts[i] \in Seq(Lexeme) /\ <<separator>> \in Seq(Lexeme) /\ separated[i + 1] \in Seq(Lexeme)
      BY <2>2, <3>1
    <3>3. separated[i] = texts[i] \o <<separator>> \o separated[i + 1]
      BY <1>8, <3>1
    <3>4. texts[i] \o <<separator>> \in Seq(Lexeme)
      BY <3>2, JoinedTexts
    <3>5. separated[i] \in Seq(Lexeme)
      BY <3>2, <3>3, <3>4, JoinedTexts
    <3> QED BY <3>1, <3>5
  <2>3. 1..n \subseteq P
    <3> HIDE DEF P
    <3> QED BY <2>1, <2>2, DownInduction
  <2> QED BY <2>3
<1>10. IsSeparated(separated, texts, separator)
  BY <1>8, <1>9 DEF IsSeparated
<1> QED BY <1>7, <1>10

-----------------------------------------------------------------------------
(* Lists read back.                                                         *)

(* The texts of one lexeme each.                                            *)
Singles(texts, ls, n) ==
  /\ DOMAIN texts = 1..n /\ Len(texts) = n
  /\ \A i \in 1..n : ls[i] \in Lexeme /\ texts[i] = <<ls[i]>>

(* Where the items of the list stand from the i-th on, and their commas.    *)
ItemsStand(ts, n, ls, i, p) ==
  \A j \in i..n : p + 2 * (j - i) \in DOMAIN ts /\ ts[p + 2 * (j - i)] = Token(ls[j])

CommasStand(ts, n, i, p) ==
  \A j \in i..n - 1 : p + 2 * (j - i) + 1 \in DOMAIN ts /\ ts[p + 2 * (j - i) + 1].kind = "comma"

ListStands(ts, n, ls, f, i) ==
  \A p, q : Reads(ts, p, f[i], q) =>
    ItemsStand(ts, n, ls, i, p) /\ CommasStand(ts, n, i, p) /\ q = p + 2 * (n - i) + 1

LEMMA ListTokens ==
  ASSUME NEW ts, IsTokens(ts), NEW n \in Nat \ {0}, NEW ls, NEW texts, Singles(texts, ls, n),
         NEW f, IsSeparated(f, texts, Comma)
  PROVE  \A i \in 1..n : ListStands(ts, n, ls, f, i)
<1> DEFINE P == {i \in 1..n : ListStands(ts, n, ls, f, i)}
<1>1. Comma \in Lexeme /\ Token(Comma).kind = "comma"
  BY LexemesToTokens
<1>2. \A i \in 1..n : /\ f[i] = IF i = n THEN texts[i] ELSE texts[i] \o <<Comma>> \o f[i + 1]
                      /\ f[i] \in Seq(Lexeme)
  BY DEF IsSeparated, Singles
<1>3. n \in P
  <2>1. n \in 1..n /\ f[n] = <<ls[n]>> /\ ls[n] \in Lexeme
    BY <1>2 DEF Singles
  <2>2. ASSUME NEW p, NEW q, Reads(ts, p, f[n], q)
        PROVE  ItemsStand(ts, n, ls, n, p) /\ CommasStand(ts, n, n, p) /\ q = p + 2 * (n - n) + 1
    <3>1. Stands(ts, p, ls[n]) /\ q = p + 1 /\ p \in Nat \ {0}
      BY <2>1, <2>2, ReadsOne
    <3>2. p \in DOMAIN ts /\ ts[p] = Token(ls[n])
      BY <3>1 DEF Stands
    <3>3. \A j \in n..n : j = n /\ p + 2 * (j - n) = p
      BY <3>1
    <3>4. n..n - 1 = {} /\ q = p + 2 * (n - n) + 1
      BY <3>1
    <3> QED BY <3>2, <3>3, <3>4 DEF ItemsStand, CommasStand
  <2> QED BY <2>1, <2>2 DEF ListStands
<1>4. ASSUME NEW i \in 1..n - 1, i + 1 \in P
      PROVE  i \in P
  <2>1. i \in 1..n /\ i + 1 \in 1..n /\ i # n /\ texts[i] = <<ls[i]>> /\ ls[i] \in Lexeme /\ f[i + 1] \in Seq(Lexeme)
    BY <1>2 DEF Singles
  <2>2. ASSUME NEW p, NEW q, Reads(ts, p, f[i], q)
        PROVE  ItemsStand(ts, n, ls, i, p) /\ CommasStand(ts, n, i, p) /\ q = p + 2 * (n - i) + 1
    <3> DEFINE s == texts[i]
               t == f[i + 1]
               u == f[i]
    <3>1. s = <<ls[i]>> /\ s \in Seq(Lexeme) /\ t \in Seq(Lexeme) /\ u = s \o <<Comma>> \o t /\ Reads(ts, p, u, q)
      <4>1. texts[i] \in Seq(Lexeme)
        BY <2>1, ShortTexts
      <4>2. f[i] = texts[i] \o <<Comma>> \o f[i + 1]
        BY <1>2, <2>1
      <4> QED BY <2>1, <2>2, <4>1, <4>2
    <3> HIDE DEF s, t, u
    <3>2. PICK m \in Nat : Reads(ts, p, s, m) /\ Stands(ts, m, Comma) /\ Reads(ts, m + 1, t, q)
      BY <1>1, <3>1, ReadsSeparated
    <3>3. Stands(ts, p, ls[i]) /\ m = p + 1 /\ p \in Nat \ {0}
      BY <2>1, <3>1, <3>2, ReadsOne
    <3>4. p \in DOMAIN ts /\ ts[p] = Token(ls[i]) /\ p + 1 \in DOMAIN ts /\ ts[p + 1].kind = "comma"
      BY <1>1, <3>2, <3>3 DEF Stands
    <3>5. Reads(ts, p + 2, f[i + 1], q)
      <4>1. m + 1 = p + 2
        BY <3>3
      <4> QED BY <3>2, <4>1 DEF t
    <3>6. /\ ItemsStand(ts, n, ls, i + 1, p + 2) /\ CommasStand(ts, n, i + 1, p + 2)
          /\ q = p + 2 + 2 * (n - (i + 1)) + 1
      BY <1>4, <3>5 DEF ListStands
    <3>7. ASSUME NEW j \in i..n
          PROVE  p + 2 * (j - i) \in DOMAIN ts /\ ts[p + 2 * (j - i)] = Token(ls[j])
      <4>1. CASE j = i
        BY <3>3, <3>4, <4>1
      <4>2. CASE j # i
        <5>1. j \in (i + 1)..n /\ p + 2 + 2 * (j - (i + 1)) = p + 2 * (j - i)
          BY <3>3, <4>2
        <5> QED BY <3>6, <5>1 DEF ItemsStand
      <4> QED BY <4>1, <4>2
    <3>8. ASSUME NEW j \in i..n - 1
          PROVE  p + 2 * (j - i) + 1 \in DOMAIN ts /\ ts[p + 2 * (j - i) + 1].kind = "comma"
      <4>1. CASE j = i
        BY <3>3, <3>4, <4>1
      <4>2. CASE j # i
        <5>1. j \in (i + 1)..n - 1 /\ p + 2 + 2 * (j - (i + 1)) + 1 = p + 2 * (j - i) + 1
          BY <3>3, <4>2
        <5> QED BY <3>6, <5>1 DEF CommasStand
      <4> QED BY <4>1, <4>2
    <3>9. q = p + 2 * (n - i) + 1
      BY <3>3, <3>6
    <3> QED BY <3>7, <3>8, <3>9 DEF ItemsStand, CommasStand
  <2> QED BY <2>1, <2>2 DEF ListStands
<1>5. 1..n \subseteq P
  <2> HIDE DEF P
  <2> QED BY <1>3, <1>4, DownInduction
<1> QED BY <1>5

LEMMA ListsRead ==
  ASSUME NEW ts, IsTokens(ts), NEW n \in Nat \ {0}, NEW ls, NEW texts, Singles(texts, ls, n),
         NEW kinds, \A i \in 1..n : Token(ls[i]).kind \in kinds,
         NEW p, NEW q, Reads(ts, p, Separated(texts, Comma), q), ts[q].kind # "comma"
  PROVE  ParseList(kinds, ts, p) = Found([i \in 1..n |-> Token(ls[i]).value], q)
<1>1. \A i \in 1..n : texts[i] \in Seq(Lexeme)
  BY ShortTexts DEF Singles
<1>2. PICK f : IsSeparated(f, texts, Comma) /\ Separated(texts, Comma) = f[1]
  <2>1. Comma \in Lexeme
    BY LexemesToTokens
  <2>2. DOMAIN texts = 1..n /\ Len(texts) = n
    BY DEF Singles
  <2> QED BY <1>1, <2>1, <2>2, SeparatedUnfolds
<1>3. 1 \in 1..n /\ ListStands(ts, n, ls, f, 1) /\ p \in Nat \ {0}
  <2>1. \A i \in 1..n : ListStands(ts, n, ls, f, i)
    BY <1>2, ListTokens
  <2> QED BY <2>1 DEF Reads
<1>4. ItemsStand(ts, n, ls, 1, p) /\ CommasStand(ts, n, 1, p) /\ q = p + 2 * (n - 1) + 1
  BY <1>2, <1>3 DEF ListStands
<1>5. \A j \in 1..n : p + 2 * (j - 1) \in DOMAIN ts /\ ts[p + 2 * (j - 1)] = Token(ls[j])
  BY <1>4 DEF ItemsStand
<1>6. p \in DOMAIN ts
  <2>1. p + 2 * (1 - 1) = p
    BY <1>3
  <2> QED BY <1>3, <1>5, <2>1
<1>7. n - 1 = Commas(ts, p)
  <2>1. n - 1 \in Nat
    OBVIOUS
  <2>2. \A i \in 1..n - 1 : Separates(ts, p, i)
    <3> TAKE i \in 1..n - 1
    <3>1. p + 2 * (i - 1) + 1 = p + 2 * i - 1
      BY <1>3
    <3> QED BY <1>4, <3>1 DEF Separates, CommasStand
  <2>3. ~Separates(ts, p, n - 1 + 1)
    <3>1. p + 2 * (n - 1 + 1) - 1 = q
      BY <1>3, <1>4
    <3> QED BY <3>1 DEF Separates
  <2> QED BY <1>6, <2>1, <2>2, <2>3, CommasCounted
<1>8. ParseList(kinds, ts, p) = Items(kinds, ts, p, n)
  <2>1. Commas(ts, p) + 1 = n
    BY <1>7
  <2> QED BY <2>1 DEF ParseList
<1>9. ~\E i \in 1..n : ts[p + 2 * (i - 1)].kind \notin kinds
  BY <1>5
<1>10. [i \in 1..n |-> ts[p + 2 * (i - 1)].value] = [i \in 1..n |-> Token(ls[i]).value]
  BY <1>5
<1>11. p + 2 * n - 1 = q
  BY <1>3, <1>4
<1> QED BY <1>8, <1>9, <1>10, <1>11 DEF Items

(* The text of a list is one.                                               *)
LEMMA ListTexts ==
  ASSUME NEW n \in Nat \ {0}, NEW ls, NEW texts, Singles(texts, ls, n)
  PROVE  Separated(texts, Comma) \in Seq(Lexeme)
<1>1. \A i \in 1..n : texts[i] \in Seq(Lexeme)
  BY ShortTexts DEF Singles
<1>2. Comma \in Lexeme /\ DOMAIN texts = 1..n /\ Len(texts) = n
  BY LexemesToTokens DEF Singles
<1>3. PICK f : IsSeparated(f, texts, Comma) /\ Separated(texts, Comma) = f[1]
  BY <1>1, <1>2, SeparatedUnfolds
<1> QED BY <1>2, <1>3 DEF IsSeparated

-----------------------------------------------------------------------------
(* Conditions read back.                                                    *)

LEMMA ValueTexts ==
  ASSUME NEW v \in ScalarValue
  PROVE  ValueText(v) \in Lexeme /\ Token(ValueText(v)).kind \in ValueKinds /\ Token(ValueText(v)).value = v
<1>1. CASE v \in NumberValue
  <2>1. v.t = "number" /\ v.v \in Int /\ v = Number(v.v)
    BY <1>1 DEF NumberValue, Number
  <2>2. ValueText(v) = Digits(v.v)
    BY <2>1 DEF ValueText
  <2>3. Digits(v.v) \in Lexeme /\ Token(Digits(v.v)) = [kind |-> "number", value |-> Number(v.v)]
    BY <2>1, LexemesToTokens
  <2> QED BY <2>1, <2>2, <2>3 DEF ValueKinds
<1>2. CASE v \in StringValue
  <2>1. v.t = "string" /\ v.v \in Nat /\ v = String(v.v)
    BY <1>2 DEF StringValue, String
  <2> DEFINE l == [lex |-> "quoted", text |-> v.v]
  <2>2. ValueText(v) = l
    BY <2>1 DEF ValueText
  <2>3. l \in Lexeme /\ Token(l) = [kind |-> "string", value |-> String(v.v)]
    BY <2>1, LexemesToTokens
  <2> HIDE DEF l
  <2> QED BY <2>1, <2>2, <2>3 DEF ValueKinds
<1>3. CASE v = Null
  <2>1. v.t # "number" /\ v.t # "string"
    BY <1>3 DEF Null
  <2>2. ValueText(v) = Word("null")
    BY <2>1 DEF ValueText
  <2>3. Word("null") \in Lexeme /\ Token(Word("null")) = [kind |-> "null", value |-> Null]
    BY LexemesToTokens
  <2> QED BY <1>3, <2>2, <2>3 DEF ValueKinds
<1> QED BY <1>1, <1>2, <1>3 DEF ScalarValue

LEMMA OpTexts ==
  ASSUME NEW op \in Operators \cup {"contains"}
  PROVE  OpText(op) \in Lexeme /\ Token(OpText(op)) = [kind |-> "op", value |-> op]
<1>1. CASE op = "contains"
  BY <1>1, LexemesToTokens DEF OpText
<1>2. CASE op # "contains"
  <2>1. op \in Operators
    BY <1>2
  <2> QED BY <1>2, <2>1, LexemesToTokens DEF OpText
<1> QED BY <1>1, <1>2

LEMMA ShortReads ==
  ASSUME NEW ts, IsTokens(ts), NEW k \in Lexeme, NEW l \in Lexeme, NEW p, NEW q, Reads(ts, p, <<k, l>>, q)
  PROVE  Stands(ts, p, k) /\ Stands(ts, p + 1, l) /\ q = p + 2 /\ p \in Nat \ {0}
<1>1. Len(<<k, l>>) = 2 /\ <<k, l>>[1] = k /\ <<k, l>>[2] = l
  OBVIOUS
<1>2. /\ p \in Nat \ {0} /\ q = p + 2 /\ q \in DOMAIN ts /\ ts[p + 1 - 1] = Token(k) /\ ts[p + 2 - 1] = Token(l)
      /\ p + 1 - 1 = p /\ p + 2 - 1 = p + 1 /\ p + 1 + 1 = p + 2
  BY <1>1 DEF Reads
<1> QED BY <1>2 DEF IsTokens, Stands

(* The text of a condition after its field.                                 *)
ListText(c) == Separated([i \in DOMAIN c.value |-> <<ValueText(c.value[i])>>], Comma)

LEMMA ValueLists ==
  ASSUME NEW c, c.value \in Seq(ScalarValue) \ {<<>>}
  PROVE  /\ Len(c.value) \in Nat \ {0} /\ ListText(c) \in Seq(Lexeme)
         /\ \A ts, p, q : IsTokens(ts) /\ Reads(ts, p, ListText(c), q) /\ ts[q].kind # "comma"
              => ParseList(ValueKinds, ts, p) = Found(c.value, q)
<1> DEFINE n == Len(c.value)
           ls == [i \in 1..n |-> ValueText(c.value[i])]
           texts == [i \in DOMAIN c.value |-> <<ValueText(c.value[i])>>]
<1>1. n \in Nat \ {0} /\ DOMAIN c.value = 1..n /\ \A i \in 1..n : c.value[i] \in ScalarValue
  OBVIOUS
<1>2. texts = [i \in 1..n |-> <<ValueText(c.value[i])>>]
  BY <1>1
<1>3. \A i \in 1..n : texts[i] = <<ValueText(c.value[i])>> /\ ls[i] = ValueText(c.value[i])
  BY <1>2
<1>4. \A i \in 1..n : ls[i] \in Lexeme /\ Token(ls[i]).kind \in ValueKinds /\ Token(ls[i]).value = c.value[i]
  BY <1>1, <1>3, ValueTexts
<1>5. DOMAIN texts = 1..n /\ Len(texts) = n
  BY <1>1, <1>2
<1>6. ListText(c) = Separated(texts, Comma)
  BY DEF ListText
<1>7. c.value = [i \in 1..n |-> c.value[i]]
  BY <1>1
<1> HIDE DEF texts, ls, n
<1>8. Singles(texts, ls, n)
  BY <1>3, <1>4, <1>5 DEF Singles
<1>9. [i \in 1..n |-> Token(ls[i]).value] = c.value
  BY <1>4, <1>7
<1>10. ASSUME NEW ts, NEW p, NEW q, IsTokens(ts), Reads(ts, p, ListText(c), q), ts[q].kind # "comma"
       PROVE  ParseList(ValueKinds, ts, p) = Found(c.value, q)
  <2>1. \A i \in 1..n : Token(ls[i]).kind \in ValueKinds
    BY <1>4
  <2>2. Reads(ts, p, Separated(texts, Comma), q)
    BY <1>6, <1>10
  <2>3. ParseList(ValueKinds, ts, p) = Found([i \in 1..n |-> Token(ls[i]).value], q)
    BY <1>1, <1>8, <1>10, <2>1, <2>2, ListsRead
  <2> QED BY <1>9, <2>3
<1>11. ListText(c) \in Seq(Lexeme)
  BY <1>1, <1>6, <1>8, ListTexts
<1> QED BY <1>1, <1>10, <1>11 DEF n

(* The three forms of a condition's text.                                   *)
LEMMA ConditionForms ==
  ASSUME NEW c, IsCondition(c)
  PROVE  /\ Name(c.field) \in Lexeme
         /\ \/ /\ c = Condition(c.field, "exists", Null)
               /\ ConditionText(c) = <<Name(c.field)>> \o <<Word("exists")>>
            \/ /\ c = Condition(c.field, "in", c.value) /\ c.value \in Seq(ScalarValue) \ {<<>>}
               /\ ConditionText(c) = <<Name(c.field)>> \o (<<Word("in"), Symbol("(")>> \o ListText(c) \o <<Symbol(")")>>)
            \/ /\ c = Condition(c.field, c.op, c.value) /\ c.op \in Operators \cup {"contains"}
               /\ c.value \in ScalarValue
               /\ ConditionText(c) = <<Name(c.field)>> \o <<OpText(c.op), ValueText(c.value)>>
<1>1. Name(c.field) \in Lexeme
  BY LexemesToTokens DEF IsCondition
<1>2. CASE c.op = "exists" /\ c.value = Null
  BY <1>1, <1>2 DEF IsCondition, ConditionText
<1>3. CASE c.op = "in" /\ c.value \in Seq(ScalarValue) \ {<<>>}
  BY <1>1, <1>3 DEF IsCondition, ConditionText, ListText
<1>4. CASE c.op \in Operators \cup {"contains"} /\ c.value \in ScalarValue
  <2>1. c.op # "exists" /\ c.op # "in"
    BY <1>4 DEF Operators
  <2> QED BY <1>1, <1>4, <2>1 DEF IsCondition, ConditionText
<1> QED BY <1>2, <1>3, <1>4 DEF IsCondition

LEMMA ConditionTexts ==
  ASSUME NEW c, IsCondition(c)
  PROVE  ConditionText(c) \in Seq(Lexeme)
<1>1. Name(c.field) \in Lexeme /\ <<Name(c.field)>> \in Seq(Lexeme)
  <2>1. Name(c.field) \in Lexeme
    BY ConditionForms
  <2> QED BY <2>1, ShortTexts
<1>2. CASE ConditionText(c) = <<Name(c.field)>> \o <<Word("exists")>>
  <2>1. Word("exists") \in Lexeme
    BY LexemesToTokens DEF Keywords
  <2> QED BY <1>1, <1>2, <2>1
<1>3. CASE /\ c.value \in Seq(ScalarValue) \ {<<>>}
           /\ ConditionText(c) = <<Name(c.field)>> \o (<<Word("in"), Symbol("(")>> \o ListText(c) \o <<Symbol(")")>>)
  <2>1. Word("in") \in Lexeme /\ Symbol("(") \in Lexeme /\ Symbol(")") \in Lexeme /\ ListText(c) \in Seq(Lexeme)
    BY <1>3, LexemesToTokens, ValueLists DEF Keywords
  <2>2. <<Word("in"), Symbol("(")>> \in Seq(Lexeme) /\ <<Symbol(")")>> \in Seq(Lexeme)
    BY <2>1
  <2>3. <<Word("in"), Symbol("(")>> \o ListText(c) \in Seq(Lexeme)
    BY <2>1, <2>2, JoinedTexts
  <2>4. <<Word("in"), Symbol("(")>> \o ListText(c) \o <<Symbol(")")>> \in Seq(Lexeme)
    BY <2>2, <2>3, JoinedTexts
  <2> QED BY <1>1, <1>3, <2>4, JoinedTexts
<1>4. CASE /\ c.op \in Operators \cup {"contains"} /\ c.value \in ScalarValue
           /\ ConditionText(c) = <<Name(c.field)>> \o <<OpText(c.op), ValueText(c.value)>>
  <2>1. OpText(c.op) \in Lexeme /\ ValueText(c.value) \in Lexeme
    BY <1>4, OpTexts, ValueTexts
  <2>2. <<OpText(c.op), ValueText(c.value)>> \in Seq(Lexeme)
    BY <2>1
  <2> QED BY <1>1, <1>4, <2>2, JoinedTexts
<1> QED BY <1>2, <1>3, <1>4, ConditionForms

LEMMA ConditionsRead ==
  ASSUME NEW c, IsCondition(c), NEW ts, IsTokens(ts), NEW p, NEW q, Reads(ts, p, ConditionText(c), q)
  PROVE  ParseCondition(ts, p) = Found(c, q) /\ ts[p].kind = "ident"
<1> DEFINE field == Name(c.field)
<1>1. field \in Lexeme /\ Token(field) = [kind |-> "ident", value |-> c.field]
  BY LexemesToTokens DEF IsCondition
<1>2. ASSUME NEW t \in Seq(Lexeme), ConditionText(c) = <<field>> \o t
      PROVE  /\ Reads(ts, p + 1, t, q) /\ p \in Nat \ {0}
             /\ ts[p].kind = "ident" /\ ts[p].value = c.field
  <2> DEFINE u == ConditionText(c)
  <2>1. u = <<field>> \o t /\ Reads(ts, p, u, q)
    BY <1>2
  <2> HIDE DEF u, field
  <2>2. Stands(ts, p, field) /\ Reads(ts, p + 1, t, q) /\ p \in Nat \ {0}
    BY <1>1, <2>1, ReadsFirst
  <2> QED BY <1>1, <2>2 DEF Stands
<1>3. CASE c = Condition(c.field, "exists", Null) /\ ConditionText(c) = <<field>> \o <<Word("exists")>>
  <2>1. Word("exists") \in Lexeme /\ Token(Word("exists")) = [kind |-> "keyword", value |-> "exists"]
    BY LexemesToTokens DEF Keywords
  <2>2. <<Word("exists")>> \in Seq(Lexeme)
    BY <2>1
  <2>3. Reads(ts, p + 1, <<Word("exists")>>, q) /\ p \in Nat \ {0} /\ ts[p].kind = "ident" /\ ts[p].value = c.field
    BY <1>2, <1>3, <2>2
  <2>4. Stands(ts, p + 1, Word("exists")) /\ q = p + 1 + 1
    BY <2>1, <2>3, ReadsOne
  <2>5. Keyword(ts, p + 1, "exists") /\ q = p + 2
    BY <2>1, <2>3, <2>4 DEF Stands, Keyword, Match
  <2> QED BY <1>3, <2>3, <2>5 DEF ParseCondition
<1>4. CASE /\ c = Condition(c.field, "in", c.value) /\ c.value \in Seq(ScalarValue) \ {<<>>}
           /\ ConditionText(c) = <<field>> \o (<<Word("in"), Symbol("(")>> \o ListText(c) \o <<Symbol(")")>>)
  <2> DEFINE open == <<Word("in"), Symbol("(")>>
             list == ListText(c)
             body == open \o list
             t == body \o <<Symbol(")")>>
  <2>1. /\ Word("in") \in Lexeme /\ Token(Word("in")) = [kind |-> "keyword", value |-> "in"]
        /\ Symbol("(") \in Lexeme /\ Token(Symbol("(")) = [kind |-> "lparen", value |-> "("]
        /\ Symbol(")") \in Lexeme /\ Token(Symbol(")")) = [kind |-> "rparen", value |-> ")"]
    BY LexemesToTokens DEF Keywords
  <2>2. open \in Seq(Lexeme) /\ list \in Seq(Lexeme) /\ <<Symbol(")")>> \in Seq(Lexeme)
    BY <1>4, <2>1, ValueLists
  <2>3. body \in Seq(Lexeme)
    BY <2>2, JoinedTexts
  <2>4. t \in Seq(Lexeme)
    BY <2>2, <2>3, JoinedTexts
  <2>5. Reads(ts, p + 1, t, q) /\ p \in Nat \ {0} /\ ts[p].kind = "ident" /\ ts[p].value = c.field
    BY <1>2, <1>4, <2>4
  <2> DEFINE close == <<Symbol(")")>>
  <2>6. t = body \o close /\ close \in Seq(Lexeme) /\ body = open \o list
    BY <2>2
  <2> HIDE DEF t, body, list, close
  <2>7. PICK k : Reads(ts, p + 1, body, k) /\ Reads(ts, k, close, q)
    BY <2>3, <2>5, <2>6, ReadsParts
  <2> HIDE DEF open
  <2>8. PICK m : Reads(ts, p + 1, open, m) /\ Reads(ts, m, list, k)
    BY <2>2, <2>6, <2>7, ReadsParts
  <2>9. Stands(ts, p + 1, Word("in")) /\ Stands(ts, p + 1 + 1, Symbol("(")) /\ m = p + 1 + 2
    BY <2>1, <2>8, ShortReads DEF open
  <2>10. Stands(ts, k, Symbol(")")) /\ q = k + 1 /\ k \in Nat \ {0}
    BY <2>1, <2>7, ReadsOne DEF close
  <2>11. /\ Keyword(ts, p + 1, "in") /\ ~Keyword(ts, p + 1, "exists") /\ ts[p + 2].kind = "lparen"
         /\ m = p + 3 /\ ts[k].kind = "rparen"
    BY <2>1, <2>5, <2>9, <2>10 DEF Stands, Keyword, Match
  <2>12. ParseList(ValueKinds, ts, p + 3) = Found(c.value, k)
    <3>1. Reads(ts, p + 3, ListText(c), k) /\ ts[k].kind # "comma"
      BY <2>8, <2>11 DEF list
    <3> QED BY <1>4, <3>1, ValueLists
  <2>13. Closed(ts, ParseList(ValueKinds, ts, p + 3)) = Found(c.value, q)
    BY <2>10, <2>11, <2>12, Results DEF Closed
  <2>14. q # 0
    BY <2>10
  <2>15. InList(c.field, Found(c.value, q)) = Found(Condition(c.field, "in", c.value), q)
    BY <2>14, Results DEF InList
  <2>16. ParseCondition(ts, p) = InList(ts[p].value, Closed(ts, ParseList(ValueKinds, ts, p + 3)))
    BY <2>5, <2>11 DEF ParseCondition
  <2> QED BY <1>4, <2>5, <2>13, <2>15, <2>16
<1>5. CASE /\ c = Condition(c.field, c.op, c.value) /\ c.op \in Operators \cup {"contains"}
           /\ c.value \in ScalarValue
           /\ ConditionText(c) = <<field>> \o <<OpText(c.op), ValueText(c.value)>>
  <2>1. /\ OpText(c.op) \in Lexeme /\ Token(OpText(c.op)) = [kind |-> "op", value |-> c.op]
        /\ ValueText(c.value) \in Lexeme /\ Token(ValueText(c.value)).kind \in ValueKinds
        /\ Token(ValueText(c.value)).value = c.value
    BY <1>5, OpTexts, ValueTexts
  <2>2. <<OpText(c.op), ValueText(c.value)>> \in Seq(Lexeme)
    BY <2>1
  <2>3. /\ Reads(ts, p + 1, <<OpText(c.op), ValueText(c.value)>>, q)
        /\ p \in Nat \ {0} /\ ts[p].kind = "ident" /\ ts[p].value = c.field
    BY <1>2, <1>5, <2>2
  <2>4. /\ Stands(ts, p + 1, OpText(c.op)) /\ Stands(ts, p + 1 + 1, ValueText(c.value)) /\ q = p + 1 + 2
    BY <2>1, <2>3, ShortReads
  <2>5. /\ ts[p + 1].kind = "op" /\ ts[p + 1].value = c.op
        /\ ts[p + 2].kind \in ValueKinds /\ ts[p + 2].value = c.value /\ q = p + 3
    <3>1. p + 1 + 1 = p + 2 /\ p + 1 + 2 = p + 3
      BY <2>3
    <3> QED BY <2>1, <2>4, <3>1 DEF Stands
  <2>6. ~Keyword(ts, p + 1, "exists") /\ ~Keyword(ts, p + 1, "in")
    BY <2>5 DEF Keyword, Match
  <2> QED BY <1>5, <2>3, <2>5, <2>6 DEF ParseCondition
<1> QED BY <1>3, <1>4, <1>5, ConditionForms

-----------------------------------------------------------------------------
(* The texts of where clauses.                                              *)

OperandText(g, word, y) == IF y.type \in {"or", word} THEN Parenthesised(g[y]) ELSE g[y]

OperandTexts(g, x) == [i \in DOMAIN x.exprs |-> OperandText(g, x.type, x.exprs[i])]

WhereStep(g, x) ==
  CASE x.type = "condition" -> ConditionText(x)
    [] x.type = "not" -> <<Word("not")>> \o (IF x.expr.type = "condition" THEN g[x.expr]
                                             ELSE Parenthesised(g[x.expr]))
    [] x.type \in {"and", "or"} -> Separated(OperandTexts(g, x), Word(x.type))
    [] OTHER -> <<>>

LEMMA ParenthesisedTexts ==
  ASSUME NEW t \in Seq(Lexeme)
  PROVE  Parenthesised(t) \in Seq(Lexeme)
<1>1. <<Symbol("(")>> \in Seq(Lexeme) /\ <<Symbol(")")>> \in Seq(Lexeme)
  BY LexemesToTokens, ShortTexts
<1>2. <<Symbol("(")>> \o t \in Seq(Lexeme)
  BY <1>1, JoinedTexts
<1> QED BY <1>1, <1>2, JoinedTexts DEF Parenthesised

(* A clause of each type.                                                   *)
LEMMA ClauseShapes ==
  ASSUME NEW e \in Clauses
  PROVE  \/ e = NoWhere /\ e.type = "none"
         \/ e.type = "condition" /\ IsCondition(e)
         \/ e.type = "not" /\ e = [type |-> "not", expr |-> e.expr] /\ e.expr \in Children(e)
            /\ e.expr \in Clauses /\ e.expr.type # "none"
         \/ /\ e.type \in {"and", "or"} /\ e = [type |-> e.type, exprs |-> e.exprs]
            /\ Len(e.exprs) \in Nat /\ Len(e.exprs) > 1 /\ DOMAIN e.exprs = 1..Len(e.exprs)
            /\ e.exprs = [i \in 1..Len(e.exprs) |-> e.exprs[i]]
            /\ \A i \in 1..Len(e.exprs) : /\ e.exprs[i] \in Clauses /\ e.exprs[i] \in Children(e)
                                          /\ e.exprs[i].type # "none"
<1>1. CASE e = NoWhere
  BY <1>1 DEF NoWhere
<1>2. CASE e.type = "not" /\ e = [type |-> "not", expr |-> e.expr]
  <2>1. e.expr \in Children(e)
    BY <1>2 DEF Children
  <2> QED BY <1>2, <2>1, ClauseAssumption
<1>3. CASE /\ e.type \in {"and", "or"} /\ e = [type |-> e.type, exprs |-> e.exprs]
           /\ e.exprs \in Seq(Clauses) /\ Len(e.exprs) > 1
  <2>1. \A i \in DOMAIN e.exprs : e.exprs[i] \in Children(e)
    BY <1>3 DEF Children
  <2>2. /\ Len(e.exprs) \in Nat /\ DOMAIN e.exprs = 1..Len(e.exprs)
        /\ \A i \in 1..Len(e.exprs) : e.exprs[i] \in Clauses
        /\ e.exprs = [i \in 1..Len(e.exprs) |-> e.exprs[i]]
    BY <1>3
  <2>3. \A i \in 1..Len(e.exprs) : e.exprs[i] \in Children(e) /\ e.exprs[i].type # "none"
    BY <2>1, <2>2, ClauseAssumption
  <2> QED BY <1>3, <2>2, <2>3
<1> QED BY <1>1, <1>2, <1>3, ShapeAssumption

LEMMA WhereStepIsText ==
  ASSUME NEW g \in [Clauses -> Seq(Lexeme)], NEW x \in Clauses
  PROVE  WhereStep(g, x) \in Seq(Lexeme)
<1>1. CASE x = NoWhere /\ x.type = "none"
  BY <1>1 DEF WhereStep
<1>2. CASE x.type = "condition" /\ IsCondition(x)
  BY <1>2, ConditionTexts DEF WhereStep
<1>3. CASE x.type = "not" /\ x.expr \in Clauses
  <2>1. g[x.expr] \in Seq(Lexeme) /\ Parenthesised(g[x.expr]) \in Seq(Lexeme)
    BY <1>3, ParenthesisedTexts
  <2>2. <<Word("not")>> \in Seq(Lexeme)
    BY LexemesToTokens, ShortTexts DEF Keywords
  <2> DEFINE t == IF x.expr.type = "condition" THEN g[x.expr] ELSE Parenthesised(g[x.expr])
  <2>3. WhereStep(g, x) = <<Word("not")>> \o t
    BY <1>3 DEF WhereStep
  <2>4. t \in Seq(Lexeme)
    BY <2>1
  <2> HIDE DEF t
  <2> QED BY <2>2, <2>3, <2>4, JoinedTexts
<1>4. CASE /\ x.type \in {"and", "or"} /\ Len(x.exprs) \in Nat /\ Len(x.exprs) > 1
           /\ DOMAIN x.exprs = 1..Len(x.exprs) /\ \A i \in 1..Len(x.exprs) : x.exprs[i] \in Clauses
  <2> DEFINE n == Len(x.exprs)
             texts == OperandTexts(g, x)
  <2>1. n \in Nat \ {0} /\ DOMAIN texts = 1..n /\ Len(texts) = n
    BY <1>4 DEF OperandTexts
  <2>2. ASSUME NEW i \in 1..n
        PROVE  texts[i] \in Seq(Lexeme)
    <3>1. texts[i] = OperandText(g, x.type, x.exprs[i])
      BY <1>4 DEF OperandTexts
    <3>2. g[x.exprs[i]] \in Seq(Lexeme)
      BY <1>4
    <3> QED BY <3>1, <3>2, ParenthesisedTexts DEF OperandText
  <2>3. Word(x.type) \in Lexeme
    BY <1>4, LexemesToTokens DEF Keywords
  <2>4. WhereStep(g, x) = Separated(texts, Word(x.type))
    BY <1>4 DEF WhereStep
  <2> HIDE DEF n, texts
  <2>5. PICK f : IsSeparated(f, texts, Word(x.type)) /\ Separated(texts, Word(x.type)) = f[1]
    BY <2>1, <2>2, <2>3, SeparatedUnfolds
  <2>6. 1 \in DOMAIN texts
    BY <2>1
  <2>7. f[1] \in Seq(Lexeme)
    BY <2>5, <2>6 DEF IsSeparated
  <2> QED BY <2>4, <2>5, <2>7
<1> QED BY <1>1, <1>2, <1>3, <1>4, ClauseShapes

Wheres == [x \in Clauses |-> WhereText(x)]

LEMMA WhereTextUnfolds ==
  /\ Wheres \in [Clauses -> Seq(Lexeme)]
  /\ \A x \in Clauses : Wheres[x] = WhereText(x) /\ Wheres[x] = WhereStep(Wheres, x)
<1> DEFINE V == Seq(Lexeme)
           F == [g \in [Clauses -> V] |-> [x \in Clauses |-> WhereStep(g, x)]]
           where == CHOOSE f : f = [x \in Clauses |-> WhereStep(f, x)]
<1>1. <<>> \in V
  OBVIOUS
<1>2. F \in [[Clauses -> V] -> [Clauses -> V]]
  BY WhereStepIsText
<1>3. ASSUME NEW g, NEW h, NEW x \in Clauses, \A y \in Children(x) : g[y] = h[y]
      PROVE  WhereStep(g, x) = WhereStep(h, x)
  <2>1. CASE x = NoWhere /\ x.type = "none"
    BY <2>1 DEF WhereStep
  <2>2. CASE x.type = "condition"
    BY <2>2 DEF WhereStep
  <2>3. CASE x.type = "not" /\ x.expr \in Children(x)
    BY <1>3, <2>3 DEF WhereStep
  <2>4. CASE x.type \in {"and", "or"} /\ DOMAIN x.exprs = 1..Len(x.exprs) /\ \A i \in 1..Len(x.exprs) : x.exprs[i] \in Children(x)
    <3>1. \A i \in DOMAIN x.exprs : OperandText(g, x.type, x.exprs[i]) = OperandText(h, x.type, x.exprs[i])
      BY <1>3, <2>4 DEF OperandText
    <3>2. OperandTexts(g, x) = OperandTexts(h, x)
      BY <3>1 DEF OperandTexts
    <3> QED BY <2>4, <3>2 DEF WhereStep
  <2> QED BY <2>1, <2>2, <2>3, <2>4, ClauseShapes
<1>4. \A g, h \in [Clauses -> V] : \A x \in Clauses :
        (\A y \in Children(x) : g[y] = h[y]) => F[g][x] = F[h][x]
  <2> TAKE g \in [Clauses -> V], h \in [Clauses -> V]
  <2> TAKE x \in Clauses
  <2> HAVE \A y \in Children(x) : g[y] = h[y]
  <2>1. WhereStep(g, x) = WhereStep(h, x)
    BY <1>3
  <2>2. F[g][x] = WhereStep(g, x) /\ F[h][x] = WhereStep(h, x)
    OBVIOUS
  <2> HIDE DEF F
  <2> QED BY <2>1, <2>2
<1>5. PICK f \in [Clauses -> V] : f = F[f]
  <2> HIDE DEF F, V
  <2> QED BY <1>1, <1>2, <1>4, RecursiveFunctionExists
<1>6. f = [x \in Clauses |-> WhereStep(f, x)]
  BY <1>5
<1>7. where = [x \in Clauses |-> WhereStep(where, x)]
  BY <1>6
<1>8. \A x : WhereText(x) = where[x]
  BY DEF WhereText, WhereStep, OperandText, OperandTexts
<1> HIDE DEF where
<1>9. Wheres = where
  BY <1>7, <1>8 DEF Wheres
<1>10. \A x \in Clauses : where[x] = WhereStep(where, x)
  BY <1>7
<1>11. \A x \in Clauses : where[x] \in V
  <2> DEFINE P == {x \in Clauses : where[x] \in V}
  <2>1. ASSUME NEW x \in Clauses, Children(x) \subseteq P
        PROVE  x \in P
    <3> DEFINE g == [y \in Clauses |-> IF y \in P THEN where[y] ELSE <<>>]
    <3>1. g \in [Clauses -> V]
      BY <1>1
    <3>2. \A y \in Children(x) : g[y] = where[y]
      BY <2>1
    <3> HIDE DEF g
    <3>3. WhereStep(g, x) = WhereStep(where, x)
      BY <1>3, <3>2
    <3>4. WhereStep(g, x) \in V
      BY <3>1, WhereStepIsText
    <3> QED BY <1>10, <3>3, <3>4
  <2>2. Clauses \subseteq P
    <3> HIDE DEF P
    <3> QED BY <2>1, ClauseInduction
  <2> QED BY <2>2
<1>12. where \in [Clauses -> V]
  <2> HIDE DEF V
  <2> QED BY <1>7, <1>11
<1> QED BY <1>8, <1>9, <1>10, <1>12

-----------------------------------------------------------------------------
(* Where clauses read back.                                                 *)

LEMMA ReadsRange ==
  ASSUME NEW ts, IsTokens(ts), NEW t, NEW p, NEW q, Reads(ts, p, t, q)
  PROVE  p \in Nat \ {0} /\ p \in DOMAIN ts /\ q \in DOMAIN ts /\ q \in Nat \ {0} /\ q # 0
<1>1. p \in Nat \ {0} /\ Len(t) \in Nat /\ q = p + Len(t) /\ q \in 1..Len(ts) /\ DOMAIN ts = 1..Len(ts) /\ Len(ts) \in Nat
  BY DEF Reads, IsTokens
<1> QED BY <1>1

(* A chain of one operand.                                                  *)
LEMMA SingleChain ==
  ASSUME NEW ts, IsTokens(ts), NEW word \in {"or", "and"}, NEW p \in DOMAIN ts, NEW e, NEW q, q # 0,
         Operand(ts, Chains(ts), word, p) = Found(e, q), ~Keyword(ts, q, word)
  PROVE  Whole(word, Chains(ts)[<<word, p>>]) = Found(e, q)
<1> DEFINE x == <<word, p>>
<1>1. x \in Spots(ts) /\ x[1] = word /\ x[2] = p
  BY DEF Spots
<1> HIDE DEF x
<1>2. Chains(ts)[x] = ChainFrom(ts, Chains(ts), word, Found(e, q))
  BY <1>1, ChainsUnfold DEF ChainAt
<1>3. ChainFrom(ts, Chains(ts), word, Found(e, q)) = Found(<<e>>, q)
  BY Results DEF ChainFrom
<1>4. Whole(word, Found(<<e>>, q)) = Found(e, q)
  <2>1. Len(<<e>>) = 1 /\ <<e>>[1] = e
    OBVIOUS
  <2> QED BY <2>1, Results DEF Whole
<1> QED BY <1>2, <1>3, <1>4 DEF x

ReadsNot(ts, e) ==
  \A p, q : Reads(ts, p, Wheres[e], q) => ParseNot(ts, Chains(ts), p) = Found(e, q)

ReadsAnd(ts, e) ==
  \A p, q : Reads(ts, p, Wheres[e], q) /\ ~Keyword(ts, q, "and") =>
    Whole("and", Chains(ts)[<<"and", p>>]) = Found(e, q)

ReadsOr(ts, e) ==
  \A p, q : Reads(ts, p, Wheres[e], q) /\ ~Keyword(ts, q, "and") /\ ~Keyword(ts, q, "or") =>
    ParseWhere(ts, p) = Found(e, q)

LEMMA AndsRead ==
  ASSUME NEW ts, IsTokens(ts), NEW e, ReadsNot(ts, e)
  PROVE  ReadsAnd(ts, e)
<1> SUFFICES ASSUME NEW p, NEW q, Reads(ts, p, Wheres[e], q), ~Keyword(ts, q, "and")
             PROVE  Whole("and", Chains(ts)[<<"and", p>>]) = Found(e, q)
  BY DEF ReadsAnd
<1>1. p \in DOMAIN ts /\ q # 0
  BY ReadsRange
<1>2. Operand(ts, Chains(ts), "and", p) = Found(e, q)
  BY DEF ReadsNot, Operand
<1> QED BY <1>1, <1>2, SingleChain

LEMMA OrsRead ==
  ASSUME NEW ts, IsTokens(ts), NEW e, ReadsAnd(ts, e)
  PROVE  ReadsOr(ts, e)
<1> SUFFICES ASSUME NEW p, NEW q, Reads(ts, p, Wheres[e], q), ~Keyword(ts, q, "and"), ~Keyword(ts, q, "or")
             PROVE  ParseWhere(ts, p) = Found(e, q)
  BY DEF ReadsOr
<1>1. p \in DOMAIN ts /\ q # 0
  BY ReadsRange
<1>2. Operand(ts, Chains(ts), "or", p) = Found(e, q)
  BY DEF ReadsAnd, Operand
<1> QED BY <1>1, <1>2, SingleChain DEF ParseWhere

(* A clause in parentheses is a primary.                                    *)
LEMMA ParenthesesRead ==
  ASSUME NEW ts, IsTokens(ts), NEW e, Wheres[e] \in Seq(Lexeme), ReadsOr(ts, e),
         NEW p, NEW q, Reads(ts, p, Parenthesised(Wheres[e]), q)
  PROVE  ParsePrimary(ts, Chains(ts), p) = Found(e, q) /\ ts[p].kind = "lparen"
<1> DEFINE open == <<Symbol("(")>>
           t == Wheres[e]
           a == open \o t
           close == <<Symbol(")")>>
           u == a \o close
<1>1. /\ Symbol("(") \in Lexeme /\ Token(Symbol("(")) = [kind |-> "lparen", value |-> "("]
      /\ Symbol(")") \in Lexeme /\ Token(Symbol(")")) = [kind |-> "rparen", value |-> ")"]
  BY LexemesToTokens
<1>2. open \in Seq(Lexeme) /\ close \in Seq(Lexeme) /\ t \in Seq(Lexeme)
  BY <1>1, ShortTexts
<1>3. a \in Seq(Lexeme) /\ a = open \o t /\ u = a \o close /\ Reads(ts, p, u, q)
  BY <1>2, JoinedTexts DEF Parenthesised
<1> HIDE DEF u, a, t, close
<1>4. PICK k : Reads(ts, p, a, k) /\ Reads(ts, k, close, q)
  BY <1>2, <1>3, ReadsParts
<1>5. Stands(ts, p, Symbol("(")) /\ Reads(ts, p + 1, t, k)
  BY <1>1, <1>2, <1>3, <1>4, ReadsFirst
<1>6. Stands(ts, k, Symbol(")")) /\ q = k + 1 /\ k \in Nat \ {0}
  BY <1>1, <1>4, ReadsOne DEF close
<1>7. ts[p].kind = "lparen" /\ ts[k].kind = "rparen" /\ ~Keyword(ts, k, "and") /\ ~Keyword(ts, k, "or")
  BY <1>1, <1>5, <1>6 DEF Stands, Keyword, Match
<1>8. ParseWhere(ts, p + 1) = Found(e, k)
  BY <1>5, <1>7 DEF ReadsOr, t
<1>9. ParsePrimary(ts, Chains(ts), p) = Closed(ts, ParseWhere(ts, p + 1))
  BY <1>7 DEF ParsePrimary, ParseWhere
<1>10. Closed(ts, Found(e, k)) = Found(e, q)
  BY <1>6, <1>7, Results DEF Closed
<1> QED BY <1>7, <1>8, <1>9, <1>10

(* A chain whose operands are read is read, from each of them on.           *)
Follows(ts, word, q) == word = "or" => ~Keyword(ts, q, "and")

OperandsRead(ts, word, n, texts, nodes) ==
  \A i \in 1..n : \A p, q : Reads(ts, p, texts[i], q) /\ Follows(ts, word, q) =>
    Operand(ts, Chains(ts), word, p) = Found(nodes[i], q)

ChainStands(ts, word, n, nodes, f, i) ==
  \A p, q : Reads(ts, p, f[i], q) /\ Follows(ts, word, q) /\ ~Keyword(ts, q, word) =>
    Chains(ts)[<<word, p>>] = Found([j \in 1..n - i + 1 |-> nodes[i + j - 1]], q)

LEMMA PrependedNodes ==
  ASSUME NEW n \in Nat, NEW i \in 1..n - 1, NEW nodes
  PROVE  <<nodes[i]>> \o [j \in 1..n - (i + 1) + 1 |-> nodes[i + 1 + j - 1]] = [j \in 1..n - i + 1 |-> nodes[i + j - 1]]
<1> DEFINE S == {nodes[j] : j \in 1..n}
           m == n - i
           s == <<nodes[i]>>
           t == [j \in 1..m |-> nodes[i + j]]
           u == [j \in 1..m + 1 |-> nodes[i + j - 1]]
<1>1. m \in Nat /\ n - (i + 1) + 1 = m /\ n - i + 1 = m + 1
  OBVIOUS
<1>2. s \in Seq(S) /\ Len(s) = 1 /\ s[1] = nodes[i]
  <2>1. nodes[i] \in S
    OBVIOUS
  <2> HIDE DEF S
  <2> QED BY <2>1
<1>3. \A j \in 1..m : nodes[i + j] \in S /\ i + 1 + j - 1 = i + j
  OBVIOUS
<1>4. t = [j \in 1..n - (i + 1) + 1 |-> nodes[i + 1 + j - 1]]
  BY <1>1, <1>3
<1>5. u = [j \in 1..n - i + 1 |-> nodes[i + j - 1]]
  BY <1>1
<1> HIDE DEF S, m
<1>6. t \in [1..m -> S]
  BY <1>1, <1>3
<1>7. t \in Seq(S) /\ Len(t) = m /\ \A j \in 1..m : t[j] = nodes[i + j]
  BY <1>1, <1>6
<1>8. DOMAIN u = 1..m + 1 /\ u = [j \in 1..m + 1 |-> u[j]] /\ \A j \in 1..m + 1 : u[j] = nodes[i + j - 1]
  OBVIOUS
<1> HIDE DEF s, t, u
<1>9. /\ s \o t \in Seq(S) /\ Len(s \o t) = m + 1 /\ (s \o t)[1] = nodes[i]
      /\ \A j \in 1..m : (s \o t)[1 + j] = nodes[i + j]
  <2>1. s \o t \in Seq(S) /\ Len(s \o t) = Len(s) + Len(t)
    BY <1>2, <1>7, JoinedTexts
  <2>2. \A k \in 1..Len(s) : (s \o t)[k] = s[k]
    BY <1>2, <1>7, JoinedTexts
  <2>3. \A k \in 1..Len(t) : (s \o t)[Len(s) + k] = t[k]
    <3>1. s \in Seq(S) /\ t \in Seq(S)
      BY <1>2, <1>7
    <3> QED BY <3>1
  <2> QED BY <1>1, <1>2, <1>7, <2>1, <2>2, <2>3
<1>10. ASSUME NEW j \in 1..m + 1
       PROVE  (s \o t)[j] = nodes[i + j - 1]
  <2>1. CASE j = 1
    BY <1>9, <2>1
  <2>2. CASE j # 1
    <3>1. j - 1 \in 1..m /\ 1 + (j - 1) = j /\ i + (j - 1) = i + j - 1
      BY <1>1, <2>2
    <3> QED BY <1>9, <3>1
  <2> QED BY <2>1, <2>2
<1>11. s \o t = [j \in 1..m + 1 |-> (s \o t)[j]]
  <2> DEFINE w == s \o t
  <2>1. w \in Seq(S) /\ Len(w) = m + 1 /\ m + 1 \in Nat
    BY <1>1, <1>9
  <2> HIDE DEF w
  <2>2. w = [j \in 1..m + 1 |-> w[j]]
    BY <2>1
  <2> QED BY <2>2 DEF w
<1>12. s \o t = u
  BY <1>8, <1>10, <1>11
<1> QED BY <1>4, <1>5, <1>12 DEF s

LEMMA ChainReads ==
  ASSUME NEW ts, IsTokens(ts), NEW word \in {"or", "and"}, NEW n \in Nat \ {0},
         NEW texts, DOMAIN texts = 1..n, Len(texts) = n, \A i \in 1..n : texts[i] \in Seq(Lexeme),
         NEW nodes, OperandsRead(ts, word, n, texts, nodes),
         NEW f, IsSeparated(f, texts, Word(word))
  PROVE  ChainStands(ts, word, n, nodes, f, 1)
<1> DEFINE P == {i \in 1..n : ChainStands(ts, word, n, nodes, f, i)}
           sep == Word(word)
<1>1. sep \in Lexeme /\ Token(sep) = [kind |-> "keyword", value |-> word]
  BY LexemesToTokens DEF Keywords
<1> HIDE DEF sep
<1>2. \A i \in 1..n : /\ f[i] = IF i = n THEN texts[i] ELSE texts[i] \o <<sep>> \o f[i + 1]
                      /\ f[i] \in Seq(Lexeme)
  BY DEF IsSeparated, sep
<1>3. ASSUME NEW i \in 1..n, NEW p, NEW q, Reads(ts, p, texts[i], q), Follows(ts, word, q)
      PROVE  /\ p \in DOMAIN ts /\ q # 0
             /\ Chains(ts)[<<word, p>>] = ChainFrom(ts, Chains(ts), word, Found(nodes[i], q))
  <2>1. p \in DOMAIN ts /\ q # 0
    BY <1>3, ReadsRange
  <2>2. Operand(ts, Chains(ts), word, p) = Found(nodes[i], q)
    BY <1>3 DEF OperandsRead
  <2> DEFINE x == <<word, p>>
  <2>3. x \in Spots(ts) /\ x[1] = word /\ x[2] = p
    BY <2>1 DEF Spots
  <2> HIDE DEF x
  <2>4. Chains(ts)[x] = ChainFrom(ts, Chains(ts), word, Found(nodes[i], q))
    BY <2>2, <2>3, ChainsUnfold DEF ChainAt
  <2> QED BY <2>1, <2>4 DEF x
<1>4. n \in P
  <2>1. n \in 1..n /\ f[n] = texts[n]
    BY <1>2
  <2>2. ASSUME NEW p, NEW q, Reads(ts, p, f[n], q), Follows(ts, word, q), ~Keyword(ts, q, word)
        PROVE  Chains(ts)[<<word, p>>] = Found([j \in 1..n - n + 1 |-> nodes[n + j - 1]], q)
    <3>1. q # 0 /\ Chains(ts)[<<word, p>>] = ChainFrom(ts, Chains(ts), word, Found(nodes[n], q))
      BY <1>3, <2>1, <2>2
    <3>2. ChainFrom(ts, Chains(ts), word, Found(nodes[n], q)) = Found(<<nodes[n]>>, q)
      BY <2>2, <3>1, Results DEF ChainFrom
    <3>3. [j \in 1..n - n + 1 |-> nodes[n + j - 1]] = <<nodes[n]>>
      <4>1. n - n + 1 = 1 /\ \A j \in 1..1 : n + j - 1 = n
        OBVIOUS
      <4>2. [j \in 1..n - n + 1 |-> nodes[n + j - 1]] = [j \in 1..1 |-> nodes[n]]
        BY <4>1
      <4>3. [j \in 1..1 |-> nodes[n]] = <<nodes[n]>>
        OBVIOUS
      <4> QED BY <4>2, <4>3
    <3> QED BY <3>1, <3>2, <3>3
  <2> QED BY <2>1, <2>2 DEF ChainStands
<1>5. ASSUME NEW i \in 1..n - 1, i + 1 \in P
      PROVE  i \in P
  <2>1. i \in 1..n /\ i # n /\ i + 1 \in 1..n /\ f[i + 1] \in Seq(Lexeme) /\ texts[i] \in Seq(Lexeme)
    BY <1>2
  <2>2. ASSUME NEW p, NEW q, Reads(ts, p, f[i], q), Follows(ts, word, q), ~Keyword(ts, q, word)
        PROVE  Chains(ts)[<<word, p>>] = Found([j \in 1..n - i + 1 |-> nodes[i + j - 1]], q)
    <3> DEFINE s == texts[i]
               t == f[i + 1]
               u == f[i]
    <3>1. s \in Seq(Lexeme) /\ t \in Seq(Lexeme) /\ u = s \o <<sep>> \o t /\ Reads(ts, p, u, q)
      BY <1>2, <2>1, <2>2
    <3> HIDE DEF s, t, u
    <3>2. PICK m \in Nat : Reads(ts, p, s, m) /\ Stands(ts, m, sep) /\ Reads(ts, m + 1, t, q)
      BY <1>1, <3>1, ReadsSeparated
    <3>3. Keyword(ts, m, word) /\ Follows(ts, word, m)
      BY <1>1, <3>2 DEF Stands, Keyword, Match, Follows
    <3>4. m # 0 /\ Chains(ts)[<<word, p>>] = ChainFrom(ts, Chains(ts), word, Found(nodes[i], m))
      BY <1>3, <2>1, <3>2, <3>3 DEF s
    <3> DEFINE rest == [j \in 1..n - (i + 1) + 1 |-> nodes[i + 1 + j - 1]]
    <3>5. Chains(ts)[<<word, m + 1>>] = Found(rest, q)
      <4>1. ChainStands(ts, word, n, nodes, f, i + 1) /\ Reads(ts, m + 1, f[i + 1], q)
        BY <1>5, <3>2 DEF t
      <4> QED BY <2>2, <4>1 DEF ChainStands
    <3>6. q # 0
      BY <3>1, ReadsRange
    <3>7. <<nodes[i]>> \o rest = [j \in 1..n - i + 1 |-> nodes[i + j - 1]]
      BY PrependedNodes
    <3> HIDE DEF rest
    <3>8. ChainFrom(ts, Chains(ts), word, Found(nodes[i], m)) = Prepended(nodes[i], Found(rest, q))
      BY <3>3, <3>4, <3>5, Results DEF ChainFrom
    <3>9. Prepended(nodes[i], Found(rest, q)) = Found(<<nodes[i]>> \o rest, q)
      BY <3>6, Results DEF Prepended
    <3> QED BY <3>4, <3>7, <3>8, <3>9
  <2> QED BY <2>1, <2>2 DEF ChainStands
<1>6. 1..n \subseteq P
  <2> HIDE DEF P
  <2> QED BY <1>4, <1>5, DownInduction
<1> QED BY <1>6

(* What a clause of a chain stands for: itself, or itself in parentheses.   *)
Readable(ts, e) ==
  \/ e.type = "none"
  \/ /\ e.type \in {"condition", "not"} => ReadsNot(ts, e)
     /\ e.type # "or" => ReadsAnd(ts, e)
     /\ ReadsOr(ts, e)

LEMMA ParenthesesAreOperands ==
  ASSUME NEW ts, IsTokens(ts), NEW e \in Clauses, ReadsOr(ts, e),
         NEW p, NEW q, Reads(ts, p, Parenthesised(Wheres[e]), q)
  PROVE  /\ ParseNot(ts, Chains(ts), p) = Found(e, q)
         /\ ~Keyword(ts, q, "and") => Whole("and", Chains(ts)[<<"and", p>>]) = Found(e, q)
<1>1. Wheres[e] \in Seq(Lexeme)
  BY WhereTextUnfolds
<1>2. ParsePrimary(ts, Chains(ts), p) = Found(e, q) /\ ts[p].kind = "lparen"
  BY <1>1, ParenthesesRead
<1>3. ParseNot(ts, Chains(ts), p) = Found(e, q)
  BY <1>2 DEF ParseNot, Keyword, Match
<1>4. p \in DOMAIN ts /\ q # 0
  BY ReadsRange
<1>5. Operand(ts, Chains(ts), "and", p) = Found(e, q)
  BY <1>3 DEF Operand
<1> QED BY <1>3, <1>4, <1>5, SingleChain

LEMMA WhereSteps ==
  ASSUME NEW e \in Clauses
  PROVE  /\ e.type = "condition" => Wheres[e] = ConditionText(e)
         /\ e.type = "not" => Wheres[e] = <<Word("not")>> \o (IF e.expr.type = "condition" THEN Wheres[e.expr]
                                                              ELSE Parenthesised(Wheres[e.expr]))
         /\ e.type \in {"and", "or"} => Wheres[e] = Separated(OperandTexts(Wheres, e), Word(e.type))
BY WhereTextUnfolds DEF WhereStep

LEMMA NotsRead ==
  ASSUME NEW ts, IsTokens(ts), NEW e \in Clauses, e.type = "not", Readable(ts, e.expr)
  PROVE  ReadsNot(ts, e)
<1>1. e = [type |-> "not", expr |-> e.expr] /\ e.expr \in Clauses /\ e.expr.type # "none"
  BY ClauseShapes DEF NoWhere
<1> DEFINE y == e.expr
           t == IF y.type = "condition" THEN Wheres[y] ELSE Parenthesised(Wheres[y])
           u == Wheres[e]
           l == Word("not")
<1>2. u = <<l>> \o t
  BY WhereSteps
<1>3. l \in Lexeme /\ Token(l) = [kind |-> "keyword", value |-> "not"]
  BY LexemesToTokens DEF Keywords
<1>4. t \in Seq(Lexeme)
  BY <1>1, WhereTextUnfolds, ParenthesisedTexts
<1>5. ASSUME NEW p, NEW q, Reads(ts, p, u, q)
      PROVE  ParseNot(ts, Chains(ts), p) = Found(e, q)
  <2> HIDE DEF u, t, l, y
  <2>1. Stands(ts, p, l) /\ Reads(ts, p + 1, t, q)
    BY <1>2, <1>3, <1>4, <1>5, ReadsFirst
  <2>2. Keyword(ts, p, "not")
    BY <1>3, <2>1 DEF Stands, Keyword, Match
  <2>3. ParsePrimary(ts, Chains(ts), p + 1) = Found(y, q)
    <3>1. CASE y.type = "condition"
      <4>1. IsCondition(y) /\ t = ConditionText(y)
        <5>1. y \in Clauses
          BY <1>1 DEF y
        <5>2. IsCondition(y)
          BY <3>1, <5>1, ClauseShapes DEF NoWhere
        <5> QED BY <3>1, <5>1, <5>2, WhereSteps DEF t
      <4>2. ParseCondition(ts, p + 1) = Found(y, q) /\ ts[p + 1].kind = "ident"
        BY <2>1, <4>1, ConditionsRead
      <4> QED BY <4>2 DEF ParsePrimary
    <3>2. CASE y.type # "condition"
      <4>1. t = Parenthesised(Wheres[y])
        BY <3>2 DEF t
      <4>2. ReadsOr(ts, y) /\ Wheres[y] \in Seq(Lexeme)
        BY <1>1, WhereTextUnfolds DEF Readable, y
      <4> QED BY <2>1, <4>1, <4>2, ParenthesesRead
    <3> QED BY <3>1, <3>2
  <2>4. q # 0
    BY <1>5, ReadsRange
  <2>5. ParseNot(ts, Chains(ts), p) = Negated(Found(y, q))
    BY <2>2, <2>3 DEF ParseNot
  <2>6. Negated(Found(y, q)) = Found([type |-> "not", expr |-> y], q)
    BY <2>4, Results DEF Negated
  <2> QED BY <1>1, <2>5, <2>6 DEF y
<1> QED BY <1>5 DEF ReadsNot

LEMMA OperandsOfClausesRead ==
  ASSUME NEW ts, IsTokens(ts), NEW e \in Clauses, NEW word \in {"or", "and"}, e.type = word,
         \A y \in Children(e) : Readable(ts, y)
  PROVE  OperandsRead(ts, word, Len(e.exprs), OperandTexts(Wheres, e), e.exprs)
<1>1. /\ DOMAIN e.exprs = 1..Len(e.exprs)
      /\ \A i \in 1..Len(e.exprs) : /\ e.exprs[i] \in Clauses /\ e.exprs[i] \in Children(e)
                                    /\ e.exprs[i].type # "none"
  BY ClauseShapes DEF NoWhere
<1> SUFFICES ASSUME NEW i \in 1..Len(e.exprs), NEW p, NEW q,
                    Reads(ts, p, OperandTexts(Wheres, e)[i], q), Follows(ts, word, q)
             PROVE  Operand(ts, Chains(ts), word, p) = Found(e.exprs[i], q)
  BY DEF OperandsRead
<1> DEFINE y == e.exprs[i]
<1>2. y \in Clauses /\ y.type # "none" /\ Readable(ts, y)
  BY <1>1
<1>3. Reads(ts, p, OperandText(Wheres, word, y), q)
  BY <1>1 DEF OperandTexts
<1> HIDE DEF y
<1>4. CASE y.type \in {"or", word}
  <2>1. Reads(ts, p, Parenthesised(Wheres[y]), q) /\ ReadsOr(ts, y)
    BY <1>2, <1>3, <1>4 DEF OperandText, Readable
  <2>2. /\ ParseNot(ts, Chains(ts), p) = Found(y, q)
        /\ ~Keyword(ts, q, "and") => Whole("and", Chains(ts)[<<"and", p>>]) = Found(y, q)
    BY <1>2, <2>1, ParenthesesAreOperands
  <2> QED BY <2>2 DEF Operand, Follows, y
<1>5. CASE y.type \notin {"or", word}
  <2>1. Reads(ts, p, Wheres[y], q)
    BY <1>3, <1>5 DEF OperandText
  <2>2. CASE word = "or"
    <3>1. ReadsAnd(ts, y) /\ ~Keyword(ts, q, "and")
      BY <1>2, <1>5, <2>2 DEF Readable, Follows
    <3> QED BY <2>1, <2>2, <3>1 DEF ReadsAnd, Operand, y
  <2>3. CASE word = "and"
    <3>1. y.type \in {"condition", "not"}
      BY <1>2, <1>5, <2>3, ClauseShapes
    <3>2. ReadsNot(ts, y)
      BY <1>2, <3>1 DEF Readable
    <3> QED BY <2>1, <2>3, <3>2 DEF ReadsNot, Operand, y
  <2> QED BY <2>2, <2>3
<1> QED BY <1>4, <1>5

LEMMA ChainsRead ==
  ASSUME NEW ts, IsTokens(ts), NEW e \in Clauses, NEW word \in {"or", "and"}, e.type = word,
         \A y \in Children(e) : Readable(ts, y)
  PROVE  \A p, q : Reads(ts, p, Wheres[e], q) /\ Follows(ts, word, q) /\ ~Keyword(ts, q, word) =>
           Whole(word, Chains(ts)[<<word, p>>]) = Found(e, q)
<1> DEFINE n == Len(e.exprs)
           texts == OperandTexts(Wheres, e)
<1>1. /\ e = [type |-> word, exprs |-> e.exprs] /\ n \in Nat /\ n > 1 /\ DOMAIN e.exprs = 1..n
      /\ e.exprs = [i \in 1..n |-> e.exprs[i]] /\ \A i \in 1..n : e.exprs[i] \in Clauses
  BY ClauseShapes DEF NoWhere
<1>2. DOMAIN texts = 1..n /\ Len(texts) = n /\ n \in Nat \ {0}
  BY <1>1 DEF OperandTexts
<1>3. \A i \in 1..n : texts[i] \in Seq(Lexeme)
  <2> TAKE i \in 1..n
  <2>1. texts[i] = OperandText(Wheres, e.type, e.exprs[i])
    BY <1>1 DEF OperandTexts
  <2>2. Wheres[e.exprs[i]] \in Seq(Lexeme)
    BY <1>1, WhereTextUnfolds
  <2> QED BY <2>1, <2>2, ParenthesisedTexts DEF OperandText
<1>4. Word(word) \in Lexeme
  BY LexemesToTokens DEF Keywords
<1>5. Wheres[e] = Separated(texts, Word(word))
  BY WhereSteps
<1>6. OperandsRead(ts, word, n, texts, e.exprs)
  BY OperandsOfClausesRead
<1> HIDE DEF n, texts
<1>7. PICK f : IsSeparated(f, texts, Word(word)) /\ Separated(texts, Word(word)) = f[1]
  BY <1>2, <1>3, <1>4, SeparatedUnfolds
<1>8. ChainStands(ts, word, n, e.exprs, f, 1)
  BY <1>2, <1>3, <1>6, <1>7, ChainReads
<1>9. ASSUME NEW p, NEW q, Reads(ts, p, Wheres[e], q), Follows(ts, word, q), ~Keyword(ts, q, word)
      PROVE  Whole(word, Chains(ts)[<<word, p>>]) = Found(e, q)
  <2>1. Chains(ts)[<<word, p>>] = Found([j \in 1..n - 1 + 1 |-> e.exprs[1 + j - 1]], q)
    BY <1>5, <1>7, <1>8, <1>9 DEF ChainStands
  <2>2. [j \in 1..n - 1 + 1 |-> e.exprs[1 + j - 1]] = e.exprs
    <3>1. n - 1 + 1 = n /\ \A j \in 1..n : 1 + j - 1 = j
      BY <1>1
    <3>2. [j \in 1..n - 1 + 1 |-> e.exprs[1 + j - 1]] = [j \in 1..n |-> e.exprs[j]]
      BY <3>1
    <3> QED BY <1>1, <3>2
  <2>3. q # 0
    BY <1>9, ReadsRange
  <2>4. Len(e.exprs) # 1
    <3>1. n # 1
      BY <1>1
    <3> QED BY <3>1 DEF n
  <2>5. Whole(word, Found(e.exprs, q)) = Found([type |-> word, exprs |-> e.exprs], q)
    BY <2>3, <2>4, Results DEF Whole
  <2> QED BY <1>1, <2>1, <2>2, <2>5
<1> QED BY <1>9

(* Every where clause is read back wherever its text stands, unless a       *)
(* further and or or follows it.                                            *)
LEMMA ClausesRead ==
  ASSUME NEW ts, IsTokens(ts)
  PROVE  \A e \in Clauses : Readable(ts, e)
<1> DEFINE P == {e \in Clauses : Readable(ts, e)}
<1>1. ASSUME NEW e \in Clauses, Children(e) \subseteq P
      PROVE  e \in P
  <2>1. \A y \in Children(e) : Readable(ts, y)
    BY <1>1
  <2>2. CASE e.type = "condition"
    <3>1. IsCondition(e) /\ Wheres[e] = ConditionText(e)
      BY <2>2, ClauseShapes, WhereSteps DEF NoWhere
    <3>2. ReadsNot(ts, e)
      <4> SUFFICES ASSUME NEW p, NEW q, Reads(ts, p, Wheres[e], q)
                   PROVE  ParseNot(ts, Chains(ts), p) = Found(e, q)
        BY DEF ReadsNot
      <4>1. ParseCondition(ts, p) = Found(e, q) /\ ts[p].kind = "ident"
        BY <3>1, ConditionsRead
      <4> QED BY <4>1 DEF ParseNot, ParsePrimary, Keyword, Match
    <3> QED BY <3>2, AndsRead, OrsRead DEF Readable
  <2>3. CASE e.type = "not"
    <3>1. Readable(ts, e.expr)
      BY <2>1, <2>3, ClauseShapes DEF NoWhere
    <3>2. ReadsNot(ts, e)
      BY <2>3, <3>1, NotsRead
    <3> QED BY <3>2, AndsRead, OrsRead DEF Readable
  <2>4. CASE e.type = "and"
    <3>1. ReadsAnd(ts, e)
      BY <2>1, <2>4, ChainsRead DEF ReadsAnd, Follows
    <3> QED BY <2>4, <3>1, OrsRead DEF Readable
  <2>5. CASE e.type = "or"
    <3>1. ReadsOr(ts, e)
      BY <2>1, <2>5, ChainsRead DEF ReadsOr, Follows, ParseWhere
    <3> QED BY <2>5, <3>1 DEF Readable
  <2>6. CASE e.type = "none"
    BY <2>6 DEF Readable
  <2> QED BY <2>2, <2>3, <2>4, <2>5, <2>6, ClauseShapes
<1>2. Clauses \subseteq P
  <2> HIDE DEF P
  <2> QED BY <1>1, ClauseInduction
<1> QED BY <1>2

-----------------------------------------------------------------------------
(* The clauses of a query, unfolded.                                        *)

LEMMA WheresAdvance ==
  ASSUME NEW ts, IsTokens(ts), NEW p \in DOMAIN ts
  PROVE  Ahead(ts, p, ParseWhere(ts, p))
<1> DEFINE x == <<"or", p>>
<1>1. x \in Spots(ts) /\ x[2] = p
  BY DEF Spots
<1> HIDE DEF x
<1>2. Ahead(ts, p, Chains(ts)[x])
  BY <1>1, ChainsUnfold
<1>3. ParseWhere(ts, p).at = Chains(ts)[x].at
  BY WholeAt DEF ParseWhere, x
<1> QED BY <1>2, <1>3 DEF Ahead

(* What a keyword opens ends behind it.                                     *)
LEMMA OrdersAdvance ==
  ASSUME NEW ts, IsTokens(ts), NEW p \in DOMAIN ts
  PROVE  Ahead(ts, p, ParseOrder(ts, p))
<1>1. p \in 1..Len(ts) /\ DOMAIN ts = 1..Len(ts) /\ Len(ts) \in Nat
  BY DEF IsTokens
<1>2. \A i \in DOMAIN ts : ts[i].kind # "eof" => i + 1 \in DOMAIN ts
  BY TokenAt
<1>3. CASE ~Keyword(ts, p, "by") \/ ts[p + 1].kind # "ident"
  BY <1>3, Results DEF ParseOrder, Ahead
<1>4. CASE Keyword(ts, p, "by") /\ ts[p + 1].kind = "ident"
  <2>1. p + 1 \in DOMAIN ts
    BY <1>2, <1>4 DEF Keyword, Match
  <2>2. p + 1 + 1 \in DOMAIN ts /\ p + 1 + 1 = p + 2
    BY <1>1, <1>2, <1>4, <2>1
  <2>3. CASE Keyword(ts, p + 2, "asc") \/ Keyword(ts, p + 2, "desc")
    <3>1. p + 2 + 1 \in DOMAIN ts
      BY <1>2, <2>2, <2>3 DEF Keyword, Match
    <3>2. ParseOrder(ts, p).at = p + 3 /\ p + 3 \in (p + 1)..Len(ts)
      BY <1>1, <1>4, <2>3, <3>1, Results DEF ParseOrder
    <3> QED BY <3>2 DEF Ahead
  <2>4. CASE ~(Keyword(ts, p + 2, "asc") \/ Keyword(ts, p + 2, "desc"))
    <3>1. ParseOrder(ts, p).at = p + 2 /\ p + 2 \in (p + 1)..Len(ts)
      BY <1>1, <1>4, <2>2, <2>4, Results DEF ParseOrder
    <3> QED BY <3>1 DEF Ahead
  <2> QED BY <2>3, <2>4
<1> QED BY <1>3, <1>4

LEMMA NumbersAdvance ==
  ASSUME NEW ts, IsTokens(ts), NEW p \in DOMAIN ts
  PROVE  Ahead(ts, p, ParseNumber(ts, p))
<1>1. p \in 1..Len(ts) /\ DOMAIN ts = 1..Len(ts) /\ Len(ts) \in Nat
  BY DEF IsTokens
<1>2. CASE ts[p].kind = "number"
  <2>1. p + 1 \in DOMAIN ts
    BY <1>2, TokenAt
  <2>2. ParseNumber(ts, p).at = p + 1 /\ p + 1 \in (p + 1)..Len(ts)
    BY <1>1, <1>2, <2>1, Results DEF ParseNumber
  <2> QED BY <2>2 DEF Ahead
<1>3. CASE ts[p].kind # "number"
  BY <1>3, Results DEF ParseNumber, Ahead
<1> QED BY <1>2, <1>3

(* The clause a keyword opens.                                              *)
LEMMA ClauseCases ==
  ASSUME NEW kind, NEW ts, NEW p
  PROVE  LET c == Clause(kind, ts, p)
         IN  \/ Keyword(ts, p, "where") /\ c = [field |-> "where", parse |-> ParseWhere(ts, p + 1)]
             \/ /\ kind = "select" /\ Keyword(ts, p, "select")
                /\ c = [field |-> "select", parse |-> ParseList({"ident"}, ts, p + 1)]
             \/ /\ kind = "select" /\ Keyword(ts, p, "order")
                /\ c = [field |-> "orderBy", parse |-> ParseOrder(ts, p + 1)]
             \/ /\ kind = "select" /\ Keyword(ts, p, "limit")
                /\ c = [field |-> "limit", parse |-> ParseNumber(ts, p + 1)]
             \/ /\ kind = "select" /\ Keyword(ts, p, "offset")
                /\ c = [field |-> "offset", parse |-> ParseNumber(ts, p + 1)]
             \/ /\ c = [field |-> "where", parse |-> Fail] /\ ~Keyword(ts, p, "where")
                /\ kind = "select" => \A w \in {"select", "order", "limit", "offset"} : ~Keyword(ts, p, w)
BY DEF Clause

LEMMA ClausesAdvance ==
  ASSUME NEW ts, IsTokens(ts), NEW kind, NEW p \in DOMAIN ts
  PROVE  Ahead(ts, p, Clause(kind, ts, p).parse)
<1> DEFINE c == Clause(kind, ts, p)
<1>1. p \in 1..Len(ts) /\ DOMAIN ts = 1..Len(ts) /\ Len(ts) \in Nat
  BY DEF IsTokens
<1>2. ASSUME NEW r, p + 1 \in DOMAIN ts, Ahead(ts, p + 1, r)
      PROVE  Ahead(ts, p, r)
  BY <1>1, <1>2 DEF Ahead
<1>3. \A w : Keyword(ts, p, w) => p + 1 \in DOMAIN ts
  BY TokenAt DEF Keyword, Match
<1>4. CASE Keyword(ts, p, "where") /\ c = [field |-> "where", parse |-> ParseWhere(ts, p + 1)]
  BY <1>2, <1>3, <1>4, WheresAdvance
<1>5. CASE Keyword(ts, p, "select") /\ c = [field |-> "select", parse |-> ParseList({"ident"}, ts, p + 1)]
  BY <1>2, <1>3, <1>5, ListsAdvance
<1>6. CASE Keyword(ts, p, "order") /\ c = [field |-> "orderBy", parse |-> ParseOrder(ts, p + 1)]
  BY <1>2, <1>3, <1>6, OrdersAdvance
<1>7. CASE Keyword(ts, p, "limit") /\ c = [field |-> "limit", parse |-> ParseNumber(ts, p + 1)]
  BY <1>2, <1>3, <1>7, NumbersAdvance
<1>8. CASE Keyword(ts, p, "offset") /\ c = [field |-> "offset", parse |-> ParseNumber(ts, p + 1)]
  BY <1>2, <1>3, <1>8, NumbersAdvance
<1>9. CASE c = [field |-> "where", parse |-> Fail]
  BY <1>9, Results DEF Ahead
<1> QED BY <1>4, <1>5, <1>6, <1>7, <1>8, <1>9, ClauseCases

ClausesAt(ts, q, g, i) == IF ts[i].kind = "eof" THEN Found(q, i) ELSE ClausesFrom(q, g, Clause(q.kind, ts, i))

LEMMA ClausesUnfold ==
  ASSUME NEW ts, IsTokens(ts), NEW q
  PROVE  \E g : \A i \in DOMAIN ts : ParseClauses(ts, q, i) = g[i] /\ g[i] = ClausesAt(ts, q, g, i)
<1> DEFINE n == Len(ts)
           Good(i) == \E f : /\ f = [j \in 1..n |-> f[j]]
                             /\ \A j \in i..n : f[j] = ClausesAt(ts, q, f, j)
           P == {i \in 1..n : Good(i)}
<1>1. n \in Nat \ {0} /\ DOMAIN ts = 1..n
  BY DEF IsTokens
<1>2. ASSUME NEW f, NEW g, NEW i \in 1..n, \A j \in (i + 1)..n : f[j] = g[j]
      PROVE  ClausesAt(ts, q, f, i) = ClausesAt(ts, q, g, i)
  <2> DEFINE c == Clause(q.kind, ts, i)
  <2>1. Ahead(ts, i, c.parse)
    BY <1>1, <1>2, ClausesAdvance
  <2> HIDE DEF c
  <2>2. c.parse.at # 0 => f[c.parse.at] = g[c.parse.at]
    BY <1>2, <2>1 DEF Ahead
  <2>3. ClausesFrom(q, f, c) = ClausesFrom(q, g, c)
    BY <2>2 DEF ClausesFrom
  <2> QED BY <2>3 DEF ClausesAt, c
<1> HIDE DEF n
<1>3. n \in P
  <2> DEFINE f == [j \in 1..n |-> ClausesAt(ts, q, <<>>, n)]
  <2>1. n \in 1..n /\ \A j \in n..n : j = n
    BY <1>1
  <2>2. f = [j \in 1..n |-> f[j]] /\ f[n] = ClausesAt(ts, q, <<>>, n)
    BY <2>1
  <2> HIDE DEF f
  <2>3. \A j \in (n + 1)..n : f[j] = <<>>[j]
    BY <1>1
  <2>4. ClausesAt(ts, q, f, n) = ClausesAt(ts, q, <<>>, n)
    BY <1>2, <2>1, <2>3
  <2> QED BY <2>1, <2>2, <2>4
<1>4. ASSUME NEW i \in 1..n - 1, i + 1 \in P
      PROVE  i \in P
  <2>1. PICK f : f = [j \in 1..n |-> f[j]] /\ \A j \in (i + 1)..n : f[j] = ClausesAt(ts, q, f, j)
    BY <1>4
  <2> DEFINE g == [j \in 1..n |-> IF j = i THEN ClausesAt(ts, q, f, i) ELSE f[j]]
  <2>2. i \in 1..n /\ \A j \in i..n : j \in 1..n /\ (j = i \/ j \in (i + 1)..n)
    BY <1>1, <1>4
  <2>3. /\ g = [j \in 1..n |-> g[j]] /\ g[i] = ClausesAt(ts, q, f, i)
        /\ \A j \in (i + 1)..n : g[j] = f[j]
    BY <1>1, <2>2
  <2> HIDE DEF g
  <2>4. \A j \in i..n : ClausesAt(ts, q, f, j) = ClausesAt(ts, q, g, j)
    <3> TAKE j \in i..n
    <3>1. ASSUME NEW k \in (j + 1)..n PROVE f[k] = g[k]
      <4>1. k \in (i + 1)..n
        BY <1>1, <1>4
      <4> QED BY <2>3, <4>1
    <3> QED BY <1>2, <2>2, <3>1
  <2>5. \A j \in i..n : g[j] = ClausesAt(ts, q, g, j)
    BY <2>1, <2>2, <2>3, <2>4
  <2> QED BY <2>2, <2>3, <2>5
<1>5. 1..n \subseteq P
  <2> HIDE DEF P
  <2> QED BY <1>1, <1>3, <1>4, DownInduction
<1> DEFINE clauses == CHOOSE f : f = [i \in DOMAIN ts |-> ClausesAt(ts, q, f, i)]
<1>6. PICK f : f = [j \in 1..n |-> f[j]] /\ \A j \in 1..n : f[j] = ClausesAt(ts, q, f, j)
  <2>1. 1 \in 1..n
    BY <1>1
  <2> QED BY <1>5, <2>1
<1>7. f = [i \in DOMAIN ts |-> ClausesAt(ts, q, f, i)]
  BY <1>1, <1>6
<1>8. clauses = [i \in DOMAIN ts |-> ClausesAt(ts, q, clauses, i)]
  BY <1>7
<1>9. \A i : ParseClauses(ts, q, i) = clauses[i]
  BY DEF ParseClauses, ClausesAt
<1> HIDE DEF clauses
<1> QED BY <1>8, <1>9

(* The end of a query, and a clause of one.                                 *)
LEMMA ClausesEnd ==
  ASSUME NEW ts, IsTokens(ts), NEW q, NEW i \in DOMAIN ts, ts[i].kind = "eof"
  PROVE  ParseClauses(ts, q, i) = Found(q, i)
BY ClausesUnfold DEF ClausesAt

LEMMA ClausesStep ==
  ASSUME NEW ts, IsTokens(ts), NEW q, NEW i \in DOMAIN ts, ts[i].kind # "eof",
         NEW c, c = Clause(q.kind, ts, i)
  PROVE  ParseClauses(ts, q, i) = IF c.parse.at = 0 THEN Fail
                                  ELSE SetBefore(q, c, ParseClauses(ts, q, c.parse.at))
<1>1. PICK g : \A j \in DOMAIN ts : ParseClauses(ts, q, j) = g[j] /\ g[j] = ClausesAt(ts, q, g, j)
  BY ClausesUnfold
<1>2. g[i] = ClausesFrom(q, g, c)
  BY <1>1 DEF ClausesAt
<1>3. c.parse.at # 0 => c.parse.at \in DOMAIN ts
  <2>1. Ahead(ts, i, c.parse)
    BY ClausesAdvance
  <2> QED BY <2>1 DEF Ahead, IsTokens
<1>4. c.parse.at # 0 => g[c.parse.at] = ParseClauses(ts, q, c.parse.at)
  BY <1>1, <1>3
<1> QED BY <1>1, <1>2, <1>4 DEF ClausesFrom

-----------------------------------------------------------------------------
(* The parts of a query's text.                                             *)

IsRecord(q) == q = [f \in DOMAIN q |-> q[f]]

(* The query q0 with the fields of F as q has them.                         *)
Filled(q0, q, F) == [f \in DOMAIN q0 |-> IF f \in F THEN q[f] ELSE q0[f]]

(* Where the clauses of a query end, or one of the words opens a further    *)
(* one.                                                                     *)
Ends(ts, p, words) == ts[p].kind = "eof" \/ \E w \in words : Keyword(ts, p, w)

(* The field f of q stands behind its word between p and m, or is absent.   *)
PartStands(ts, q0, q, f, word, p, m) ==
  \/ p = m /\ q[f] = q0[f]
  \/ /\ m \in Nat \ {0} /\ p \in DOMAIN ts /\ Keyword(ts, p, word)
     /\ Clause(q0.kind, ts, p) = [field |-> f, parse |-> Found(q[f], m)]

LEMMA PartsFill ==
  ASSUME NEW ts, IsTokens(ts), NEW q0, IsRecord(q0), NEW q, NEW F,
         NEW f \in DOMAIN q0, f \notin F, NEW word, NEW p, NEW m, PartStands(ts, q0, q, f, word, p, m),
         NEW n \in Nat \ {0}, ParseClauses(ts, q0, m) = Found(Filled(q0, q, F), n),
         NEW W, Ends(ts, m, W), NEW G, G = F \cup {f}, NEW V, V = W \cup {word}
  PROVE  ParseClauses(ts, q0, p) = Found(Filled(q0, q, G), n) /\ Ends(ts, p, V)
<1> DEFINE r == Filled(q0, q, F)
           s == Filled(q0, q, G)
<1>1. r[f] = q0[f] /\ s = [r EXCEPT ![f] = q[f]] /\ (q[f] = q0[f] => s = r)
  BY DEF Filled, IsRecord
<1> HIDE DEF r, s
<1>2. CASE p = m /\ q[f] = q0[f]
  BY <1>1, <1>2 DEF r, s, Ends
<1>3. CASE /\ m \in Nat \ {0} /\ p \in DOMAIN ts /\ Keyword(ts, p, word)
           /\ Clause(q0.kind, ts, p) = [field |-> f, parse |-> Found(q[f], m)]
  <2> DEFINE c == [field |-> f, parse |-> Found(q[f], m)]
  <2>1. c.field = f /\ c.parse.at = m /\ c.parse.node = q[f]
    BY Results
  <2> HIDE DEF c
  <2>2. ts[p].kind # "eof" /\ c = Clause(q0.kind, ts, p) /\ Ends(ts, p, V)
    BY <1>3 DEF Keyword, Match, Ends, c
  <2>3. ParseClauses(ts, q0, p) = SetBefore(q0, c, Found(r, n))
    BY <1>3, <2>1, <2>2, ClausesStep DEF r
  <2>4. SetBefore(q0, c, Found(r, n)) = Found([r EXCEPT ![f] = q[f]], n)
    <3> DEFINE rest == Found(r, n)
    <3>1. rest.node = r /\ rest.at = n
      BY Results
    <3> HIDE DEF rest
    <3>2. rest.at # 0 /\ rest.node[c.field] = q0[c.field]
      BY <1>1, <2>1, <3>1
    <3>3. SetBefore(q0, c, rest) = Found([rest.node EXCEPT ![c.field] = c.parse.node], rest.at)
      BY <3>2 DEF SetBefore
    <3> QED BY <2>1, <3>1, <3>3 DEF rest
  <2> QED BY <1>1, <2>2, <2>3, <2>4 DEF s
<1> QED BY <1>2, <1>3 DEF PartStands

(* What a query is made of, as its texts are read.                          *)
Base(q) == [Query(q.kind, q.from) EXCEPT !.join = q.join]

LEMMA QueryFields ==
  ASSUME NEW q, IsQuery(q)
  PROVE  /\ IsRecord(Base(q)) /\ Base(q).kind = q.kind
         /\ {"select", "where", "orderBy", "limit", "offset"} \subseteq DOMAIN Base(q)
         /\ Base(q)["select"] = <<>> /\ Base(q)["where"] = NoWhere /\ Base(q)["orderBy"] = NoOrder
         /\ Base(q)["limit"] = Unset /\ Base(q)["offset"] = Unset
         /\ Filled(Base(q), q, {}) = Base(q)
         /\ Filled(Base(q), q, {"select", "where", "orderBy", "limit", "offset"}) = q
         /\ q.limit = q["limit"] /\ q.offset = q["offset"]
BY DEF IsQuery, IsRecord, Query, Base, Filled

LEMMA ClauseOpened ==
  ASSUME NEW kind, NEW ts, NEW p
  PROVE  /\ Keyword(ts, p, "where") => Clause(kind, ts, p) = [field |-> "where", parse |-> ParseWhere(ts, p + 1)]
         /\ kind = "select" =>
              /\ Keyword(ts, p, "select") =>
                   Clause(kind, ts, p) = [field |-> "select", parse |-> ParseList({"ident"}, ts, p + 1)]
              /\ Keyword(ts, p, "order") => Clause(kind, ts, p) = [field |-> "orderBy", parse |-> ParseOrder(ts, p + 1)]
              /\ Keyword(ts, p, "limit") => Clause(kind, ts, p) = [field |-> "limit", parse |-> ParseNumber(ts, p + 1)]
              /\ Keyword(ts, p, "offset") => Clause(kind, ts, p) = [field |-> "offset", parse |-> ParseNumber(ts, p + 1)]
BY DEF Clause, Keyword, Match

LEMMA KeywordStands ==
  ASSUME NEW ts, NEW p, NEW k \in Keywords, Stands(ts, p, Word(k))
  PROVE  p \in DOMAIN ts /\ Keyword(ts, p, k)
BY LexemesToTokens DEF Stands, Keyword, Match

LEMMA EmptyReads ==
  ASSUME NEW ts, NEW p, NEW m, Reads(ts, p, <<>>, m)
  PROVE  p = m
BY DEF Reads

LEMMA PairTexts ==
  ASSUME NEW S, NEW a \in S, NEW b \in S
  PROVE  <<a, b>> \in Seq(S)
OBVIOUS

LEMMA FourTexts ==
  ASSUME NEW S, NEW a, NEW b, NEW c, NEW d, {a, b, c, d} \subseteq S
  PROVE  <<a, b, c, d>> \in Seq(S)
OBVIOUS

LEMMA FourReads ==
  ASSUME NEW ts, IsTokens(ts), NEW a, NEW b, NEW c, NEW d, {a, b, c, d} \subseteq Lexeme,
         NEW u, u = <<a, b, c, d>>, NEW p, NEW q, Reads(ts, p, u, q)
  PROVE  /\ Stands(ts, p, a) /\ Stands(ts, p + 1, b) /\ Stands(ts, p + 2, c) /\ Stands(ts, p + 3, d)
         /\ q = p + 4 /\ p \in Nat \ {0}
<1>1. Len(u) = 4 /\ u[1] = a /\ u[2] = b /\ u[3] = c /\ u[4] = d
  OBVIOUS
<1>2. /\ p \in Nat \ {0} /\ q = p + 4 /\ q \in 1..Len(ts) /\ Len(ts) \in Nat /\ DOMAIN ts = 1..Len(ts)
      /\ ts[p + 1 - 1] = Token(a) /\ ts[p + 2 - 1] = Token(b) /\ ts[p + 3 - 1] = Token(c) /\ ts[p + 4 - 1] = Token(d)
  BY <1>1 DEF Reads, IsTokens
<1>3. /\ p + 1 - 1 = p /\ p + 2 - 1 = p + 1 /\ p + 3 - 1 = p + 2 /\ p + 4 - 1 = p + 3
      /\ p \in DOMAIN ts /\ p + 1 \in DOMAIN ts /\ p + 2 \in DOMAIN ts /\ p + 3 \in DOMAIN ts /\ p + 3 + 1 \in DOMAIN ts
      /\ p + 1 + 1 = p + 2 /\ p + 2 + 1 = p + 3
  BY <1>2
<1> QED BY <1>2, <1>3 DEF Stands

LEMMA NumbersRead ==
  ASSUME NEW word \in {"limit", "offset"}, NEW v \in Nat \cup {Unset},
         NEW u, u = Unless(v = Unset, <<Word(word), Digits(v)>>)
  PROVE  /\ u \in Seq(Lexeme)
         /\ \A ts, q0, q, p, m :
              /\ IsTokens(ts) /\ Reads(ts, p, u, m) /\ q[word] = v /\ q0[word] = Unset
              /\ v # Unset => q0.kind = "select"
              => PartStands(ts, q0, q, word, word, p, m)
<1>1. CASE v = Unset
  <2>1. u = <<>> /\ u \in Seq(Lexeme)
    BY <1>1 DEF Unless
  <2> QED BY <1>1, <2>1, EmptyReads DEF PartStands
<1>2. CASE v # Unset
  <2> DEFINE k == Word(word)
             l == Digits(v)
  <2>1. v \in Int /\ word \in Keywords
    BY <1>2 DEF Keywords
  <2>2. k \in Lexeme /\ l \in Lexeme /\ Token(l) = [kind |-> "number", value |-> Number(v)]
    BY <2>1, LexemesToTokens
  <2>3. u = <<k, l>>
    BY <1>2 DEF Unless
  <2> HIDE DEF k, l
  <2>4. u \in Seq(Lexeme)
    BY <2>2, <2>3, PairTexts
  <2>5. ASSUME NEW ts, NEW q0, NEW q, NEW p, NEW m, IsTokens(ts), Reads(ts, p, u, m),
               q[word] = v, q0.kind = "select"
        PROVE  PartStands(ts, q0, q, word, word, p, m)
    <3>1. Stands(ts, p, k) /\ Stands(ts, p + 1, l) /\ m = p + 2 /\ p \in Nat \ {0}
      BY <2>2, <2>3, <2>5, ShortReads
    <3>2. p \in DOMAIN ts /\ Keyword(ts, p, word)
      BY <2>1, <3>1, KeywordStands DEF k
    <3>3. ts[p + 1].kind = "number" /\ ts[p + 1].value = Number(v)
      BY <2>2, <3>1 DEF Stands
    <3>4. Number(v).v = v /\ p + 1 + 1 = m /\ m \in Nat \ {0}
      BY <3>1 DEF Number
    <3>5. ParseNumber(ts, p + 1) = Found(v, m)
      BY <3>3, <3>4 DEF ParseNumber
    <3>6. Clause(q0.kind, ts, p) = [field |-> word, parse |-> ParseNumber(ts, p + 1)]
      BY <2>5, <3>2, ClauseOpened
    <3> QED BY <2>5, <3>2, <3>4, <3>5, <3>6 DEF PartStands
  <2> QED BY <1>2, <2>4, <2>5
<1> QED BY <1>1, <1>2

LEMMA OrdersRead ==
  ASSUME NEW o, \/ o = NoOrder
                \/ /\ o = [field |-> o.field, direction |-> o.direction]
                   /\ IsName(o.field) /\ o.direction \in {"asc", "desc"},
         NEW u, u = Unless(o = NoOrder, <<Word("order"), Word("by"), Name(o.field), Word(o.direction)>>)
  PROVE  /\ u \in Seq(Lexeme)
         /\ \A ts, q0, q, p, m :
              /\ IsTokens(ts) /\ Reads(ts, p, u, m) /\ q["orderBy"] = o /\ q0["orderBy"] = NoOrder
              /\ o # NoOrder => q0.kind = "select"
              => PartStands(ts, q0, q, "orderBy", "order", p, m)
<1>1. CASE o = NoOrder
  <2>1. u = <<>> /\ u \in Seq(Lexeme)
    BY <1>1 DEF Unless
  <2> QED BY <1>1, <2>1, EmptyReads DEF PartStands
<1>2. CASE o # NoOrder
  <2> DEFINE k == Word("order")
             b == Word("by")
             f == Name(o.field)
             d == Word(o.direction)
  <2>1. o = [field |-> o.field, direction |-> o.direction] /\ IsName(o.field) /\ o.direction \in {"asc", "desc"}
    BY <1>2
  <2>2. {"order", "by", "asc", "desc"} \subseteq Keywords
    BY DEF Keywords
  <2>3. {k, b, f, d} \subseteq Lexeme
    BY <2>1, <2>2, LexemesToTokens
  <2>4. Token(f) = [kind |-> "ident", value |-> o.field]
    BY <2>1, LexemesToTokens
  <2>5. u = <<k, b, f, d>>
    BY <1>2 DEF Unless
  <2> HIDE DEF k, b, f, d
  <2>6. u \in Seq(Lexeme)
    BY <2>3, <2>5, FourTexts
  <2>7. ASSUME NEW ts, NEW q0, NEW q, NEW p, NEW m, IsTokens(ts), Reads(ts, p, u, m),
               q["orderBy"] = o, q0.kind = "select"
        PROVE  PartStands(ts, q0, q, "orderBy", "order", p, m)
    <3>1. /\ Stands(ts, p, k) /\ Stands(ts, p + 1, b) /\ Stands(ts, p + 2, f) /\ Stands(ts, p + 3, d)
          /\ m = p + 4 /\ p \in Nat \ {0}
      BY <2>3, <2>5, <2>7, FourReads
    <3>2. p \in DOMAIN ts /\ Keyword(ts, p, "order")
      BY <2>2, <3>1, KeywordStands DEF k
    <3>3. Keyword(ts, p + 1, "by")
      BY <2>2, <3>1, KeywordStands DEF b
    <3>4. Keyword(ts, p + 3, o.direction)
      BY <2>1, <2>2, <3>1, KeywordStands DEF d
    <3>5. ts[p + 2].kind = "ident" /\ ts[p + 2].value = o.field
      BY <2>4, <3>1 DEF Stands
    <3>6. p + 1 + 1 = p + 2 /\ p + 1 + 2 = p + 3 /\ p + 1 + 3 = m /\ m \in Nat \ {0}
      BY <3>1
    <3>7. ts[p + 3].value = o.direction
      BY <3>4 DEF Keyword, Match
    <3>8. ParseOrder(ts, p + 1) = Found(o, m)
      BY <2>1, <3>3, <3>4, <3>5, <3>6, <3>7 DEF ParseOrder
    <3>9. Clause(q0.kind, ts, p) = [field |-> "orderBy", parse |-> ParseOrder(ts, p + 1)]
      BY <2>7, <3>2, ClauseOpened
    <3> QED BY <2>7, <3>2, <3>6, <3>8, <3>9 DEF PartStands
  <2> QED BY <1>2, <2>6, <2>7
<1> QED BY <1>1, <1>2

LEMMA WherePartsRead ==
  ASSUME NEW e \in Clauses, NEW u, u = Unless(e = NoWhere, <<Word("where")>> \o WhereText(e))
  PROVE  /\ u \in Seq(Lexeme)
         /\ \A ts, q0, q, p, m :
              /\ IsTokens(ts) /\ Reads(ts, p, u, m) /\ q["where"] = e /\ q0["where"] = NoWhere
              /\ ~Keyword(ts, m, "and") /\ ~Keyword(ts, m, "or")
              => PartStands(ts, q0, q, "where", "where", p, m)
<1>1. CASE e = NoWhere
  <2>1. u = <<>> /\ u \in Seq(Lexeme)
    BY <1>1 DEF Unless
  <2> QED BY <1>1, <2>1, EmptyReads DEF PartStands
<1>2. CASE e # NoWhere
  <2> DEFINE k == Word("where")
             t == Wheres[e]
             s == <<k>>
  <2>1. k \in Lexeme /\ "where" \in Keywords
    BY LexemesToTokens DEF Keywords
  <2>2. t \in Seq(Lexeme) /\ t = WhereText(e)
    BY WhereTextUnfolds
  <2>3. u = s \o t
    BY <1>2, <2>2 DEF Unless
  <2>4. s \in Seq(Lexeme)
    BY <2>1, ShortTexts
  <2> HIDE DEF s, t, k
  <2>5. u \in Seq(Lexeme)
    BY <2>2, <2>3, <2>4, JoinedTexts
  <2>6. ASSUME NEW ts, NEW q0, NEW q, NEW p, NEW m, IsTokens(ts), Reads(ts, p, u, m),
               q["where"] = e, ~Keyword(ts, m, "and"), ~Keyword(ts, m, "or")
        PROVE  PartStands(ts, q0, q, "where", "where", p, m)
    <3>1. Stands(ts, p, k) /\ Reads(ts, p + 1, t, m) /\ p \in Nat \ {0}
      BY <2>1, <2>2, <2>3, <2>6, ReadsFirst DEF s
    <3>2. p \in DOMAIN ts /\ Keyword(ts, p, "where")
      BY <2>1, <3>1, KeywordStands DEF k
    <3>3. ReadsOr(ts, e)
      <4>1. Readable(ts, e)
        BY <2>6, ClausesRead
      <4>2. e.type # "none"
        BY <1>2, ClauseShapes
      <4> QED BY <4>1, <4>2 DEF Readable
    <3>4. ParseWhere(ts, p + 1) = Found(e, m)
      BY <2>6, <3>1, <3>3 DEF ReadsOr, t
    <3>5. m \in Nat \ {0}
      BY <2>6, ReadsRange
    <3>6. Clause(q0.kind, ts, p) = [field |-> "where", parse |-> ParseWhere(ts, p + 1)]
      BY <3>2, ClauseOpened
    <3> QED BY <2>6, <3>2, <3>4, <3>5, <3>6 DEF PartStands
  <2> QED BY <1>2, <2>5, <2>6
<1> QED BY <1>1, <1>2

LEMMA SelectsRead ==
  ASSUME NEW s, s = [i \in 1..Len(s) |-> s[i]], Len(s) \in Nat, \A i \in DOMAIN s : IsName(s[i]),
         NEW u, u = Unless(s = <<>>, <<Word("select")>> \o Separated([i \in DOMAIN s |-> <<Name(s[i])>>], Comma))
  PROVE  /\ u \in Seq(Lexeme)
         /\ \A ts, q0, q, p, m :
              /\ IsTokens(ts) /\ Reads(ts, p, u, m) /\ q["select"] = s /\ q0["select"] = <<>>
              /\ s # <<>> => q0.kind = "select"
              /\ ts[m].kind # "comma"
              => PartStands(ts, q0, q, "select", "select", p, m)
<1>1. CASE s = <<>>
  <2>1. u = <<>> /\ u \in Seq(Lexeme)
    BY <1>1 DEF Unless
  <2> QED BY <1>1, <2>1, EmptyReads DEF PartStands
<1>2. CASE s # <<>>
  <2> DEFINE n == Len(s)
             k == Word("select")
             ls == [i \in 1..n |-> Name(s[i])]
             texts == [i \in DOMAIN s |-> <<Name(s[i])>>]
             t == Separated(texts, Comma)
             w == <<k>>
  <2>1. DOMAIN s = 1..n /\ n \in Nat \ {0}
    BY <1>2
  <2>2. k \in Lexeme /\ "select" \in Keywords
    BY LexemesToTokens DEF Keywords
  <2>3. u = w \o t
    BY <1>2 DEF Unless
  <2>4. \A i \in 1..n : ls[i] \in Lexeme /\ Token(ls[i]) = [kind |-> "ident", value |-> s[i]]
    BY <2>1, LexemesToTokens
  <2>5. DOMAIN texts = 1..n /\ \A i \in 1..n : texts[i] = <<ls[i]>>
    BY <2>1
  <2>6. Len(texts) = n
    BY <2>1
  <2>7. \A i \in 1..n : Token(ls[i]).kind = "ident" /\ Token(ls[i]).value = s[i]
    <3> TAKE i \in 1..n
    <3>1. Token(ls[i]) = [kind |-> "ident", value |-> s[i]]
      BY <2>4
    <3> HIDE DEF ls
    <3> QED BY <3>1
  <2>13. s = [i \in 1..n |-> s[i]]
    OBVIOUS
  <2>14. Singles(texts, ls, n)
    <3> HIDE DEF texts, ls, n
    <3> QED BY <2>4, <2>5, <2>6 DEF Singles
  <2>8. w \in Seq(Lexeme)
    BY <2>2, ShortTexts
  <2> HIDE DEF texts, ls, n, k, w
  <2>9. t \in Seq(Lexeme)
    BY <2>1, <2>14, ListTexts
  <2>10. ASSUME NEW ts, NEW p, NEW m, IsTokens(ts), Reads(ts, p, t, m), ts[m].kind # "comma"
         PROVE  ParseList({"ident"}, ts, p) = Found(s, m)
    <3>1. \A i \in 1..n : Token(ls[i]).kind \in {"ident"}
      BY <2>7
    <3>2. ParseList({"ident"}, ts, p) = Found([i \in 1..n |-> Token(ls[i]).value], m)
      BY <2>1, <2>14, <2>10, <3>1, ListsRead
    <3>3. [i \in 1..n |-> Token(ls[i]).value] = s
      BY <2>7, <2>13
    <3> QED BY <3>2, <3>3
  <2> HIDE DEF t
  <2>11. u \in Seq(Lexeme)
    BY <2>3, <2>8, <2>9, JoinedTexts
  <2>12. ASSUME NEW ts, NEW q0, NEW q, NEW p, NEW m, IsTokens(ts), Reads(ts, p, u, m),
               q["select"] = s, q0.kind = "select", ts[m].kind # "comma"
         PROVE  PartStands(ts, q0, q, "select", "select", p, m)
    <3>1. Stands(ts, p, k) /\ Reads(ts, p + 1, t, m) /\ p \in Nat \ {0}
      BY <2>2, <2>3, <2>9, <2>12, ReadsFirst DEF w
    <3>2. p \in DOMAIN ts /\ Keyword(ts, p, "select")
      BY <2>2, <3>1, KeywordStands DEF k
    <3>3. ParseList({"ident"}, ts, p + 1) = Found(s, m)
      BY <2>10, <2>12, <3>1
    <3>4. m \in Nat \ {0}
      BY <2>12, ReadsRange
    <3>5. Clause(q0.kind, ts, p) = [field |-> "select", parse |-> ParseList({"ident"}, ts, p + 1)]
      BY <2>12, <3>2, ClauseOpened
    <3> QED BY <2>12, <3>2, <3>3, <3>4, <3>5 DEF PartStands
  <2> QED BY <1>2, <2>11, <2>12
<1> QED BY <1>1, <1>2

(* A lexeme of a text, among the tokens.                                    *)
LEMMA LexemesRead ==
  ASSUME NEW ts, IsTokens(ts), NEW u, NEW p, NEW q, Reads(ts, p, u, q), NEW i \in 1..Len(u)
  PROVE  Stands(ts, p + i - 1, u[i])
<1>1. /\ p \in Nat \ {0} /\ Len(u) \in Nat /\ q = p + Len(u) /\ q \in 1..Len(ts) /\ Len(ts) \in Nat
      /\ DOMAIN ts = 1..Len(ts) /\ ts[p + i - 1] = Token(u[i])
  BY DEF Reads, IsTokens
<1>2. p + i - 1 \in DOMAIN ts /\ p + i - 1 + 1 \in DOMAIN ts
  BY <1>1
<1> QED BY <1>1, <1>2 DEF Stands

LEMMA PrefixedText ==
  ASSUME NEW S, NEW x \in S, NEW b \in Seq(S), NEW a, a = <<x>>, NEW c, c = a \o b
  PROVE  c \in Seq(S) /\ Len(c) = 1 + Len(b) /\ c[1] = x /\ Tail(c) = b
<1>1. a \in Seq(S) /\ Len(a) = 1 /\ a[1] = x
  OBVIOUS
<1>2. c \in Seq(S) /\ Len(c) = 1 + Len(b) /\ c[1] = x
  BY <1>1, JoinedTexts
<1>3. Len(b) \in Nat /\ \A i \in 1..Len(b) : c[1 + i] = b[i]
  BY <1>1, JoinedTexts
<1>4. Tail(c) \in Seq(S) /\ Len(Tail(c)) = Len(b) /\ \A i \in 1..Len(b) : Tail(c)[i] = b[i]
  <2>1. c # <<>> /\ Tail(c) = [i \in 1..(Len(c) - 1) |-> c[i + 1]]
    BY <1>2, <1>3
  <2> QED BY <1>2, <1>3, <2>1
<1> QED BY <1>4

(* The name of a field and its alias.                                       *)
LEMMA QualifiedNames ==
  ASSUME NEW f, IsQualified(f)
  PROVE  IsName(f.alias \o f.field) /\ Qualified(f.alias \o f.field) = f
<1> DEFINE a == f.alias
           b == f.field
           c == a \o b
<1>1. a \in Seq(Parts) /\ b \in Seq(Parts) /\ b # <<>> /\ Len(a) = 1 /\ f = [alias |-> a, field |-> b]
  BY DEF IsQualified
<1> HIDE DEF a, b
<1>2. c \in Seq(Parts) /\ Len(c) > 1 /\ c[1] = a[1] /\ a = <<a[1]>> /\ Tail(c) = b
  <2>1. Len(b) \in Nat \ {0} /\ a = <<a[1]>> /\ a[1] \in Parts
    <3>1. Len(b) \in Nat \ {0}
      BY <1>1
    <3>2. a = <<a[1]>>
      BY <1>1
    <3>3. a[1] \in Parts
      BY <1>1
    <3> QED BY <3>1, <3>2, <3>3
  <2> DEFINE x == a[1]
  <2>2. x \in Parts /\ a = <<x>> /\ c = a \o b /\ b \in Seq(Parts)
    BY <1>1, <2>1 DEF c
  <2> HIDE DEF x
  <2>3. c \in Seq(Parts) /\ Len(c) = 1 + Len(b) /\ c[1] = x /\ Tail(c) = b
    BY <2>2, PrefixedText
  <2> QED BY <2>1, <2>3 DEF x
<1> HIDE DEF c
<1>3. Qualified(c) = f
  BY <1>1, <1>2 DEF Qualified
<1>4. \A x : Len(<<x>>) = 1
  OBVIOUS
<1>5. Name(c) \in Lexeme /\ Name(c).lex = "word" /\ Name(c).text = c
  BY <1>2, <1>4 DEF Name, Lexeme
<1>6. \A k : Name(c) # Word(k)
  <2>1. \A k : Word(k).text = <<k>>
    BY DEF Word
  <2> QED BY <1>2, <1>4, <1>5, <2>1
<1>7. Token(Name(c)) = [kind |-> "ident", value |-> c]
  BY <1>5, <1>6, TokensByKind
<1> QED BY <1>3, <1>5, <1>7 DEF IsName, c, a, b

JoinWords(j) == <<Word("join"), Name(j.schema), Word("on"), Name(j.left.alias \o j.left.field), Symbol("="),
                  Name(j.right.alias \o j.right.field)>>

LEMMA JoinsRead ==
  ASSUME NEW j, j = [schema |-> j.schema, left |-> j.left, right |-> j.right],
         IsName(j.schema), IsQualified(j.left), IsQualified(j.right)
  PROVE  /\ JoinWords(j) \in Seq(Lexeme)
         /\ \A ts, p, m : IsTokens(ts) /\ Reads(ts, p, JoinWords(j), m) =>
              Keyword(ts, p, "join") /\ ParseJoin(ts, p + 1) = Found(j, m) /\ m \in Nat \ {0}
<1> DEFINE l == j.left.alias \o j.left.field
           r == j.right.alias \o j.right.field
           k == Word("join")
           s == Name(j.schema)
           on == Word("on")
           nl == Name(l)
           eq == Symbol("=")
           nr == Name(r)
           u == <<k, s, on, nl, eq, nr>>
<1>1. {"join", "on"} \subseteq Keywords /\ "=" \in Operators
  BY DEF Keywords, Operators
<1>2. IsName(l) /\ Qualified(l) = j.left /\ IsName(r) /\ Qualified(r) = j.right
  BY QualifiedNames
<1> HIDE DEF l, r
<1>3. {k, s, on, nl, eq, nr} \subseteq Lexeme
  BY <1>1, <1>2, LexemesToTokens
<1>4. /\ Token(s) = [kind |-> "ident", value |-> j.schema] /\ Token(eq) = [kind |-> "op", value |-> "="]
      /\ Token(nl) = [kind |-> "ident", value |-> l] /\ Token(nr) = [kind |-> "ident", value |-> r]
  BY <1>1, <1>2, LexemesToTokens
<1>5. JoinWords(j) = u
  BY DEF JoinWords, l, r
<1> HIDE DEF k, s, on, nl, eq, nr
<1>6. u \in Seq(Lexeme) /\ Len(u) = 6 /\ u[1] = k /\ u[2] = s /\ u[3] = on /\ u[4] = nl /\ u[5] = eq /\ u[6] = nr
  BY <1>3
<1> HIDE DEF u
<1>7. ASSUME NEW ts, NEW p, NEW m, IsTokens(ts), Reads(ts, p, u, m)
      PROVE  Keyword(ts, p, "join") /\ ParseJoin(ts, p + 1) = Found(j, m) /\ m \in Nat \ {0}
  <2>1. p \in Nat \ {0} /\ m = p + 6
    BY <1>6, <1>7 DEF Reads
  <2>2. /\ p + 1 - 1 = p /\ p + 2 - 1 = p + 1 /\ p + 3 - 1 = p + 2 /\ p + 4 - 1 = p + 3 /\ p + 5 - 1 = p + 4
        /\ p + 6 - 1 = p + 5 /\ p + 1 + 1 = p + 2 /\ p + 1 + 2 = p + 3 /\ p + 1 + 3 = p + 4
        /\ p + 1 + 4 = p + 5 /\ p + 1 + 5 = m /\ m \in Nat \ {0}
    BY <2>1
  <2>3. \A i \in 1..6 : Stands(ts, p + i - 1, u[i])
    BY <1>6, <1>7, LexemesRead
  <2>4. Stands(ts, p, k) /\ Stands(ts, p + 1, s) /\ Stands(ts, p + 2, on)
    BY <1>6, <2>2, <2>3
  <2>5. Stands(ts, p + 3, nl) /\ Stands(ts, p + 4, eq) /\ Stands(ts, p + 5, nr)
    BY <1>6, <2>2, <2>3
  <2>6. Keyword(ts, p, "join") /\ Keyword(ts, p + 2, "on")
    BY <1>1, <2>4, KeywordStands DEF k, on
  <2>7. /\ ts[p + 1].kind = "ident" /\ ts[p + 1].value = j.schema
        /\ ts[p + 3].kind = "ident" /\ ts[p + 3].value = l
        /\ Match(ts, p + 4, "op", "=") /\ ts[p + 5].kind = "ident" /\ ts[p + 5].value = r
    BY <1>4, <2>4, <2>5 DEF Stands, Match
  <2>8. ParseJoin(ts, p + 1) = Found([schema |-> j.schema, left |-> j.left, right |-> j.right], m)
    BY <1>2, <2>2, <2>6, <2>7 DEF ParseJoin
  <2> QED BY <2>2, <2>6, <2>8
<1> QED BY <1>5, <1>6, <1>7

LEMMA EndsWith ==
  ASSUME NEW ts, NEW p, NEW W, Ends(ts, p, W)
  PROVE  (\A w : w \notin W => ~Keyword(ts, p, w)) /\ ts[p].kind # "comma"
BY DEF Ends, Keyword, Match

LEMMA HeadsRead ==
  ASSUME NEW q, IsQuery(q)
  PROVE  /\ HeadText(q) \in Seq(Lexeme) /\ JoinText(q) \in Seq(Lexeme)
         /\ \A ts, m, n :
              /\ IsTokens(ts) /\ Reads(ts, 1, HeadText(q), m) /\ Reads(ts, m, JoinText(q), n)
              /\ ~Keyword(ts, n, "join")
              => Opening(ts) = Found(Base(q), n) /\ n \in Nat \ {0}
<1> DEFINE w == IF q.kind = "aggregate" THEN "count" ELSE "from"
           k == Word(w)
           f == Name(q.from)
           j == q.join
           h == HeadText(q)
           t == JoinText(q)
<1>1. /\ w \in Keywords /\ IsName(q.from) /\ q.kind \in {"select", "aggregate"}
      /\ q.kind = "aggregate" => j = NoJoin
      /\ \/ j = NoJoin
         \/ /\ j = [schema |-> j.schema, left |-> j.left, right |-> j.right]
            /\ IsName(j.schema) /\ IsQualified(j.left) /\ IsQualified(j.right)
  <2>1. w \in Keywords /\ IsName(q.from) /\ q.kind \in {"select", "aggregate"}
    BY DEF IsQuery, Keywords
  <2>2. q.kind = "aggregate" => j = NoJoin
    BY DEF IsQuery, Query
  <2> QED BY <2>1, <2>2 DEF IsQuery
<1>2. k \in Lexeme /\ f \in Lexeme /\ Token(f) = [kind |-> "ident", value |-> q.from]
  BY <1>1, LexemesToTokens
<1>3. h = <<k, f>>
  BY DEF HeadText
<1>4. t = IF j = NoJoin THEN <<>> ELSE JoinWords(j)
  BY DEF JoinText, JoinWords, Unless
<1> HIDE DEF k, f, h, t
<1>5. h \in Seq(Lexeme)
  BY <1>2, <1>3, PairTexts
<1>6. t \in Seq(Lexeme)
  <2>1. CASE j = NoJoin
    BY <1>4, <2>1
  <2>2. CASE j # NoJoin
    <3>1. JoinWords(j) \in Seq(Lexeme)
      BY <1>1, <2>2, JoinsRead
    <3> QED BY <1>4, <2>2, <3>1
  <2> QED BY <2>1, <2>2
<1>7. ASSUME NEW ts, NEW m, NEW n, IsTokens(ts), Reads(ts, 1, h, m), Reads(ts, m, t, n), ~Keyword(ts, n, "join")
      PROVE  Opening(ts) = Found(Base(q), n) /\ n \in Nat \ {0}
  <2>1. Stands(ts, 1, k) /\ Stands(ts, 1 + 1, f) /\ m = 1 + 2
    BY <1>2, <1>3, <1>7, ShortReads
  <2>2. Keyword(ts, 1, w)
    BY <1>1, <2>1, KeywordStands DEF k
  <2>3. ts[2].kind = "ident" /\ ts[2].value = q.from /\ m = 3
    BY <1>2, <2>1 DEF Stands
  <2>4. n \in Nat \ {0}
    BY <1>7, ReadsRange
  <2>5. Keyword(ts, 1, "count") <=> q.kind = "aggregate"
    BY <2>2 DEF Keyword, Match
  <2>6. CASE j = NoJoin
    <3>1. n = 3
      BY <1>4, <1>7, <2>3, <2>6, EmptyReads
    <3>2. Base(q) = Query(q.kind, q.from)
      BY <2>6 DEF Base, Query
    <3> QED BY <1>1, <1>7, <2>2, <2>3, <2>4, <2>5, <3>1, <3>2 DEF Opening
  <2>7. CASE j # NoJoin
    <3>1. Reads(ts, 3, JoinWords(j), n)
      BY <1>4, <1>7, <2>3, <2>7
    <3>2. Keyword(ts, 3, "join") /\ ParseJoin(ts, 3 + 1) = Found(j, n)
      BY <1>1, <1>7, <2>7, <3>1, JoinsRead
    <3>3. q.kind = "select" /\ 3 + 1 = 4
      BY <1>1, <2>7
    <3>4. Opening(ts) = Joining(Query("select", q.from), Found(j, n))
      BY <2>2, <2>3, <2>5, <3>2, <3>3 DEF Opening
    <3>5. Joining(Query("select", q.from), Found(j, n)) = Found(Base(q), n)
      BY <2>4, <3>3, Results DEF Joining, Base
    <3> QED BY <2>4, <3>4, <3>5
  <2> QED BY <2>6, <2>7
<1> QED BY <1>5, <1>6, <1>7 DEF h, t

(* parseQuery reads the text of every query back as that query.            *)
THEOREM QueriesReadBack ==
  ASSUME NEW q, IsQuery(q), q.where \in Clauses
  PROVE  ParseQuery(QueryText(q)) = Found(q, Len(QueryText(q)) + 1)
<1> DEFINE t == QueryText(q)
           ts == Tokenize(t)
           n == Len(t) + 1
           b == Base(q)
           H == HeadText(q)
           J == JoinText(q)
           S == SelectText(q)
           W == WherePart(q)
           O == OrderText(q)
           L == LimitText(q)
           F == OffsetText(q)
           t1 == H \o J
           t2 == t1 \o S
           t3 == t2 \o W
           t4 == t3 \o O
           t5 == t4 \o L
           t6 == t5 \o F
<1>1. /\ q.kind = "aggregate" =>
           q.join = NoJoin /\ q.select = <<>> /\ q.orderBy = NoOrder /\ q.limit = Unset /\ q.offset = Unset
      /\ q.kind \in {"select", "aggregate"}
      /\ q.select = [i \in 1..Len(q.select) |-> q.select[i]] /\ Len(q.select) \in Nat
      /\ \A i \in DOMAIN q.select : IsName(q.select[i])
      /\ \/ q.orderBy = NoOrder
         \/ /\ q.orderBy = [field |-> q.orderBy.field, direction |-> q.orderBy.direction]
            /\ IsName(q.orderBy.field) /\ q.orderBy.direction \in {"asc", "desc"}
      /\ q.limit \in Nat \cup {Unset} /\ q.offset \in Nat \cup {Unset}
  <2>1. q.kind = "aggregate" =>
           q.join = NoJoin /\ q.select = <<>> /\ q.orderBy = NoOrder /\ q.limit = Unset /\ q.offset = Unset
    BY DEF IsQuery, Query
  <2> QED BY <2>1 DEF IsQuery
<1>2. /\ b.kind = q.kind /\ b["select"] = <<>> /\ b["where"] = NoWhere /\ b["orderBy"] = NoOrder
      /\ b["limit"] = Unset /\ b["offset"] = Unset /\ IsRecord(b)
      /\ {"select", "where", "orderBy", "limit", "offset"} \subseteq DOMAIN b
      /\ Filled(b, q, {}) = b
      /\ Filled(b, q, {"select", "where", "orderBy", "limit", "offset"}) = q
  BY QueryFields
<1>3. /\ q["limit"] = q.limit /\ q["offset"] = q.offset /\ q["orderBy"] = q.orderBy
      /\ q["where"] = q.where /\ q["select"] = q.select
  OBVIOUS
<1>4. /\ H \in Seq(Lexeme) /\ J \in Seq(Lexeme)
      /\ \A x, m, k : IsTokens(x) /\ Reads(x, 1, H, m) /\ Reads(x, m, J, k) /\ ~Keyword(x, k, "join")
           => Opening(x) = Found(b, k) /\ k \in Nat \ {0}
  BY HeadsRead
<1>5. /\ S \in Seq(Lexeme)
      /\ \A x, p, m : IsTokens(x) /\ Reads(x, p, S, m) /\ x[m].kind # "comma"
           => PartStands(x, b, q, "select", "select", p, m)
  <2> HIDE DEF b
  <2>1. q.select # <<>> => b.kind = "select"
    BY <1>1, <1>2
  <2> QED BY <1>1, <1>2, <1>3, <2>1, SelectsRead DEF SelectText
<1>6. /\ W \in Seq(Lexeme)
      /\ \A x, p, m : IsTokens(x) /\ Reads(x, p, W, m) /\ ~Keyword(x, m, "and") /\ ~Keyword(x, m, "or")
           => PartStands(x, b, q, "where", "where", p, m)
  <2> HIDE DEF b
  <2> QED BY <1>2, <1>3, WherePartsRead DEF WherePart
<1>7. /\ O \in Seq(Lexeme)
      /\ \A x, p, m : IsTokens(x) /\ Reads(x, p, O, m) => PartStands(x, b, q, "orderBy", "order", p, m)
  <2> HIDE DEF b
  <2>1. q.orderBy # NoOrder => b.kind = "select"
    BY <1>1, <1>2
  <2> QED BY <1>1, <1>2, <1>3, <2>1, OrdersRead DEF OrderText
<1>8. /\ L \in Seq(Lexeme)
      /\ \A x, p, m : IsTokens(x) /\ Reads(x, p, L, m) => PartStands(x, b, q, "limit", "limit", p, m)
  <2> HIDE DEF b
  <2>1. q.limit # Unset => b.kind = "select"
    BY <1>1, <1>2
  <2> QED BY <1>1, <1>2, <1>3, <2>1, NumbersRead DEF LimitText
<1>9. /\ F \in Seq(Lexeme)
      /\ \A x, p, m : IsTokens(x) /\ Reads(x, p, F, m) => PartStands(x, b, q, "offset", "offset", p, m)
  <2> HIDE DEF b
  <2>1. q.offset # Unset => b.kind = "select"
    BY <1>1, <1>2
  <2> QED BY <1>1, <1>2, <1>3, <2>1, NumbersRead DEF OffsetText
<1>10. t = t6
  BY DEF QueryText
<1> HIDE DEF H, J, S, W, O, L, F, t, b
<1>11. t1 \in Seq(Lexeme)
  BY <1>4, JoinedTexts
<1> HIDE DEF t1
<1>12. t2 \in Seq(Lexeme)
  BY <1>5, <1>11, JoinedTexts
<1> HIDE DEF t2
<1>13. t3 \in Seq(Lexeme)
  BY <1>6, <1>12, JoinedTexts
<1> HIDE DEF t3
<1>14. t4 \in Seq(Lexeme)
  BY <1>7, <1>13, JoinedTexts
<1> HIDE DEF t4
<1>15. t5 \in Seq(Lexeme)
  BY <1>8, <1>14, JoinedTexts
<1> HIDE DEF t5
<1>16. t6 \in Seq(Lexeme)
  BY <1>9, <1>15, JoinedTexts
<1>17. t \in Seq(Lexeme)
  BY <1>10, <1>16
<1>18. IsTokens(ts) /\ Len(ts) = n /\ n \in Nat \ {0} /\ \A i \in 1..Len(t) : ts[i] = Token(t[i])
  BY <1>17, TextTokens
<1> HIDE DEF ts
<1>19. Reads(ts, 1, t, n)
  <2>1. n \in DOMAIN ts /\ n = 1 + Len(t)
    BY <1>17, <1>18 DEF IsTokens
  <2>2. \A i \in 1..Len(t) : 1 + i - 1 = i
    OBVIOUS
  <2> QED BY <1>17, <1>18, <2>1, <2>2 DEF Reads
<1> HIDE DEF n
<1>20. PICK m6 : Reads(ts, 1, t5, m6) /\ Reads(ts, m6, F, n)
  BY <1>9, <1>10, <1>15, <1>18, <1>19, ReadsParts
<1>21. PICK m5 : Reads(ts, 1, t4, m5) /\ Reads(ts, m5, L, m6)
  BY <1>8, <1>14, <1>18, <1>20, ReadsParts DEF t5
<1>22. PICK m4 : Reads(ts, 1, t3, m4) /\ Reads(ts, m4, O, m5)
  BY <1>7, <1>13, <1>18, <1>21, ReadsParts DEF t4
<1>23. PICK m3 : Reads(ts, 1, t2, m3) /\ Reads(ts, m3, W, m4)
  BY <1>6, <1>12, <1>18, <1>22, ReadsParts DEF t3
<1>24. PICK m2 : Reads(ts, 1, t1, m2) /\ Reads(ts, m2, S, m3)
  BY <1>5, <1>11, <1>18, <1>23, ReadsParts DEF t2
<1>25. PICK m1 : Reads(ts, 1, H, m1) /\ Reads(ts, m1, J, m2)
  BY <1>4, <1>18, <1>24, ReadsParts DEF t1
<1>26. ParseClauses(ts, b, n) = Found(Filled(b, q, {}), n) /\ Ends(ts, n, {})
  <2>1. n \in DOMAIN ts /\ ts[n].kind = "eof"
    BY <1>18 DEF IsTokens
  <2>2. ParseClauses(ts, b, n) = Found(b, n)
    BY <1>18, <2>1, ClausesEnd
  <2> QED BY <1>2, <2>1, <2>2 DEF Ends
<1>35. IsTokens(ts) /\ n \in Nat \ {0} /\ IsRecord(b)
  BY <1>2, <1>18
<1> DEFINE A == {} \cup {"offset"}
           B == A \cup {"limit"}
           C == B \cup {"orderBy"}
           D == C \cup {"where"}
           X == B \cup {"order"}
           Y == X \cup {"where"}
<1>27. ParseClauses(ts, b, m6) = Found(Filled(b, q, A), n) /\ Ends(ts, m6, A)
  <2>1. PartStands(ts, b, q, "offset", "offset", m6, n)
    BY <1>9, <1>18, <1>20
  <2> DEFINE E == {}
  <2>2. "offset" \in DOMAIN b /\ "offset" \notin E /\ ParseClauses(ts, b, n) = Found(Filled(b, q, E), n) /\ Ends(ts, n, E)
    BY <1>2, <1>26
  <2>3. A = E \cup {"offset"}
    OBVIOUS
  <2> HIDE DEF A, E
  <2> QED BY <1>35, <2>1, <2>2, <2>3, PartsFill
<1>28. ParseClauses(ts, b, m5) = Found(Filled(b, q, B), n) /\ Ends(ts, m5, B)
  <2>1. "limit" \in DOMAIN b /\ "limit" \notin A
    BY <1>2
  <2>2. PartStands(ts, b, q, "limit", "limit", m5, m6)
    BY <1>8, <1>18, <1>21
  <2>3. B = A \cup {"limit"}
    OBVIOUS
  <2> HIDE DEF A, B
  <2> QED BY <1>35, <1>27, <2>1, <2>2, <2>3, PartsFill
<1>29. ParseClauses(ts, b, m4) = Found(Filled(b, q, C), n) /\ Ends(ts, m4, X)
  <2>1. "orderBy" \in DOMAIN b /\ "orderBy" \notin B
    BY <1>2
  <2>2. PartStands(ts, b, q, "orderBy", "order", m4, m5)
    BY <1>7, <1>18, <1>22
  <2>3. C = B \cup {"orderBy"} /\ X = B \cup {"order"}
    OBVIOUS
  <2> HIDE DEF B, C, X
  <2> QED BY <1>35, <1>28, <2>1, <2>2, <2>3, PartsFill
<1>30. ParseClauses(ts, b, m3) = Found(Filled(b, q, D), n) /\ Ends(ts, m3, Y)
  <2>1. "where" \in DOMAIN b /\ "where" \notin C /\ "and" \notin X /\ "or" \notin X
    BY <1>2
  <2>4. D = C \cup {"where"} /\ Y = X \cup {"where"}
    OBVIOUS
  <2> HIDE DEF C, D, X, Y
  <2>2. ~Keyword(ts, m4, "and") /\ ~Keyword(ts, m4, "or")
    BY <1>29, <2>1, EndsWith
  <2>3. PartStands(ts, b, q, "where", "where", m3, m4)
    BY <1>6, <1>18, <1>23, <2>2
  <2> QED BY <1>35, <1>29, <2>1, <2>3, <2>4, PartsFill
<1>31. /\ ParseClauses(ts, b, m2) = Found(Filled(b, q, D \cup {"select"}), n)
       /\ Ends(ts, m2, Y \cup {"select"})
  <2>1. "select" \in DOMAIN b /\ "select" \notin D
    BY <1>2
  <2> DEFINE G == D \cup {"select"}
             V == Y \cup {"select"}
  <2> HIDE DEF D, Y, G, V
  <2>2. ts[m3].kind # "comma"
    BY <1>30, EndsWith
  <2>3. PartStands(ts, b, q, "select", "select", m2, m3)
    BY <1>5, <1>18, <1>24, <2>2
  <2>4. G = D \cup {"select"} /\ V = Y \cup {"select"}
    BY DEF G, V
  <2>5. ParseClauses(ts, b, m2) = Found(Filled(b, q, G), n) /\ Ends(ts, m2, V)
    BY <1>35, <1>30, <2>1, <2>3, <2>4, PartsFill
  <2> QED BY <2>5 DEF G, V
<1>32. ParseClauses(ts, b, m2) = Found(q, n)
  <2>1. D \cup {"select"} = {"select", "where", "orderBy", "limit", "offset"}
    OBVIOUS
  <2> QED BY <1>2, <1>31, <2>1
<1>33. Opening(ts) = Found(b, m2) /\ m2 \in Nat \ {0}
  <2>1. "join" \notin Y \cup {"select"}
    OBVIOUS
  <2> HIDE DEF Y
  <2>2. ~Keyword(ts, m2, "join")
    BY <1>31, <2>1, EndsWith
  <2> QED BY <1>4, <1>18, <1>25, <2>2
<1>34. ParseTokens(ts) = Found(q, n)
  <2> DEFINE o == Opening(ts)
  <2>1. o.at = m2 /\ o.node = b
    BY <1>33, Results
  <2> HIDE DEF o
  <2>2. ParseOpened(ts, o) = Found(q, n)
    BY <1>32, <1>33, <2>1 DEF ParseOpened
  <2> QED BY <2>2 DEF ParseTokens, o
<1> QED BY <1>34 DEF ParseQuery, ts, n, t

-----------------------------------------------------------------------------
(* What the parser takes.                                                   *)

(* The token at i is in its place, in a query that is read up to q.         *)
Orderly(ts, i, q) ==
  /\ Keyword(ts, i, "not") => ~Keyword(ts, i + 1, "not")
  /\ ts[i].kind = "lparen" => \E k \in i..q - 1 : ts[k].kind = "rparen"
  /\ \A w \in {"limit", "offset"} : Keyword(ts, i, w) => ts[i + 1].kind = "number" /\ ~Keyword(ts, 1, "count")

AllOrderly(ts, p, q) == \A i \in p..q - 1 : Orderly(ts, i, q)

TakesOrderly(ts, p, r) == r.at = 0 \/ AllOrderly(ts, p, r.at)

LEMMA PlainKinds ==
  ASSUME NEW ts, NEW i, NEW q, ts[i].kind \notin {"lparen", "keyword"}
  PROVE  Orderly(ts, i, q)
BY DEF Orderly, Keyword, Match

LEMMA PlainKeywords ==
  ASSUME NEW ts, NEW i, NEW q, NEW w, Keyword(ts, i, w), w \notin {"not", "limit", "offset"}
  PROVE  Orderly(ts, i, q)
BY DEF Orderly, Keyword, Match

LEMMA OrderlyParts ==
  ASSUME NEW ts, NEW p \in Nat, NEW m \in Nat, NEW q \in Nat, m <= q,
         AllOrderly(ts, p, m), AllOrderly(ts, m, q)
  PROVE  AllOrderly(ts, p, q)
<1>1. ASSUME NEW i \in p..q - 1
      PROVE  Orderly(ts, i, q)
  <2>1. CASE i \in m..q - 1
    BY <2>1 DEF AllOrderly
  <2>2. CASE i \notin m..q - 1
    <3>1. i \in p..m - 1 /\ i..m - 1 \subseteq i..q - 1
      BY <1>1, <2>2
    <3>2. Orderly(ts, i, m)
      BY <3>1 DEF AllOrderly
    <3> QED BY <3>1, <3>2 DEF Orderly
  <2> QED BY <2>1, <2>2
<1> QED BY <1>1 DEF AllOrderly

LEMMA OrderlyToken ==
  ASSUME NEW ts, NEW p \in Nat, NEW m \in Nat, m = p + 1, NEW q \in Nat, m <= q,
         Orderly(ts, p, m), AllOrderly(ts, m, q)
  PROVE  AllOrderly(ts, p, q)
<1>1. \A i \in p..m - 1 : i = p
  OBVIOUS
<1>2. AllOrderly(ts, p, m)
  BY <1>1 DEF AllOrderly
<1> QED BY <1>2, OrderlyParts

LEMMA NoTokens ==
  ASSUME NEW ts, NEW p \in Nat
  PROVE  AllOrderly(ts, p, p)
BY DEF AllOrderly

(* What a list is made of.                                                  *)
IsItems(kinds, ts, p, n, r) ==
  /\ r.at = p + 2 * n - 1 /\ r.node = [i \in 1..n |-> ts[p + 2 * (i - 1)].value]
  /\ \A i \in 1..n : p + 2 * (i - 1) \in DOMAIN ts /\ ts[p + 2 * (i - 1)].kind \in kinds
  /\ \A i \in 1..n - 1 : ts[p + 2 * i - 1].kind = "comma"

LEMMA ListItems ==
  ASSUME NEW ts, IsTokens(ts), NEW p \in DOMAIN ts, NEW kinds, NEW r, r = ParseList(kinds, ts, p), r.at # 0
  PROVE  \E n \in Nat \ {0} : IsItems(kinds, ts, p, n, r)
<1> DEFINE c == Commas(ts, p)
           n == c + 1
<1>1. c \in Nat /\ p + 2 * c \in DOMAIN ts /\ \A i \in 1..c : Separates(ts, p, i)
  BY CommasCounted
<1>2. p \in 1..Len(ts) /\ DOMAIN ts = 1..Len(ts) /\ Len(ts) \in Nat
  BY DEF IsTokens
<1> HIDE DEF c
<1>3. n \in Nat \ {0} /\ n - 1 = c
  BY <1>1
<1>4. r = Items(kinds, ts, p, n)
  BY DEF ParseList, c
<1> HIDE DEF n
<1>5. ~\E i \in 1..n : ts[p + 2 * (i - 1)].kind \notin kinds
  BY <1>4, Results DEF Items
<1>6. r.at = p + 2 * n - 1 /\ r.node = [i \in 1..n |-> ts[p + 2 * (i - 1)].value]
  BY <1>4, <1>5, Results DEF Items
<1>7. \A i \in 1..n : p + 2 * (i - 1) \in DOMAIN ts
  BY <1>1, <1>2, <1>3
<1>8. \A i \in 1..n - 1 : ts[p + 2 * i - 1].kind = "comma"
  BY <1>1, <1>3 DEF Separates
<1> QED BY <1>3, <1>5, <1>6, <1>7, <1>8 DEF IsItems

LEMMA ListsOrderly ==
  ASSUME NEW ts, IsTokens(ts), NEW p \in DOMAIN ts, NEW kinds, "lparen" \notin kinds, "keyword" \notin kinds
  PROVE  TakesOrderly(ts, p, ParseList(kinds, ts, p))
<1> DEFINE r == ParseList(kinds, ts, p)
<1> SUFFICES ASSUME r.at # 0 PROVE AllOrderly(ts, p, r.at)
  BY DEF TakesOrderly
<1>1. PICK n \in Nat \ {0} : IsItems(kinds, ts, p, n, r)
  <2>1. r = ParseList(kinds, ts, p)
    OBVIOUS
  <2> HIDE DEF r
  <2> QED BY <2>1, ListItems
<1> HIDE DEF r
<1>2. p \in Nat /\ r.at = p + 2 * n - 1
  BY <1>1 DEF IsTokens, IsItems
<1>4. /\ \A i \in 1..n : ts[p + 2 * (i - 1)].kind \in kinds
      /\ \A i \in 1..n - 1 : ts[p + 2 * i - 1].kind = "comma"
  BY <1>1 DEF IsItems
<1>3. ASSUME NEW i \in p..r.at - 1
      PROVE  Orderly(ts, i, r.at)
  <2> DEFINE j == (i - p) \div 2
  <2>1. j \in Nat /\ (i = p + 2 * j \/ i = p + 2 * j + 1) /\ i \in Int
    <3> DEFINE d == i - p
    <3>1. d \in Nat /\ i = p + d /\ i \in Int
      BY <1>1, <1>2, <1>3
    <3> HIDE DEF d
    <3>2. d \div 2 \in Nat /\ (d = 2 * (d \div 2) \/ d = 2 * (d \div 2) + 1)
      BY <3>1
    <3> QED BY <1>2, <3>1, <3>2 DEF d
  <2> HIDE DEF j
  <2> DEFINE k == j + 1
  <2>2. k \in Nat \ {0} /\ p + 2 * (k - 1) = p + 2 * j /\ p + 2 * k - 1 = p + 2 * j + 1
    BY <1>2, <2>1
  <2> HIDE DEF k
  <2>3. CASE i = p + 2 * j
    <3>1. k \in 1..n /\ p + 2 * (k - 1) = i
      BY <1>2, <1>3, <2>1, <2>2, <2>3
    <3>2. ts[p + 2 * (k - 1)].kind \in kinds
      BY <1>4, <3>1
    <3>3. ts[i].kind \in kinds
      BY <3>1, <3>2
    <3> QED BY <3>3, PlainKinds
  <2>4. CASE i = p + 2 * j + 1
    <3>1. k \in 1..n - 1 /\ p + 2 * k - 1 = i
      BY <1>2, <1>3, <2>1, <2>2, <2>4
    <3>2. ts[p + 2 * k - 1].kind = "comma"
      BY <1>4, <3>1
    <3>3. ts[i].kind = "comma"
      BY <3>1, <3>2
    <3> QED BY <3>3, PlainKinds
  <2> QED BY <2>1, <2>3, <2>4
<1> QED BY <1>3 DEF AllOrderly

LEMMA OrderlyBehind ==
  ASSUME NEW ts, IsTokens(ts), NEW p \in DOMAIN ts, NEW r, Ahead(ts, p + 1, r), TakesOrderly(ts, p + 1, r),
         r.at # 0 => Orderly(ts, p, r.at)
  PROVE  TakesOrderly(ts, p, r)
<1> SUFFICES ASSUME r.at # 0 PROVE AllOrderly(ts, p, r.at)
  BY DEF TakesOrderly
<1>1. p \in Nat /\ r.at \in Nat /\ p + 1 <= r.at /\ AllOrderly(ts, p + 1, r.at)
  BY DEF IsTokens, Ahead, TakesOrderly
<1>2. ASSUME NEW i \in p..r.at - 1
      PROVE  Orderly(ts, i, r.at)
  <2>1. i = p \/ i \in (p + 1)..r.at - 1
    BY <1>1
  <2> QED BY <1>1, <2>1 DEF AllOrderly
<1> QED BY <1>2 DEF AllOrderly

LEMMA EnclosedOrderly ==
  ASSUME NEW ts, IsTokens(ts), NEW p \in DOMAIN ts, ts[p].kind = "lparen", NEW inner,
         p + 1 \in DOMAIN ts, Ahead(ts, p + 1, inner), TakesOrderly(ts, p + 1, inner)
  PROVE  Ahead(ts, p, Closed(ts, inner)) /\ TakesOrderly(ts, p, Closed(ts, inner))
<1> DEFINE r == Closed(ts, inner)
<1>1. p \in Nat /\ p + 1 \in Nat
  BY DEF IsTokens
<1>2. Ahead(ts, p + 1, r)
  BY <1>1, ClosedAdvances
<1>3. r.at = 0 \/ (inner.at # 0 /\ ts[inner.at].kind = "rparen" /\ r.at = inner.at + 1)
  BY Results DEF Closed
<1> HIDE DEF r
<1>4. Ahead(ts, p, r)
  BY <1>1, <1>2 DEF Ahead
<1>5. ASSUME r.at = 0
      PROVE  TakesOrderly(ts, p, r)
  BY <1>5 DEF TakesOrderly
<1>6. ASSUME r.at # 0
      PROVE  TakesOrderly(ts, p, r)
  <2>1. /\ inner.at # 0 /\ ts[inner.at].kind = "rparen" /\ r.at = inner.at + 1 /\ inner.at \in Nat
        /\ p + 1 <= inner.at /\ AllOrderly(ts, p + 1, inner.at)
    BY <1>1, <1>3, <1>6 DEF Ahead, TakesOrderly
  <2>2. Orderly(ts, inner.at, r.at)
    BY <2>1, PlainKinds
  <2>3. AllOrderly(ts, inner.at, r.at)
    <3>1. \A i \in inner.at..r.at - 1 : i = inner.at
      BY <2>1
    <3> QED BY <2>2, <3>1 DEF AllOrderly
  <2>4. AllOrderly(ts, p + 1, r.at)
    BY <1>1, <2>1, <2>3, OrderlyParts
  <2>5. Orderly(ts, p, r.at)
    <3>1. inner.at \in p..r.at - 1
      BY <1>1, <2>1
    <3>2. \A w : ~Keyword(ts, p, w)
      BY DEF Keyword, Match
    <3> QED BY <2>1, <3>1, <3>2 DEF Orderly
  <2>6. TakesOrderly(ts, p + 1, r)
    BY <2>4 DEF TakesOrderly
  <2> QED BY <1>2, <1>4, <2>5, <2>6, OrderlyBehind
<1> QED BY <1>4, <1>5, <1>6 DEF r

LEMMA ConditionsOrderly ==
  ASSUME NEW ts, IsTokens(ts), NEW p \in DOMAIN ts
  PROVE  /\ TakesOrderly(ts, p, ParseCondition(ts, p))
         /\ ParseCondition(ts, p).at # 0 => ts[p].kind = "ident"
<1> DEFINE r == ParseCondition(ts, p)
<1>1. p \in 1..Len(ts) /\ DOMAIN ts = 1..Len(ts) /\ Len(ts) \in Nat
  BY DEF IsTokens
<1>2. \A i \in DOMAIN ts : ts[i].kind # "eof" => i + 1 \in DOMAIN ts
  BY TokenAt
<1>3. CASE ts[p].kind # "ident"
  BY <1>3, Results DEF ParseCondition, TakesOrderly
<1>4. CASE ts[p].kind = "ident" /\ Keyword(ts, p + 1, "exists")
  <2>1. r.at = p + 2
    BY <1>4, Results DEF ParseCondition
  <2>2. \A i \in p..p + 2 - 1 : i = p \/ i = p + 1
    BY <1>1
  <2>3. Orderly(ts, p, p + 2) /\ Orderly(ts, p + 1, p + 2)
    BY <1>4, PlainKinds, PlainKeywords
  <2> HIDE DEF r
  <2>4. AllOrderly(ts, p, r.at)
    <3>1. AllOrderly(ts, p, p + 2)
      <4>1. ASSUME NEW i \in p..p + 2 - 1 PROVE Orderly(ts, i, p + 2)
        <5>1. i = p \/ i = p + 1
          BY <2>2
        <5> QED BY <2>3, <5>1
      <4> QED BY <1>1, <4>1 DEF AllOrderly
    <3> QED BY <2>1, <3>1
  <2> QED BY <1>4, <2>4 DEF TakesOrderly, r
<1>5. CASE ts[p].kind = "ident" /\ ~Keyword(ts, p + 1, "exists") /\ Keyword(ts, p + 1, "in")
  <2>1. p + 1 \in DOMAIN ts
    BY <1>2, <1>5
  <2>2. p + 1 + 1 \in DOMAIN ts /\ p + 1 + 1 = p + 2
    BY <1>1, <1>2, <1>5, <2>1 DEF Keyword, Match
  <2>3. CASE ts[p + 2].kind # "lparen"
    BY <1>5, <2>3, Results DEF ParseCondition, TakesOrderly
  <2>4. CASE ts[p + 2].kind = "lparen"
    <3> DEFINE items == ParseList(ValueKinds, ts, p + 3)
               list == Closed(ts, items)
               in == InList(ts[p].value, list)
    <3>1. p + 2 + 1 \in DOMAIN ts /\ p + 2 + 1 = p + 3
      BY <1>1, <1>2, <2>2, <2>4
    <3>2. Ahead(ts, p + 3, items) /\ TakesOrderly(ts, p + 3, items)
      BY <3>1, ListsAdvance, ListsOrderly DEF ValueKinds
    <3>3. r = in
      BY <1>5, <2>4 DEF ParseCondition
    <3>4. in.at = list.at
      BY Results DEF InList
    <3> HIDE DEF items, in
    <3>5. Ahead(ts, p + 2, list) /\ TakesOrderly(ts, p + 2, list)
      BY <2>2, <2>4, <3>1, <3>2, EnclosedOrderly
    <3> HIDE DEF list
    <3>6. Ahead(ts, p + 1 + 1, in) /\ TakesOrderly(ts, p + 1 + 1, in)
      BY <2>2, <3>4, <3>5 DEF Ahead, TakesOrderly
    <3>7. Orderly(ts, p, in.at) /\ Orderly(ts, p + 1, in.at)
      BY <1>5, PlainKinds, PlainKeywords
    <3>8. TakesOrderly(ts, p + 1, in)
      BY <2>1, <3>6, <3>7, OrderlyBehind
    <3>9. Ahead(ts, p + 1, in)
      BY <1>1, <3>6 DEF Ahead
    <3>10. TakesOrderly(ts, p, in)
      BY <3>7, <3>8, <3>9, OrderlyBehind
    <3> QED BY <1>5, <3>3, <3>10
  <2> QED BY <2>3, <2>4
<1>6. CASE ts[p].kind = "ident" /\ ~Keyword(ts, p + 1, "exists") /\ ~Keyword(ts, p + 1, "in")
  <2>1. CASE ts[p + 1].kind = "op" /\ ts[p + 2].kind \in ValueKinds
    <3>1. r.at = p + 3
      BY <1>6, <2>1, Results DEF ParseCondition
    <3>2. \A i \in p..p + 3 - 1 : i = p \/ i = p + 1 \/ i = p + 2
      BY <1>1
    <3>3. Orderly(ts, p, p + 3) /\ Orderly(ts, p + 1, p + 3) /\ Orderly(ts, p + 2, p + 3)
      BY <1>6, <2>1, PlainKinds DEF ValueKinds
    <3> HIDE DEF r
    <3>4. AllOrderly(ts, p, r.at)
      <4>1. AllOrderly(ts, p, p + 3)
        <5>1. ASSUME NEW i \in p..p + 3 - 1 PROVE Orderly(ts, i, p + 3)
          <6>1. i = p \/ i = p + 1 \/ i = p + 2
            BY <3>2
          <6> QED BY <3>3, <6>1
        <5> QED BY <1>1, <5>1 DEF AllOrderly
      <4> QED BY <3>1, <4>1
    <3> QED BY <1>6, <3>4 DEF TakesOrderly, r
  <2>2. CASE ~(ts[p + 1].kind = "op" /\ ts[p + 2].kind \in ValueKinds)
    BY <1>6, <2>2, Results DEF ParseCondition, TakesOrderly
  <2> QED BY <2>1, <2>2
<1> QED BY <1>3, <1>4, <1>5, <1>6

(* The where clauses, in the order in which Chains makes them.              *)
OrderlyBelow(ts, g, n) == \A y \in Spots(ts) : Level(ts, y) < n => TakesOrderly(ts, y[2], g[y])

LEMMA PrimariesOrderly ==
  ASSUME NEW ts, IsTokens(ts), NEW p \in DOMAIN ts, NEW g,
         p + 1 \in DOMAIN ts => Ahead(ts, p + 1, g[<<"or", p + 1>>]) /\ TakesOrderly(ts, p + 1, g[<<"or", p + 1>>])
  PROVE  /\ TakesOrderly(ts, p, ParsePrimary(ts, g, p))
         /\ ParsePrimary(ts, g, p).at # 0 => ts[p].kind \in {"ident", "lparen"}
<1>1. CASE ts[p].kind = "lparen"
  <2> DEFINE chain == g[<<"or", p + 1>>]
             inner == Whole("or", chain)
  <2>1. p + 1 \in DOMAIN ts
    BY <1>1, TokenAt
  <2>2. Ahead(ts, p + 1, chain) /\ TakesOrderly(ts, p + 1, chain) /\ inner.at = chain.at
    BY <2>1, WholeAt
  <2>3. ParsePrimary(ts, g, p) = Closed(ts, inner)
    BY <1>1 DEF ParsePrimary
  <2> HIDE DEF chain, inner
  <2>4. Ahead(ts, p + 1, inner) /\ TakesOrderly(ts, p + 1, inner)
    BY <2>2 DEF Ahead, TakesOrderly
  <2> QED BY <1>1, <2>1, <2>3, <2>4, EnclosedOrderly
<1>2. CASE ts[p].kind # "lparen"
  BY <1>2, ConditionsOrderly DEF ParsePrimary
<1> QED BY <1>1, <1>2

LEMMA NotsOrderly ==
  ASSUME NEW ts, IsTokens(ts), NEW p \in DOMAIN ts, NEW g,
         \A q \in DOMAIN ts : q > p => Ahead(ts, q, g[<<"or", q>>]) /\ TakesOrderly(ts, q, g[<<"or", q>>])
  PROVE  TakesOrderly(ts, p, ParseNot(ts, g, p))
<1>1. p \in 1..Len(ts) /\ DOMAIN ts = 1..Len(ts) /\ Len(ts) \in Nat
  BY DEF IsTokens
<1>2. ASSUME NEW q \in DOMAIN ts, q >= p
      PROVE  /\ TakesOrderly(ts, q, ParsePrimary(ts, g, q)) /\ Ahead(ts, q, ParsePrimary(ts, g, q))
             /\ ParsePrimary(ts, g, q).at # 0 => ts[q].kind \in {"ident", "lparen"}
  <2>1. q + 1 \in DOMAIN ts => q + 1 > p
    BY <1>1, <1>2
  <2> QED BY <2>1, PrimariesOrderly, PrimariesAdvance
<1>3. CASE Keyword(ts, p, "not")
  <2> DEFINE inner == ParsePrimary(ts, g, p + 1)
             r == Negated(inner)
  <2>1. p + 1 \in DOMAIN ts /\ p + 1 >= p
    BY <1>1, <1>3, TokenAt DEF Keyword, Match
  <2>2. /\ TakesOrderly(ts, p + 1, inner) /\ Ahead(ts, p + 1, inner)
        /\ inner.at # 0 => ts[p + 1].kind \in {"ident", "lparen"}
    BY <1>2, <2>1
  <2>3. ParseNot(ts, g, p) = r
    BY <1>3 DEF ParseNot
  <2>4. r.at = inner.at
    BY Results DEF Negated
  <2> HIDE DEF r, inner
  <2>5. TakesOrderly(ts, p + 1, r) /\ Ahead(ts, p + 1, r)
    BY <2>2, <2>4 DEF TakesOrderly, Ahead
  <2>6. r.at # 0 => Orderly(ts, p, r.at)
    BY <1>3, <2>2, <2>4 DEF Orderly, Keyword, Match
  <2> QED BY <2>3, <2>5, <2>6, OrderlyBehind
<1>4. CASE ~Keyword(ts, p, "not")
  BY <1>1, <1>2, <1>4 DEF ParseNot
<1> QED BY <1>3, <1>4

LEMMA ChainStepsOrderly ==
  ASSUME NEW ts, IsTokens(ts), NEW x \in Spots(ts), NEW g, OrderlyBelow(ts, g, Level(ts, x)),
         \A y \in Spots(ts) : Ahead(ts, y[2], g[y])
  PROVE  TakesOrderly(ts, x[2], ChainAt(ts, g, x))
<1> DEFINE word == x[1]
           p == x[2]
           operand == Operand(ts, g, word, p)
<1>1. /\ word \in {"or", "and"} /\ p \in 1..Len(ts) /\ DOMAIN ts = 1..Len(ts) /\ Len(ts) \in Nat
      /\ Level(ts, x) = 2 * (Len(ts) - p) + (IF word = "or" THEN 1 ELSE 0)
  BY DEF IsTokens, Spots, Level
<1>2. ASSUME NEW w \in {"or", "and"}, NEW q \in DOMAIN ts, q > p \/ (q = p /\ w = "and" /\ word = "or")
      PROVE  Ahead(ts, q, g[<<w, q>>]) /\ TakesOrderly(ts, q, g[<<w, q>>])
  <2>1. <<w, q>> \in Spots(ts) /\ <<w, q>>[1] = w /\ <<w, q>>[2] = q
    BY DEF Spots
  <2> HIDE DEF word, p
  <2>2. Level(ts, <<w, q>>) < Level(ts, x)
    BY <1>1, <1>2, <2>1 DEF Level
  <2> QED BY <2>1, <2>2 DEF OrderlyBelow
<1> HIDE DEF word, p
<1>3. Ahead(ts, p, operand) /\ TakesOrderly(ts, p, operand)
  <2>1. CASE word = "or"
    <3>1. p \in DOMAIN ts
      BY <1>1
    <3> DEFINE chain == g[<<"and", p>>]
    <3>2. Ahead(ts, p, chain) /\ TakesOrderly(ts, p, chain)
      BY <1>2, <2>1, <3>1
    <3>3. operand = Whole("and", chain)
      BY <2>1 DEF Operand
    <3> HIDE DEF chain, operand
    <3>4. operand.at = chain.at
      BY <3>3, WholeAt
    <3> QED BY <3>2, <3>4 DEF Ahead, TakesOrderly
  <2>2. CASE word # "or"
    <3>1. operand = ParseNot(ts, g, p) /\ p \in DOMAIN ts
      BY <1>1, <2>2 DEF Operand
    <3> HIDE DEF operand
    <3>2. \A q \in DOMAIN ts : q > p => Ahead(ts, q, g[<<"or", q>>]) /\ TakesOrderly(ts, q, g[<<"or", q>>])
      BY <1>2
    <3> QED BY <3>1, <3>2, NotsAdvance, NotsOrderly
  <2> QED BY <2>1, <2>2
<1>4. ChainAt(ts, g, x) = ChainFrom(ts, g, word, operand)
  BY DEF ChainAt, word, p
<1> HIDE DEF operand
<1> DEFINE r == ChainFrom(ts, g, word, operand)
<1>5. CASE operand.at = 0
  BY <1>4, <1>5, Results DEF ChainFrom, TakesOrderly
<1>6. CASE operand.at # 0 /\ ~Keyword(ts, operand.at, word)
  <2>1. r.at = operand.at
    BY <1>6, Results DEF ChainFrom
  <2> HIDE DEF r
  <2>2. TakesOrderly(ts, p, r)
    BY <1>3, <2>1 DEF TakesOrderly
  <2> QED BY <1>4, <2>2 DEF p, r
<1>7. CASE operand.at # 0 /\ Keyword(ts, operand.at, word)
  <2> DEFINE m == operand.at
             rest == g[<<word, m + 1>>]
  <2>1. m \in (p + 1)..Len(ts) /\ m \in DOMAIN ts /\ m # 0
    BY <1>1, <1>3, <1>7 DEF Ahead
  <2>2. m + 1 \in DOMAIN ts
    BY <1>7, <2>1, TokenAt DEF Keyword, Match
  <2>3. Ahead(ts, m + 1, rest) /\ TakesOrderly(ts, m + 1, rest)
    <3>1. m + 1 > p
      BY <1>1, <2>1
    <3> QED BY <1>1, <1>2, <2>2, <3>1
  <2>4. r = Prepended(operand.node, rest)
    BY <1>7 DEF ChainFrom
  <2>5. r.at = rest.at
    BY <2>4, Results DEF Prepended
  <2>6. AllOrderly(ts, p, m)
    BY <1>3, <1>7 DEF TakesOrderly
  <2>7. \A q : Orderly(ts, m, q)
    <3>1. word \notin {"not", "limit", "offset"}
      BY <1>1
    <3> QED BY <1>7, <3>1, PlainKeywords
  <2> HIDE DEF m, rest, r
  <2>8. Ahead(ts, m + 1, r) /\ TakesOrderly(ts, m + 1, r)
    BY <2>3, <2>5 DEF Ahead, TakesOrderly
  <2>9. TakesOrderly(ts, m, r)
    BY <2>1, <2>7, <2>8, OrderlyBehind
  <2>10. TakesOrderly(ts, p, r)
    <3> SUFFICES ASSUME r.at # 0 PROVE AllOrderly(ts, p, r.at)
      BY DEF TakesOrderly
    <3>1. p \in Nat /\ m \in Nat /\ r.at \in Nat /\ m <= r.at /\ AllOrderly(ts, m, r.at)
      BY <1>1, <2>1, <2>8, <2>9 DEF Ahead, TakesOrderly
    <3> QED BY <2>6, <3>1, OrderlyParts
  <2> QED BY <1>4, <2>10 DEF p, r
<1> QED BY <1>5, <1>6, <1>7

LEMMA WheresOrderly ==
  ASSUME NEW ts, IsTokens(ts), NEW p \in DOMAIN ts
  PROVE  TakesOrderly(ts, p, ParseWhere(ts, p))
<1> DEFINE g == Chains(ts)
           Bad == {n \in Nat : \E x \in Spots(ts) : Level(ts, x) = n /\ ~TakesOrderly(ts, x[2], g[x])}
<1>1. \A x \in Spots(ts) : Level(ts, x) \in Nat
  BY DEF Spots, Level, IsTokens
<1>2. \A x \in Spots(ts) : g[x] = ChainAt(ts, g, x) /\ Ahead(ts, x[2], g[x])
  BY ChainsUnfold
<1> HIDE DEF g
<1>3. Bad = {}
  <2> SUFFICES ASSUME Bad # {} PROVE FALSE
    OBVIOUS
  <2>1. PICK n \in Bad : \A k \in Bad : n <= k
    <3>1. Bad \subseteq Nat
      OBVIOUS
    <3> HIDE DEF Bad
    <3> QED BY <3>1, NatMinimum
  <2>2. PICK x \in Spots(ts) : Level(ts, x) = n /\ ~TakesOrderly(ts, x[2], g[x])
    BY <2>1
  <2>3. OrderlyBelow(ts, g, Level(ts, x))
    BY <1>1, <2>1, <2>2 DEF OrderlyBelow
  <2>4. TakesOrderly(ts, x[2], ChainAt(ts, g, x))
    BY <1>2, <2>3, ChainStepsOrderly
  <2> QED BY <1>2, <2>2, <2>4
<1> DEFINE x == <<"or", p>>
<1>4. x \in Spots(ts) /\ x[2] = p
  BY DEF Spots
<1> HIDE DEF x
<1>5. TakesOrderly(ts, p, g[x])
  BY <1>1, <1>3, <1>4
<1>6. ParseWhere(ts, p).at = g[x].at
  BY WholeAt DEF ParseWhere, x, g
<1> QED BY <1>5, <1>6 DEF TakesOrderly

LEMMA OrdersOrderly ==
  ASSUME NEW ts, IsTokens(ts), NEW p \in DOMAIN ts, NEW r, r = ParseOrder(ts, p), r.at # 0
  PROVE  /\ AllOrderly(ts, p, r.at)
         /\ r.node = [field |-> r.node.field, direction |-> r.node.direction]
         /\ IsName(r.node.field) /\ r.node.direction \in {"asc", "desc"}
<1>1. p \in 1..Len(ts) /\ DOMAIN ts = 1..Len(ts) /\ Len(ts) \in Nat
  BY DEF IsTokens
<1>2. Keyword(ts, p, "by") /\ ts[p + 1].kind = "ident"
  BY Results DEF ParseOrder
<1>3. p + 1 \in DOMAIN ts
  BY <1>2, TokenAt DEF Keyword, Match
<1>4. IsName(ts[p + 1].value)
  BY <1>2, <1>3, TokenAt DEF Lexed
<1>5. \A q : Orderly(ts, p, q) /\ Orderly(ts, p + 1, q)
  BY <1>2, PlainKinds, PlainKeywords
<1>6. CASE Keyword(ts, p + 2, "asc") \/ Keyword(ts, p + 2, "desc")
  <2>1. r = Found([field |-> ts[p + 1].value, direction |-> ts[p + 2].value], p + 3)
    BY <1>2, <1>6 DEF ParseOrder
  <2>2. r.at = p + 3 /\ r.node = [field |-> ts[p + 1].value, direction |-> ts[p + 2].value]
    BY <2>1, Results
  <2>3. ts[p + 2].value \in {"asc", "desc"} /\ \A q : Orderly(ts, p + 2, q)
    BY <1>6, PlainKeywords DEF Keyword, Match
  <2>4. ASSUME NEW i \in p..r.at - 1
        PROVE  Orderly(ts, i, r.at)
    <3>1. i = p \/ i = p + 1 \/ i = p + 2
      BY <1>1, <2>2
    <3> QED BY <1>5, <2>3, <3>1
  <2> QED BY <1>4, <2>2, <2>3, <2>4 DEF AllOrderly
<1>7. CASE ~(Keyword(ts, p + 2, "asc") \/ Keyword(ts, p + 2, "desc"))
  <2>1. r = Found([field |-> ts[p + 1].value, direction |-> "asc"], p + 2)
    BY <1>2, <1>7 DEF ParseOrder
  <2>2. r.at = p + 2 /\ r.node = [field |-> ts[p + 1].value, direction |-> "asc"]
    BY <2>1, Results
  <2>3. ASSUME NEW i \in p..r.at - 1
        PROVE  Orderly(ts, i, r.at)
    <3>1. i = p \/ i = p + 1
      BY <1>1, <2>2
    <3> QED BY <1>5, <3>1
  <2> QED BY <1>4, <2>2, <2>3 DEF AllOrderly
<1> QED BY <1>6, <1>7

(* The numbers behind limit and offset are whole.                           *)
WholeNumbers(ts) ==
  \A i \in DOMAIN ts : \A w \in {"limit", "offset"} :
    Keyword(ts, i, w) /\ ts[i + 1].kind = "number" => ts[i + 1].value.v \in Nat

(* What a clause sets on a query.                                           *)
IsPart(f, v) ==
  \/ f = "where"
  \/ /\ f = "select" /\ v = [i \in 1..Len(v) |-> v[i]] /\ Len(v) \in Nat
     /\ \A i \in DOMAIN v : IsName(v[i])
  \/ /\ f = "orderBy" /\ v = [field |-> v.field, direction |-> v.direction]
     /\ IsName(v.field) /\ v.direction \in {"asc", "desc"}
  \/ f \in {"limit", "offset"} /\ v \in Nat

LEMMA NamesListed ==
  ASSUME NEW ts, IsTokens(ts), NEW p \in DOMAIN ts, NEW r, r = ParseList({"ident"}, ts, p), r.at # 0
  PROVE  IsPart("select", r.node)
<1>1. PICK n \in Nat \ {0} : IsItems({"ident"}, ts, p, n, r)
  BY ListItems
<1>2. /\ r.node = [i \in 1..n |-> ts[p + 2 * (i - 1)].value]
      /\ \A i \in 1..n : p + 2 * (i - 1) \in DOMAIN ts /\ ts[p + 2 * (i - 1)].kind = "ident"
  BY <1>1 DEF IsItems
<1>3. DOMAIN r.node = 1..n /\ Len(r.node) = n
  BY <1>2
<1>4. ASSUME NEW i \in 1..n
      PROVE  IsName(r.node[i])
  <2> DEFINE m == p + 2 * (i - 1)
  <2>1. m \in DOMAIN ts /\ ts[m].kind = "ident" /\ r.node[i] = ts[m].value
    BY <1>2
  <2> HIDE DEF m
  <2> QED BY <2>1, TokenAt DEF Lexed
<1>5. r.node = [i \in 1..n |-> r.node[i]]
  BY <1>2
<1> QED BY <1>3, <1>4, <1>5 DEF IsPart

LEMMA ClausesTake ==
  ASSUME NEW ts, IsTokens(ts), NEW p \in DOMAIN ts, NEW kind, kind = "select" => ~Keyword(ts, 1, "count"),
         NEW c, c = Clause(kind, ts, p), c.parse.at # 0
  PROVE  /\ AllOrderly(ts, p, c.parse.at)
         /\ c.field = "where" \/ kind = "select"
         /\ WholeNumbers(ts) => IsPart(c.field, c.parse.node)
<1>1. p \in 1..Len(ts) /\ DOMAIN ts = 1..Len(ts) /\ Len(ts) \in Nat
  BY DEF IsTokens
<1>2. \A w : Keyword(ts, p, w) => p + 1 \in DOMAIN ts
  BY TokenAt DEF Keyword, Match
<1>3. ASSUME NEW r, r.at # 0, p + 1 \in DOMAIN ts, Ahead(ts, p + 1, r), TakesOrderly(ts, p + 1, r),
             Orderly(ts, p, r.at)
      PROVE  AllOrderly(ts, p, r.at)
  BY <1>3, OrderlyBehind DEF TakesOrderly
<1>4. CASE Keyword(ts, p, "where") /\ c = [field |-> "where", parse |-> ParseWhere(ts, p + 1)]
  <2> DEFINE r == ParseWhere(ts, p + 1)
  <2>1. p + 1 \in DOMAIN ts
    BY <1>2, <1>4
  <2>2. Ahead(ts, p + 1, r) /\ TakesOrderly(ts, p + 1, r)
    BY <2>1, WheresAdvance, WheresOrderly
  <2>3. Orderly(ts, p, r.at)
    BY <1>4, PlainKeywords
  <2>4. c.parse = r /\ c.field = "where"
    BY <1>4
  <2> HIDE DEF r
  <2>5. AllOrderly(ts, p, r.at)
    BY <1>3, <2>1, <2>2, <2>3, <2>4
  <2> QED BY <2>4, <2>5 DEF IsPart
<1>5. CASE /\ kind = "select" /\ Keyword(ts, p, "select")
           /\ c = [field |-> "select", parse |-> ParseList({"ident"}, ts, p + 1)]
  <2> DEFINE r == ParseList({"ident"}, ts, p + 1)
  <2>1. p + 1 \in DOMAIN ts
    BY <1>2, <1>5
  <2>2. Ahead(ts, p + 1, r) /\ TakesOrderly(ts, p + 1, r)
    BY <2>1, ListsAdvance, ListsOrderly
  <2>3. Orderly(ts, p, r.at)
    BY <1>5, PlainKeywords
  <2>4. c.parse = r /\ c.field = "select"
    BY <1>5
  <2>5. IsPart("select", r.node)
    BY <2>1, <2>4, NamesListed
  <2> HIDE DEF r
  <2>6. AllOrderly(ts, p, r.at)
    BY <1>3, <2>1, <2>2, <2>3, <2>4
  <2> QED BY <1>5, <2>4, <2>5, <2>6
<1>6. CASE kind = "select" /\ Keyword(ts, p, "order") /\ c = [field |-> "orderBy", parse |-> ParseOrder(ts, p + 1)]
  <2> DEFINE r == ParseOrder(ts, p + 1)
  <2>1. p + 1 \in DOMAIN ts
    BY <1>2, <1>6
  <2>2. c.parse = r /\ c.field = "orderBy"
    BY <1>6
  <2>3. /\ AllOrderly(ts, p + 1, r.at) /\ r.node = [field |-> r.node.field, direction |-> r.node.direction]
        /\ IsName(r.node.field) /\ r.node.direction \in {"asc", "desc"}
    BY <2>1, <2>2, OrdersOrderly
  <2>4. Ahead(ts, p + 1, r) /\ TakesOrderly(ts, p + 1, r)
    BY <2>1, <2>3, OrdersAdvance DEF TakesOrderly
  <2>5. Orderly(ts, p, r.at)
    BY <1>6, PlainKeywords
  <2> HIDE DEF r
  <2>6. AllOrderly(ts, p, r.at)
    BY <1>3, <2>1, <2>2, <2>4, <2>5
  <2> QED BY <1>6, <2>2, <2>3, <2>6 DEF IsPart
<1>7. ASSUME NEW w \in {"limit", "offset"}, kind = "select", Keyword(ts, p, w),
             c = [field |-> w, parse |-> ParseNumber(ts, p + 1)]
      PROVE  /\ AllOrderly(ts, p, c.parse.at) /\ c.field = w
             /\ WholeNumbers(ts) => IsPart(c.field, c.parse.node)
  <2> DEFINE r == ParseNumber(ts, p + 1)
  <2>1. c.parse = r /\ c.field = w /\ r.at # 0
    BY <1>7
  <2>2. ts[p + 1].kind = "number" /\ r.at = p + 2 /\ r.node = ts[p + 1].value.v
    BY <1>1, <2>1, Results DEF ParseNumber
  <2> HIDE DEF r
  <2>3. \A q : Orderly(ts, p + 1, q)
    BY <2>2, PlainKinds
  <2>4. \A q : Orderly(ts, p, q)
    BY <1>7, <2>2 DEF Orderly, Keyword, Match
  <2>5. ASSUME NEW i \in p..r.at - 1
        PROVE  Orderly(ts, i, r.at)
    <3>1. i = p \/ i = p + 1
      BY <1>1, <2>2
    <3> QED BY <2>3, <2>4, <3>1
  <2>6. WholeNumbers(ts) => IsPart(w, r.node)
    BY <1>7, <2>2 DEF WholeNumbers, IsPart
  <2> QED BY <2>1, <2>5, <2>6 DEF AllOrderly
<1>8. CASE kind = "select" /\ Keyword(ts, p, "limit") /\ c = [field |-> "limit", parse |-> ParseNumber(ts, p + 1)]
  BY <1>7, <1>8
<1>9. CASE kind = "select" /\ Keyword(ts, p, "offset") /\ c = [field |-> "offset", parse |-> ParseNumber(ts, p + 1)]
  BY <1>7, <1>9
<1>10. c # [field |-> "where", parse |-> Fail]
  BY Results
<1> QED BY <1>4, <1>5, <1>6, <1>8, <1>9, <1>10, ClauseCases

LEMMA PartsOfQueries ==
  ASSUME NEW q, IsQuery(q), NEW f, NEW v, IsPart(f, v), f = "where" \/ q.kind = "select"
  PROVE  IsQuery([q EXCEPT ![f] = v]) /\ [q EXCEPT ![f] = v].kind = q.kind
<1>0. q = [Query(q.kind, q.from) EXCEPT !.join = q.join, !.select = q.select, !.where = q.where,
                                        !.orderBy = q.orderBy, !.limit = q.limit, !.offset = q.offset]
  BY DEF IsQuery
<1>1. CASE f = "where"
  <2> DEFINE r == [q EXCEPT !.where = v]
  <2>1. /\ r.kind = q.kind /\ r.from = q.from /\ r.join = q.join /\ r.select = q.select /\ r.where = v
        /\ r.orderBy = q.orderBy /\ r.limit = q.limit /\ r.offset = q.offset
        /\ r = [Query(q.kind, q.from) EXCEPT !.join = q.join, !.select = q.select, !.where = v,
                                            !.orderBy = q.orderBy, !.limit = q.limit, !.offset = q.offset]
    BY <1>0 DEF Query
  <2>2. q.kind = "aggregate" => r = [Query(q.kind, q.from) EXCEPT !.where = v]
    BY DEF IsQuery, Query
  <2> HIDE DEF r
  <2>3. IsQuery(r)
    BY <2>1, <2>2 DEF IsQuery
  <2> QED BY <1>1, <2>1, <2>3 DEF r
<1>2. CASE f = "select" /\ q.kind = "select"
  <2> DEFINE r == [q EXCEPT !.select = v]
  <2>1. /\ r.kind = q.kind /\ r.from = q.from /\ r.join = q.join /\ r.select = v /\ r.where = q.where
        /\ r.orderBy = q.orderBy /\ r.limit = q.limit /\ r.offset = q.offset
        /\ r = [Query(q.kind, q.from) EXCEPT !.join = q.join, !.select = v, !.where = q.where,
                                            !.orderBy = q.orderBy, !.limit = q.limit, !.offset = q.offset]
    BY <1>0 DEF Query
  <2> HIDE DEF r
  <2>2. IsQuery(r)
    BY <1>2, <2>1 DEF IsQuery, IsPart
  <2> QED BY <1>2, <2>1, <2>2 DEF r
<1>3. CASE f = "orderBy" /\ q.kind = "select"
  <2> DEFINE r == [q EXCEPT !.orderBy = v]
  <2>1. /\ r.kind = q.kind /\ r.from = q.from /\ r.join = q.join /\ r.select = q.select /\ r.where = q.where
        /\ r.orderBy = v /\ r.limit = q.limit /\ r.offset = q.offset
        /\ r = [Query(q.kind, q.from) EXCEPT !.join = q.join, !.select = q.select, !.where = q.where,
                                            !.orderBy = v, !.limit = q.limit, !.offset = q.offset]
    BY <1>0 DEF Query
  <2> HIDE DEF r
  <2>2. IsQuery(r)
    BY <1>3, <2>1 DEF IsQuery, IsPart
  <2> QED BY <1>3, <2>1, <2>2 DEF r
<1>4. CASE f = "limit" /\ q.kind = "select"
  <2> DEFINE r == [q EXCEPT !.limit = v]
  <2>1. /\ r.kind = q.kind /\ r.from = q.from /\ r.join = q.join /\ r.select = q.select /\ r.where = q.where
        /\ r.orderBy = q.orderBy /\ r.limit = v /\ r.offset = q.offset
        /\ r = [Query(q.kind, q.from) EXCEPT !.join = q.join, !.select = q.select, !.where = q.where,
                                            !.orderBy = q.orderBy, !.limit = v, !.offset = q.offset]
    BY <1>0 DEF Query
  <2> HIDE DEF r
  <2>2. IsQuery(r)
    BY <1>4, <2>1 DEF IsQuery, IsPart
  <2> QED BY <1>4, <2>1, <2>2 DEF r
<1>5. CASE f = "offset" /\ q.kind = "select"
  <2> DEFINE r == [q EXCEPT !.offset = v]
  <2>1. /\ r.kind = q.kind /\ r.from = q.from /\ r.join = q.join /\ r.select = q.select /\ r.where = q.where
        /\ r.orderBy = q.orderBy /\ r.limit = q.limit /\ r.offset = v
        /\ r = [Query(q.kind, q.from) EXCEPT !.join = q.join, !.select = q.select, !.where = q.where,
                                            !.orderBy = q.orderBy, !.limit = q.limit, !.offset = v]
    BY <1>0 DEF Query
  <2> HIDE DEF r
  <2>2. IsQuery(r)
    BY <1>5, <2>1 DEF IsQuery, IsPart
  <2> QED BY <1>5, <2>1, <2>2 DEF r
<1> QED BY <1>1, <1>2, <1>3, <1>4, <1>5 DEF IsPart

(* What the clauses from p on are read as.                                  *)
TakesClauses(ts, q, p) ==
  LET r == ParseClauses(ts, q, p)
  IN  r.at # 0 => /\ r.at = Len(ts) /\ AllOrderly(ts, p, Len(ts))
                  /\ WholeNumbers(ts) => IsQuery(r.node) /\ r.node.kind = q.kind

LEMMA ClausesTaken ==
  ASSUME NEW ts, IsTokens(ts), NEW q, IsQuery(q), q.kind = "select" => ~Keyword(ts, 1, "count")
  PROVE  \A p \in DOMAIN ts : TakesClauses(ts, q, p)
<1> DEFINE n == Len(ts)
           P == {p \in 1..n : \A m \in p..n : TakesClauses(ts, q, m)}
<1>1. n \in Nat \ {0} /\ DOMAIN ts = 1..n /\ ts[n].kind = "eof"
  BY DEF IsTokens
<1>2. TakesClauses(ts, q, n)
  <2>1. ParseClauses(ts, q, n) = Found(q, n)
    BY <1>1, ClausesEnd
  <2>2. AllOrderly(ts, n, n)
    BY <1>1, NoTokens
  <2> QED BY <2>1, <2>2, Results DEF TakesClauses
<1>3. ASSUME NEW p \in 1..n - 1, \A m \in (p + 1)..n : TakesClauses(ts, q, m)
      PROVE  TakesClauses(ts, q, p)
  <2> DEFINE r == ParseClauses(ts, q, p)
             c == Clause(q.kind, ts, p)
             m == c.parse.at
             rest == ParseClauses(ts, q, m)
  <2> SUFFICES ASSUME r.at # 0
               PROVE  /\ r.at = n /\ AllOrderly(ts, p, n)
                      /\ WholeNumbers(ts) => IsQuery(r.node) /\ r.node.kind = q.kind
    BY DEF TakesClauses
  <2>1. p \in DOMAIN ts /\ ts[p].kind # "eof" /\ p \in Nat
    <3> HIDE DEF n
    <3>1. p \in 1..n /\ p # n
      BY <1>1
    <3> QED BY <1>1, <3>1, TokenAt
  <2>2. r = IF m = 0 THEN Fail ELSE SetBefore(q, c, rest)
    BY <2>1, ClausesStep
  <2>3. Ahead(ts, p, c.parse)
    BY <2>1, ClausesAdvance
  <2>4. m # 0 => /\ AllOrderly(ts, p, m) /\ (c.field = "where" \/ q.kind = "select")
                 /\ WholeNumbers(ts) => IsPart(c.field, c.parse.node)
    BY <2>1, ClausesTake
  <2> HIDE DEF c, r
  <2>5. m # 0 /\ m \in (p + 1)..n /\ r = SetBefore(q, c, rest)
    BY <2>2, <2>3, Results DEF Ahead
  <2>6. TakesClauses(ts, q, m)
    BY <1>3, <2>5
  <2> DEFINE s == [rest.node EXCEPT ![c.field] = c.parse.node]
  <2> HIDE DEF n, m
  <2>7. rest.at # 0 /\ r.at = rest.at /\ (r.node = rest.node \/ r.node = s)
    BY <2>5, Results DEF SetBefore
  <2>8. /\ rest.at = n /\ AllOrderly(ts, m, n)
        /\ WholeNumbers(ts) => IsQuery(rest.node) /\ rest.node.kind = q.kind
    BY <2>6, <2>7 DEF TakesClauses, n
  <2> HIDE DEF rest
  <2>9. AllOrderly(ts, p, n)
    <3>1. p \in Nat /\ m \in Nat /\ n \in Nat /\ m <= n /\ AllOrderly(ts, p, m)
      BY <1>1, <2>1, <2>4, <2>5
    <3> QED BY <2>8, <3>1, OrderlyParts
  <2>10. ASSUME WholeNumbers(ts)
         PROVE  IsQuery(s) /\ s.kind = q.kind
    <3> DEFINE f == c.field
               v == c.parse.node
               node == rest.node
    <3>1. IsPart(f, v) /\ (f = "where" \/ node.kind = "select") /\ IsQuery(node) /\ node.kind = q.kind
      BY <2>4, <2>5, <2>8, <2>10
    <3>2. s = [node EXCEPT ![f] = v]
      OBVIOUS
    <3> HIDE DEF f, v, node, s
    <3> QED BY <3>1, <3>2, PartsOfQueries
  <2> QED BY <2>7, <2>8, <2>9, <2>10
<1> HIDE DEF n
<1>4. n \in P
  BY <1>1, <1>2
<1>5. ASSUME NEW p \in 1..n - 1, p + 1 \in P
      PROVE  p \in P
  <2>1. p \in 1..n /\ \A m \in p..n : m = p \/ m \in (p + 1)..n
    BY <1>1
  <2> QED BY <1>3, <1>5, <2>1
<1>6. 1..n \subseteq P
  <2> HIDE DEF P
  <2> QED BY <1>1, <1>4, <1>5, DownInduction
<1> QED BY <1>1, <1>6

LEMMA QualifiedFields ==
  ASSUME NEW f, IsName(f)
  PROVE  IsQualified(Qualified(f))
<1>1. f \in Seq(Parts) \ {<<>>}
  <2>1. Name(f) \in Lexeme /\ Name(f).lex = "word" /\ Name(f).text = f
    BY DEF IsName, Name
  <2> QED BY <2>1, LexemesByKind
<1>2. CASE Len(f) > 1
  <2>1. f[1] \in Parts /\ Tail(f) \in Seq(Parts) /\ Len(Tail(f)) = Len(f) - 1 /\ Len(f) \in Nat
    BY <1>1, <1>2
  <2>2. <<f[1]>> \in Seq(Parts) /\ Len(<<f[1]>>) = 1
    BY <2>1, ShortTexts
  <2>3. Tail(f) # <<>>
    <3>1. Len(Tail(f)) # Len(<<>>)
      BY <1>2, <2>1
    <3> QED BY <3>1, Zenon
  <2> QED BY <1>2, <2>1, <2>2, <2>3 DEF Qualified, IsQualified
<1>3. CASE ~(Len(f) > 1)
  <2>1. Len(f) \in Nat \ {0}
    BY <1>1
  <2>2. Len(f) = 1
    <3>1. \A n \in Nat \ {0} : ~(n > 1) => n = 1
      OBVIOUS
    <3> QED BY <1>3, <2>1, <3>1
  <2> QED BY <1>1, <1>3, <2>2 DEF Qualified, IsQualified
<1> QED BY <1>2, <1>3

LEMMA EmptyQueries ==
  ASSUME NEW kind \in {"select", "aggregate"}, NEW f, IsName(f)
  PROVE  IsQuery(Query(kind, f)) /\ Query(kind, f).kind = kind
<1> DEFINE q == Query(kind, f)
<1>1. /\ q.kind = kind /\ q.from = f /\ q.join = NoJoin /\ q.select = <<>> /\ q.where = NoWhere
      /\ q.orderBy = NoOrder /\ q.limit = Unset /\ q.offset = Unset
  BY DEF Query
<1>2. /\ q = [q EXCEPT !.join = NoJoin, !.select = <<>>, !.where = NoWhere, !.orderBy = NoOrder, !.limit = Unset, !.offset = Unset]
      /\ q = [q EXCEPT !.where = NoWhere]
  <2>1. q = [g \in DOMAIN q |-> q[g]]
    BY DEF Query
  <2> HIDE DEF q
  <2> QED BY <1>1, <2>1
<1>5. q = Query(kind, f)
  OBVIOUS
<1> HIDE DEF q
<1>3. /\ <<>> = [i \in 1..Len(<<>>) |-> <<>>[i]] /\ Len(<<>>) \in Nat
      /\ \A i \in DOMAIN <<>> : IsName(<<>>[i])
  OBVIOUS
<1>4. IsQuery(q)
  BY <1>1, <1>2, <1>3, <1>5 DEF IsQuery
<1> QED BY <1>1, <1>4 DEF q

LEMMA JoinedQueries ==
  ASSUME NEW q, IsQuery(q), q.kind = "select", NEW j, j = [schema |-> j.schema, left |-> j.left, right |-> j.right],
         IsName(j.schema), IsQualified(j.left), IsQualified(j.right)
  PROVE  IsQuery([q EXCEPT !.join = j]) /\ [q EXCEPT !.join = j].kind = "select"
<1>0. q = [Query(q.kind, q.from) EXCEPT !.join = q.join, !.select = q.select, !.where = q.where,
                                        !.orderBy = q.orderBy, !.limit = q.limit, !.offset = q.offset]
  BY DEF IsQuery
<1> DEFINE r == [q EXCEPT !.join = j]
<1>1. /\ r.kind = q.kind /\ r.from = q.from /\ r.join = j /\ r.select = q.select /\ r.where = q.where
      /\ r.orderBy = q.orderBy /\ r.limit = q.limit /\ r.offset = q.offset
      /\ r = [Query(q.kind, q.from) EXCEPT !.join = j, !.select = q.select, !.where = q.where,
                                          !.orderBy = q.orderBy, !.limit = q.limit, !.offset = q.offset]
  BY <1>0 DEF Query
<1> HIDE DEF r
<1>2. IsQuery(r)
  BY <1>1 DEF IsQuery
<1> QED BY <1>1, <1>2 DEF r

LEMMA JoinsTaken ==
  ASSUME NEW ts, IsTokens(ts), NEW p \in DOMAIN ts, NEW r, r = ParseJoin(ts, p), r.at # 0
  PROVE  /\ r.at \in DOMAIN ts /\ r.at \in Nat /\ p <= r.at /\ AllOrderly(ts, p, r.at)
         /\ r.node = [schema |-> r.node.schema, left |-> r.node.left, right |-> r.node.right]
         /\ IsName(r.node.schema) /\ IsQualified(r.node.left) /\ IsQualified(r.node.right)
<1>1. p \in 1..Len(ts) /\ DOMAIN ts = 1..Len(ts) /\ Len(ts) \in Nat
  BY DEF IsTokens
<1>2. /\ ts[p].kind = "ident" /\ Keyword(ts, p + 1, "on") /\ ts[p + 2].kind = "ident"
      /\ Match(ts, p + 3, "op", "=") /\ ts[p + 4].kind = "ident"
      /\ r = Found([schema |-> ts[p].value, left |-> Qualified(ts[p + 2].value),
                    right |-> Qualified(ts[p + 4].value)], p + 5)
  BY Results DEF ParseJoin
<1>3. /\ r.at = p + 5
      /\ r.node = [schema |-> ts[p].value, left |-> Qualified(ts[p + 2].value), right |-> Qualified(ts[p + 4].value)]
  BY <1>2, Results
<1>4. /\ p + 1 + 1 = p + 2 /\ p + 2 + 1 = p + 3 /\ p + 3 + 1 = p + 4 /\ p + 4 + 1 = p + 5
  BY <1>1
<1>5. p + 1 \in DOMAIN ts
  BY <1>2, TokenAt
<1>6. p + 2 \in DOMAIN ts
  BY <1>2, <1>4, <1>5, TokenAt DEF Keyword, Match
<1>7. p + 3 \in DOMAIN ts
  BY <1>2, <1>4, <1>6, TokenAt
<1>8. p + 4 \in DOMAIN ts
  BY <1>2, <1>4, <1>7, TokenAt DEF Match
<1>9. p + 5 \in DOMAIN ts
  BY <1>2, <1>4, <1>8, TokenAt
<1>10. \A i \in DOMAIN ts : ts[i].kind = "ident" => IsName(ts[i].value)
  BY TokenAt DEF Lexed
<1>11. IsName(ts[p].value) /\ IsName(ts[p + 2].value) /\ IsName(ts[p + 4].value)
  BY <1>2, <1>6, <1>8, <1>10
<1>12. IsName(r.node.schema) /\ IsQualified(r.node.left) /\ IsQualified(r.node.right)
  BY <1>3, <1>11, QualifiedFields
<1>13. \A q : /\ Orderly(ts, p, q) /\ Orderly(ts, p + 1, q) /\ Orderly(ts, p + 2, q)
              /\ Orderly(ts, p + 3, q) /\ Orderly(ts, p + 4, q)
  BY <1>2, PlainKinds, PlainKeywords DEF Match
<1>14. ASSUME NEW i \in p..r.at - 1
       PROVE  Orderly(ts, i, r.at)
  <2>1. i = p \/ i = p + 1 \/ i = p + 2 \/ i = p + 3 \/ i = p + 4
    BY <1>1, <1>3
  <2> QED BY <1>13, <2>1
<1>15. r.at \in DOMAIN ts /\ r.at \in Nat /\ p <= r.at
  BY <1>1, <1>3, <1>9
<1> QED BY <1>3, <1>12, <1>14, <1>15 DEF AllOrderly

LEMMA OpeningsTaken ==
  ASSUME NEW ts, IsTokens(ts), NEW o, o = Opening(ts), o.at # 0
  PROVE  /\ o.at \in DOMAIN ts /\ AllOrderly(ts, 1, o.at) /\ Len(ts) > 2
         /\ IsQuery(o.node) /\ (o.node.kind = "select" => ~Keyword(ts, 1, "count"))
<1>1. DOMAIN ts = 1..Len(ts) /\ Len(ts) \in Nat \ {0} /\ 1 \in DOMAIN ts
  BY DEF IsTokens
<1>2. (Keyword(ts, 1, "from") \/ Keyword(ts, 1, "count")) /\ ts[2].kind = "ident"
  BY Results DEF Opening
<1>3. 2 \in DOMAIN ts
  <2>1. 1 + 1 \in DOMAIN ts
    BY <1>1, <1>2, TokenAt DEF Keyword, Match
  <2> QED BY <2>1
<1>4. 3 \in DOMAIN ts /\ Len(ts) > 2
  <2>1. 2 + 1 \in DOMAIN ts
    BY <1>2, <1>3, TokenAt
  <2> QED BY <1>1, <2>1
<1>5. IsName(ts[2].value)
  BY <1>2, <1>3, TokenAt DEF Lexed
<1>6. \A q : Orderly(ts, 1, q) /\ Orderly(ts, 2, q)
  BY <1>2, PlainKinds, PlainKeywords
<1>7. AllOrderly(ts, 1, 3)
  <2>1. \A i \in 1..3 - 1 : i = 1 \/ i = 2
    OBVIOUS
  <2> QED BY <1>6, <2>1 DEF AllOrderly
<1> DEFINE f == ts[2].value
<1>8. CASE Keyword(ts, 1, "count")
  <2>1. o = Found(Query("aggregate", f), 3)
    BY <1>2, <1>8 DEF Opening
  <2>2. o.node = Query("aggregate", f) /\ o.at = 3
    BY <2>1, Results
  <2> HIDE DEF f
  <2>3. IsQuery(o.node) /\ o.node.kind = "aggregate"
    BY <1>5, <2>2, EmptyQueries DEF f
  <2> QED BY <1>4, <1>7, <2>2, <2>3
<1>9. CASE ~Keyword(ts, 1, "count") /\ ~Keyword(ts, 3, "join")
  <2>1. o = Found(Query("select", f), 3)
    BY <1>2, <1>9 DEF Opening
  <2>2. o.node = Query("select", f) /\ o.at = 3
    BY <2>1, Results
  <2> HIDE DEF f
  <2>3. IsQuery(o.node)
    BY <1>5, <2>2, EmptyQueries DEF f
  <2> QED BY <1>4, <1>7, <1>9, <2>2, <2>3
<1>10. CASE ~Keyword(ts, 1, "count") /\ Keyword(ts, 3, "join")
  <2> DEFINE q == Query("select", f)
             r == ParseJoin(ts, 4)
             j == r.node
  <2>1. o = Joining(q, r)
    BY <1>2, <1>10 DEF Opening
  <2>2. IsQuery(q) /\ q.kind = "select"
    <3> HIDE DEF f
    <3> QED BY <1>5, EmptyQueries DEF f
  <2>3. 4 \in DOMAIN ts
    <3>1. 3 + 1 \in DOMAIN ts
      BY <1>4, <1>10, TokenAt DEF Keyword, Match
    <3> QED BY <3>1
  <2> HIDE DEF q
  <2>4. r.at # 0 /\ o.at = r.at /\ o.node = [q EXCEPT !.join = j]
    BY <2>1, Results DEF Joining
  <2>5. /\ r.at \in DOMAIN ts /\ r.at \in Nat /\ 4 <= r.at /\ AllOrderly(ts, 4, r.at)
        /\ j = [schema |-> j.schema, left |-> j.left, right |-> j.right]
        /\ IsName(j.schema) /\ IsQualified(j.left) /\ IsQualified(j.right)
    BY <2>3, <2>4, JoinsTaken
  <2> HIDE DEF j
  <2>6. IsQuery(o.node) /\ o.node.kind = "select"
    BY <2>2, <2>4, <2>5, JoinedQueries
  <2> HIDE DEF r
  <2>7. \A m : Orderly(ts, 3, m)
    BY <1>10, PlainKeywords
  <2>8. AllOrderly(ts, 3, r.at)
    <3>1. 4 = 3 + 1
      OBVIOUS
    <3> QED BY <2>5, <2>7, <3>1, OrderlyToken, OrderlyParts DEF AllOrderly
  <2>9. AllOrderly(ts, 1, r.at)
    <3>1. 3 <= r.at
      BY <2>5
    <3> QED BY <1>7, <2>5, <2>8, <3>1, OrderlyParts
  <2> QED BY <1>4, <1>10, <2>4, <2>5, <2>6, <2>9
<1> QED BY <1>8, <1>9, <1>10

LEMMA QueriesTaken ==
  ASSUME NEW t \in Seq(Lexeme), NEW ts, ts = Tokenize(t), NEW r, r = ParseQuery(t), r.at # 0
  PROVE  /\ Len(t) > 1 /\ AllOrderly(ts, 1, Len(t) + 1)
         /\ WholeNumbers(ts) => IsQuery(r.node)
<1> DEFINE o == Opening(ts)
<1>1. IsTokens(ts) /\ Len(ts) = Len(t) + 1 /\ Len(t) \in Nat
  BY TextTokens
<1>2. r = ParseOpened(ts, o)
  BY DEF ParseQuery, ParseTokens
<1> HIDE DEF o
<1>3. o.at # 0 /\ r = ParseClauses(ts, o.node, o.at)
  BY <1>2, Results DEF ParseOpened
<1>4. /\ o.at \in DOMAIN ts /\ AllOrderly(ts, 1, o.at) /\ Len(ts) > 2
      /\ IsQuery(o.node) /\ (o.node.kind = "select" => ~Keyword(ts, 1, "count"))
  BY <1>1, <1>3, OpeningsTaken DEF o
<1>5. TakesClauses(ts, o.node, o.at)
  BY <1>1, <1>4, ClausesTaken
<1>6. r.at = Len(ts) /\ AllOrderly(ts, o.at, Len(ts)) /\ (WholeNumbers(ts) => IsQuery(r.node))
  BY <1>3, <1>5 DEF TakesClauses
<1>7. o.at \in Nat /\ o.at <= Len(ts) /\ Len(ts) \in Nat
  BY <1>1, <1>4 DEF IsTokens
<1>8. AllOrderly(ts, 1, Len(ts))
  BY <1>4, <1>6, <1>7, OrderlyParts
<1>9. Len(t) > 1
  BY <1>1, <1>4
<1> QED BY <1>1, <1>6, <1>8, <1>9

(* What the tokens of a text say of its lexemes.                            *)
LEMMA LexemesOfTokens ==
  ASSUME NEW t \in Seq(Lexeme), NEW i \in 1..Len(t)
  PROVE  /\ i \in DOMAIN Tokenize(t) /\ i + 1 \in DOMAIN Tokenize(t)
         /\ t[i] \in Lexeme /\ Tokenize(t)[i] = Token(t[i]) /\ Lexed(t[i], Tokenize(t)[i])
<1>1. IsTokens(Tokenize(t)) /\ Len(Tokenize(t)) = Len(t) + 1 /\ Tokenize(t)[i] = Token(t[i]) /\ Len(t) \in Nat
  BY TextTokens
<1>2. i \in DOMAIN Tokenize(t) /\ i + 1 \in DOMAIN Tokenize(t)
  BY <1>1 DEF IsTokens
<1>3. t[i] \in Lexeme
  OBVIOUS
<1> QED BY <1>1, <1>2, <1>3, TokensOfLexemes

(* What parseQuery answers is a query, whatever the text.                   *)
LEMMA ParserAnswersQueries ==
  ASSUME NEW t, IsText(t), ParseQuery(t).at # 0
  PROVE  IsQuery(ParseQuery(t).node)
<1> DEFINE ts == Tokenize(t)
<1>1. t \in Seq(Lexeme) /\ Len(t) \in Nat
  BY DEF IsText
<1>2. IsTokens(ts) /\ DOMAIN ts = 1..Len(t) + 1 /\ Len(ts) = Len(t) + 1
  BY <1>1, TextTokens DEF IsTokens
<1>3. ASSUME NEW i \in DOMAIN ts, NEW w \in {"limit", "offset"}, Keyword(ts, i, w), ts[i + 1].kind = "number"
      PROVE  ts[i + 1].value.v \in Nat
  <2>1. w \in Keywords /\ Word(w) \in {Word("limit"), Word("offset")}
    BY DEF Keywords
  <2>2. ts[i].kind # "eof" /\ ts[i].kind = "keyword" /\ ts[i].value = w
    BY <1>3 DEF Keyword, Match
  <2>3. i + 1 \in DOMAIN ts
    BY <1>2, <2>2, TokenAt
  <2>4. i + 1 # Len(t) + 1
    BY <1>2, <1>3, <2>3, TokenAt
  <2>5. i \in 1..Len(t) - 1 /\ i \in 1..Len(t) /\ i + 1 \in 1..Len(t)
    BY <1>1, <1>2, <2>3, <2>4
  <2>6. t[i] = Word(w)
    BY <1>1, <2>2, <2>5, LexemesOfTokens DEF Lexed
  <2>7. t[i + 1].lex = "digits" /\ ts[i + 1].value = Number(t[i + 1].text)
    BY <1>1, <1>3, <2>5, LexemesOfTokens DEF Lexed
  <2>8. t[i + 1].text \in Nat
    BY <2>1, <2>5, <2>6, <2>7 DEF IsText
  <2> QED BY <2>7, <2>8 DEF Number
<1> HIDE DEF ts
<1>4. WholeNumbers(ts)
  BY <1>3 DEF WholeNumbers
<1> QED BY <1>1, <1>4, QueriesTaken DEF ts

(* parseQuery refuses a text no query has.                                  *)
THEOREM UnreadableTextsRefused ==
  ASSUME NEW t \in Seq(Lexeme), Unreadable(t)
  PROVE  ParseQuery(t).at = 0
<1> DEFINE ts == Tokenize(t)
           n == Len(t) + 1
<1> SUFFICES ASSUME ParseQuery(t).at # 0 PROVE FALSE
  OBVIOUS
<1>1. Len(t) > 1 /\ AllOrderly(ts, 1, n)
  BY QueriesTaken
<1>2. Len(t) \in Nat /\ n - 1 = Len(t)
  OBVIOUS
<1>3. \A i \in 1..Len(t) : Orderly(ts, i, n)
  BY <1>1, <1>2 DEF AllOrderly
<1>4. \A i \in 1..Len(t) : ts[i] = Token(t[i]) /\ Lexed(t[i], ts[i])
  BY LexemesOfTokens
<1>5. ts[n].kind = "eof"
  BY TextTokens DEF IsTokens
<1> HIDE DEF ts
<1>6. ASSUME NEW i \in 1..Len(t), NEW w \in Keywords, t[i] = Word(w)
      PROVE  Keyword(ts, i, w)
  BY <1>4, <1>6, LexemesToTokens DEF Keyword, Match
<1>7. {"not", "limit", "offset", "count"} \subseteq Keywords
  BY DEF Keywords
<1>8. ASSUME NEW i \in 1..Len(t) - 1, t[i] = Word("not"), t[i + 1] = Word("not")
      PROVE  FALSE
  <2>1. i \in 1..Len(t) /\ i + 1 \in 1..Len(t)
    BY <1>2
  <2>2. Keyword(ts, i, "not") /\ Keyword(ts, i + 1, "not")
    BY <1>6, <1>7, <1>8, <2>1
  <2> QED BY <1>3, <2>1, <2>2 DEF Orderly
<1>9. ASSUME NEW i \in DOMAIN t, t[i] \in {Word("limit"), Word("offset")},
             i = Len(t) \/ t[i + 1].lex # "digits" \/ t[1] = Word("count")
      PROVE  FALSE
  <2>1. i \in 1..Len(t) /\ 1 \in 1..Len(t)
    BY <1>1, <1>2
  <2>2. PICK w \in {"limit", "offset"} : Keyword(ts, i, w)
    BY <1>6, <1>7, <1>9, <2>1
  <2>3. ts[i + 1].kind = "number" /\ ~Keyword(ts, 1, "count")
    BY <1>3, <2>1, <2>2 DEF Orderly
  <2>4. t[1] # Word("count")
    BY <1>6, <1>7, <2>1, <2>3
  <2>5. i # Len(t)
    BY <1>5, <2>3
  <2>6. i + 1 \in 1..Len(t)
    BY <1>2, <2>1, <2>5
  <2>7. t[i + 1].lex = "digits"
    BY <1>4, <2>3, <2>6 DEF Lexed
  <2> QED BY <1>9, <2>4, <2>5, <2>7
<1>10. ASSUME NEW i \in DOMAIN t, t[i] = Symbol("("), \A k \in i..Len(t) : t[k] # Symbol(")")
       PROVE  FALSE
  <2>1. i \in 1..Len(t)
    OBVIOUS
  <2>2. ts[i].kind = "lparen"
    BY <1>4, <1>10, <2>1, LexemesToTokens
  <2>3. PICK k \in i..n - 1 : ts[k].kind = "rparen"
    BY <1>3, <2>1, <2>2 DEF Orderly
  <2>4. k \in 1..Len(t) /\ k \in i..Len(t)
    BY <1>2, <2>1
  <2>5. t[k] = Symbol(")")
    BY <1>4, <2>3, <2>4 DEF Lexed
  <2> QED BY <1>10, <2>4, <2>5
<1> QED BY <1>1, <1>2, <1>8, <1>9, <1>10 DEF Unreadable

-----------------------------------------------------------------------------
(* The legacy form.                                                         *)

LEMMA FlattensUnfolds ==
  \A x \in Clauses : Flattens(x) <=>
           \/ x.type \in {"none", "condition"}
           \/ x.type = "and" /\ \A y \in Children(x) : Flattens(y)
<1> DEFINE Step(g, x) ==
             \/ x.type \in {"none", "condition"}
             \/ x.type = "and" /\ \A y \in Children(x) : g[y]
           F == [g \in [Clauses -> BOOLEAN] |-> [x \in Clauses |-> Step(g, x)]]
           flat == CHOOSE f : f = [x \in Clauses |-> Step(f, x)]
<1>1. \A x \in Clauses : \A y \in Children(x) : y \in Clauses
  BY ClauseAssumption
<1>2. F \in [[Clauses -> BOOLEAN] -> [Clauses -> BOOLEAN]]
  OBVIOUS
<1>3. ASSUME NEW g \in [Clauses -> BOOLEAN], NEW h \in [Clauses -> BOOLEAN], NEW x \in Clauses,
             \A y \in Children(x) : g[y] = h[y]
      PROVE  F[g][x] = F[h][x]
  <2>1. Step(g, x) = Step(h, x)
    BY <1>1, <1>3
  <2>2. F[g][x] = Step(g, x) /\ F[h][x] = Step(h, x)
    OBVIOUS
  <2> HIDE DEF F, Step
  <2> QED BY <2>1, <2>2
<1>4. \E f \in [Clauses -> BOOLEAN] : f = F[f]
  <2> HIDE DEF F
  <2> QED BY <1>2, <1>3, RecursiveFunctionExists
<1>5. \E f : f = [x \in Clauses |-> Step(f, x)]
  BY <1>4
<1>6. flat = [x \in Clauses |-> Step(flat, x)]
  <2> HIDE DEF Step
  <2> QED BY <1>5
<1>7. \A x : Flattens(x) = flat[x]
  BY DEF Flattens
<1>8. \A x \in Clauses : flat[x] = Step(flat, x)
  <2> HIDE DEF Step, flat
  <2> QED BY <1>6
<1> QED
  <2> HIDE DEF flat
  <2> QED BY <1>1, <1>7, <1>8

(* A clause flattened to its conditions holds of the rows of which they all *)
(* hold (flattenWhere against evaluateWhere).                               *)
THEOREM FlatClauses ==
  ASSUME NEW d
  PROVE  \A e \in Clauses :
           Flattens(e) => (EvaluateWhere(e, d) <=> \A c \in Conditions(e) : EvaluateCondition(c, d))
<1> DEFINE P == {e \in Clauses :
                   Flattens(e) => (EvaluateWhere(e, d) <=> \A c \in Conditions(e) : EvaluateCondition(c, d))}
<1>1. ASSUME NEW e \in Clauses, Children(e) \subseteq P, Flattens(e)
      PROVE  EvaluateWhere(e, d) <=> \A c \in Conditions(e) : EvaluateCondition(c, d)
  <2>1. CASE e.type = "none"
    <3>1. Conditions(e) = {}
      BY <2>1, ConditionsUnfold DEF Children
    <3> QED BY <2>1, <3>1, EvaluateWhereUnfolds
  <2>2. CASE e.type = "condition"
    BY <2>2, PartsOfClauses, EvaluateWhereUnfolds
  <2>3. CASE e.type = "and"
    <3>1. \A x \in Children(e) : EvaluateWhere(x, d) <=> \A c \in Conditions(x) : EvaluateCondition(c, d)
      BY <1>1, <2>3, FlattensUnfolds
    <3>2. Conditions(e) = UNION {Conditions(x) : x \in Children(e)}
      BY <2>3, ConditionsUnfold
    <3>3. EvaluateWhere(e, d) <=> \A x \in Children(e) : EvaluateWhere(x, d)
      BY <2>3, EvaluateWhereUnfolds
    <3> QED BY <3>1, <3>2, <3>3
  <2> QED BY <1>1, <2>1, <2>2, <2>3, FlattensUnfolds
<1>2. Clauses \subseteq P
  <2>1. \A e \in Clauses : Children(e) \subseteq P => e \in P
    BY <1>1
  <2> HIDE DEF P
  <2> QED BY <2>1, ClauseInduction
<1> QED BY <1>2

LEMMA LegacySaysTheSame ==
  ASSUME NEW q, IsQuery(q), q.where \in Clauses
  PROVE  SaysTheSame(q, LegacyQuery(q))
<1> DEFINE flat == [q EXCEPT !.where = Conditions(q.where)]
<1> SUFFICES ASSUME LegacyQuery(q).at # 0, NEW i \in DOMAIN Rows(q.from)
             PROVE  EvaluateWhere(q.where, Rows(q.from)[i])
                      = \A c \in LegacyQuery(q).node.where : EvaluateCondition(c, Rows(q.from)[i])
  BY DEF SaysTheSame
<1>1. Flattens(q.where) /\ LegacyQuery(q) = Found(flat, 1)
  BY Results DEF LegacyQuery
<1>2. flat.where = Conditions(q.where)
  BY DEF IsQuery, Query
<1> HIDE DEF flat
<1>3. LegacyQuery(q).node.where = Conditions(q.where)
  BY <1>1, <1>2, Results
<1>4. EvaluateWhere(q.where, Rows(q.from)[i]) \in BOOLEAN
  BY EvaluateWhereUnfolds
<1> QED BY <1>1, <1>3, <1>4, FlatClauses

-----------------------------------------------------------------------------
(* Answers.                                                                *)

(* An answer is what the parsed text is executed to.                        *)
IsExecuted ==
  /\ engine \in Engines
  /\ \/ answer = Refused
     \/ /\ text \in Texts
        /\ parsed = ParseQuery(text) /\ parsed.at # 0
        /\ answer = ExecutePlan(engine, parsed.node)

LEMMA AnswersAreExecuted == Spec => []IsExecuted
<1>1. Init => IsExecuted
  BY DEF Init, IsExecuted
<1>2. IsExecuted /\ [Next]_vars => IsExecuted'
  <2> SUFFICES ASSUME IsExecuted, [Next]_vars PROVE IsExecuted'
    OBVIOUS
  <2>1. CASE UNCHANGED vars
    BY <2>1 DEF IsExecuted, vars
  <2>2. ASSUME NEW t \in Texts, ExecuteQuery(t) PROVE IsExecuted'
    BY <2>2 DEF IsExecuted, ExecuteQuery, PossibleAnswers
  <2> QED BY <2>1, <2>2 DEF Next
<1> QED BY <1>1, <1>2, PTL DEF Spec

LEMMA AnsweredQueries ==
  IsExecuted /\ Answered => IsQuery(Asked) /\ Asked.where \in Clauses /\ answer = ExecutePlan(engine, Asked)
BY TextAssumption, ParserAnswersQueries DEF IsExecuted, Answered, Asked, Refused

LEMMA QueriesArePageable ==
  ASSUME NEW q, IsQuery(q)
  PROVE  Pageable(q)
BY DEF IsQuery, Pageable

(* A scan lists no row its clause rejects.                                  *)
LEMMA ScanRows ==
  ASSUME NEW e \in Engines, NEW q, Pageable(q)
  PROVE  \A k \in DOMAIN ScanStep(e, q) :
           \E i \in Matches(q) : ScanStep(e, q)[k] = Project(Rows(q.from)[i], q.select)
<1> DEFINE page == SqlScan(e, q)
           I == {k \in DOMAIN page : EvaluateWhere(q.where, page[k])}
           kept == Kept(page, I)
<1>1. IsList(page) /\ \A k \in DOMAIN page : \E i \in SqlMatches(e, "scan", q) : page[k] = Rows(q.from)[i]
  BY SqlScanRows
<1>2. \A k \in DOMAIN kept : \E i \in I : kept[k] = page[i]
  <2>1. I \in SUBSET DOMAIN page
    OBVIOUS
  <2> HIDE DEF page, I
  <2> QED BY <1>1, <2>1, KeptRows
<1>3. ScanStep(e, q) = Projected(kept, q.select)
  BY DEF ScanStep, PostFilter
<1> HIDE DEF kept
<1>4. /\ DOMAIN ScanStep(e, q) = DOMAIN kept
      /\ \A k \in DOMAIN kept : ScanStep(e, q)[k] = Project(kept[k], q.select)
  BY <1>3 DEF Projected
<1>5. \A i \in I : \E m \in Matches(q) : page[i] = Rows(q.from)[m]
  BY <1>1 DEF Matches, SqlMatches
<1> QED BY <1>2, <1>4, <1>5

(* Where the clause goes to SQL whole, fits and is plain, SQL finds the     *)
(* matches.                                                                 *)
LEMMA SqlFindsTheMatches ==
  ASSUME NEW q, q.where \in Clauses, CanPushdownWhere(q.where), Typed("scan", q), AllPlain(q)
  PROVE  SqlMatches(engine, "scan", q) = Matches(q)
<1>1. ASSUME NEW i \in DOMAIN Rows(q.from)
      PROVE  SqlWhere(engine, "scan", q.where, Rows(q.from)[i]) <=> EvaluateWhere(q.where, Rows(q.from)[i])
  <2>1. FitsRow(engine, "scan", q.where, Rows(q.from)[i]) /\ PlainOn(q.where, Rows(q.from)[i])
    BY DEF FitsRow, PlainOn, Typed, AllPlain
  <2> QED BY <2>1, PushedDownAgrees
<1> QED BY <1>1 DEF SqlMatches, Matches

(* Where the clause loses no alternative, fits and is plain, SQL finds all  *)
(* matches.                                                                 *)
LEMMA SqlMissesNoMatch ==
  ASSUME NEW q, q.where \in Clauses, KeepsAlternatives(q.where), Typed("scan", q), AllPlain(q)
  PROVE  Matches(q) \subseteq SqlMatches(engine, "scan", q)
<1>1. ASSUME NEW i \in DOMAIN Rows(q.from), EvaluateWhere(q.where, Rows(q.from)[i])
      PROVE  SqlWhere(engine, "scan", q.where, Rows(q.from)[i])
  <2>1. FitsRow(engine, "scan", q.where, Rows(q.from)[i]) /\ PlainOn(q.where, Rows(q.from)[i])
    BY DEF FitsRow, PlainOn, Typed, AllPlain
  <2> QED BY <1>1, <2>1, AlternativesKept
<1> QED BY <1>1 DEF SqlMatches, Matches

(* A listing answers no row its where clause rejects, and, where the clause *)
(* is plain and goes to SQL whole, or loses no alternative and nothing is   *)
(* paged, exactly the page of the matching rows (scanStep).                 *)
THEOREM ListingsMatch == Spec => []ListsWhatMatches
<1>1. IsExecuted => ListsWhatMatches
  <2> DEFINE q == Asked
             listed == Projected(SqlPage(engine, q, Kept(Rows(q.from), Matches(q))), q.select)
             unpaged == KeepsAlternatives(q.where) /\ q.limit = Unset /\ q.offset = Unset
  <2> SUFFICES ASSUME IsExecuted, Answered, q.kind = "select", q.join = NoJoin
               PROVE  /\ \A i \in DOMAIN answer.rows : \E k \in Matches(q) :
                           answer.rows[i] = Project(Rows(q.from)[k], q.select)
                      /\ (CanPushdownWhere(q.where) \/ unpaged) /\ Typed("scan", q) /\ AllPlain(q)
                           => answer.rows = listed
    BY DEF ListsWhatMatches
  <2>0. engine \in Engines
    BY DEF IsExecuted
  <2>1. IsQuery(q) /\ q.where \in Clauses /\ answer = ExecutePlan(engine, q)
    BY AnsweredQueries
  <2>2. Pageable(q) /\ q.where \in Clauses
    BY <2>1, QueriesArePageable
  <2>3. answer.rows = ScanStep(engine, q)
    BY <2>1 DEF ExecutePlan, Listed, Answered, Refused
  <2>4. ASSUME CanPushdownWhere(q.where), Typed("scan", q), AllPlain(q)
        PROVE  ScanStep(engine, q) = listed
    <3>1. SqlMatches(engine, "scan", q) = Matches(q)
      BY <2>2, <2>4, SqlFindsTheMatches
    <3>2. \A i \in SqlMatches(engine, "scan", q) : EvaluateWhere(q.where, Rows(q.from)[i])
      BY <3>1 DEF Matches
    <3> HIDE DEF q
    <3>3. ScanStep(engine, q) = Projected(SqlScan(engine, q), q.select)
      BY <2>0, <2>2, <3>2, SecondFilterKeepsAll
    <3> QED BY <3>1, <3>3 DEF SqlScan
  <2>5. ASSUME unpaged, Typed("scan", q), AllPlain(q)
        PROVE  ScanStep(engine, q) = listed
    <3>1. Matches(q) \subseteq SqlMatches(engine, "scan", q)
      BY <2>2, <2>5, SqlMissesNoMatch
    <3> HIDE DEF q
    <3> QED BY <2>0, <2>5, <3>1, UnpagedScan
  <2>6. \A i \in DOMAIN ScanStep(engine, q) : \E k \in Matches(q) :
           ScanStep(engine, q)[i] = Project(Rows(q.from)[k], q.select)
    BY <2>0, <2>2, ScanRows
  <2> QED BY <2>3, <2>4, <2>5, <2>6
<1> QED BY <1>1, AnswersAreExecuted, PTL

(* COUNT answers the number of rows a scan by the same clause lists, where  *)
(* the clause's conditions fit the rows, under the names COUNT gives the    *)
(* fields (countMatching against scanStep).                                 *)
THEOREM CountsAreListings == Spec => []CountIsListed
<1>1. IsExecuted => CountIsListed
  <2> SUFFICES ASSUME IsExecuted, Answered, Asked.kind = "aggregate", Typed("count", Asked)
               PROVE  answer.count = Len(ScanStep(engine, Asked))
    BY DEF CountIsListed
  <2> DEFINE q == Asked
             scan == [Query("scan", q.from) EXCEPT !.where = q.where]
  <2>0. engine \in Engines
    BY DEF IsExecuted
  <2>1. IsQuery(q) /\ q.where \in Clauses /\ answer = ExecutePlan(engine, q)
    BY AnsweredQueries
  <2>2. Pageable(q) /\ q.where \in Clauses
    BY <2>1, QueriesArePageable
  <2>3. answer.count = CountMatching(engine, scan)
    BY <2>1 DEF ExecutePlan, CountStep, Answered, Refused
  <2>4. q = [Query("aggregate", q.from) EXCEPT !.where = q.where]
    BY <2>1 DEF IsQuery
  <2>5. /\ scan.from = q.from /\ scan.where = q.where /\ scan.orderBy = q.orderBy
        /\ scan.offset = q.offset /\ scan.limit = q.limit /\ scan.select = q.select
    BY <2>4 DEF Query
  <2>6. q.offset = Unset /\ q.limit = Unset
    BY <2>4 DEF Query
  <2> HIDE DEF scan
  <2>7. \A statement : SqlMatches(engine, statement, scan) = SqlMatches(engine, statement, q)
    BY <2>5 DEF SqlMatches
  <2>8. CASE CanPushdownWhere(q.where)
    <3>1. \A i \in DOMAIN Rows(q.from) :
            /\ SqlWhere(engine, "scan", q.where, Rows(q.from)[i])
                 <=> SqlWhere(engine, "count", q.where, Rows(q.from)[i])
            /\ SqlWhere(engine, "count", q.where, Rows(q.from)[i]) => EvaluateWhere(q.where, Rows(q.from)[i])
      <4> TAKE i \in DOMAIN Rows(q.from)
      <4>1. FitsRow(engine, "count", q.where, Rows(q.from)[i])
        BY DEF Typed, FitsRow
      <4>2. SqlWhere(engine, "scan", q.where, Rows(q.from)[i])
              <=> SqlWhere(engine, "count", q.where, Rows(q.from)[i])
        BY <2>2, <2>8, <4>1, CountSelectsTheSame
      <4>3. SqlWhere(engine, "count", q.where, Rows(q.from)[i]) => EvaluateWhere(q.where, Rows(q.from)[i])
        BY <2>2, <2>8, <4>1, PushedDownSelectsNoMore
      <4> QED BY <4>2, <4>3
    <3>5. SqlMatches(engine, "scan", q) = SqlMatches(engine, "count", q)
      BY <3>1 DEF SqlMatches
    <3>6. \A i \in SqlMatches(engine, "scan", q) : EvaluateWhere(q.where, Rows(q.from)[i])
      BY <3>1 DEF SqlMatches
    <3>2. Len(SqlScan(engine, q)) = Cardinality(SqlMatches(engine, "scan", q)) /\ IsList(SqlScan(engine, q))
      BY <2>0, <2>2, <2>6, SqlScanRows
    <3>3. ScanStep(engine, q) = Projected(SqlScan(engine, q), q.select)
      BY <2>0, <2>2, <3>6, SecondFilterKeepsAll
    <3>4. Len(ScanStep(engine, q)) = Len(SqlScan(engine, q))
      BY <3>2, <3>3 DEF Projected, IsList
    <3> QED BY <2>3, <2>5, <2>7, <2>8, <3>2, <3>4, <3>5 DEF CountMatching
  <2>9. CASE ~CanPushdownWhere(q.where)
    <3>1. SqlScan(engine, scan) = SqlScan(engine, q)
      BY <2>5, <2>7 DEF SqlScan, SqlPage
    <3>2. ScanStep(engine, scan) = ScanStep(engine, q)
      BY <2>5, <3>1 DEF ScanStep
    <3> QED BY <2>3, <2>5, <2>9, <3>2 DEF CountMatching
  <2> QED BY <2>8, <2>9
<1> QED BY <1>1, AnswersAreExecuted, PTL

-----------------------------------------------------------------------------
(* Joins.                                                                  *)

(* The list s has the rows of t at the positions I, each at one place.      *)
Renames(s, t, I, pos) ==
  /\ IsList(s) /\ pos \in Bijection(DOMAIN s, I)
  /\ \A k \in DOMAIN s : s[k] = t[pos[k]]

LEMMA ArrangedRenames ==
  ASSUME NEW s, NEW rows, NEW I, NEW R, NEW pos, Arranges(s, rows, I, R, pos)
  PROVE  Renames(s, rows, I, pos)
<1>1. DOMAIN s = 1..Cardinality(I) /\ IsList(s)
  BY ListsHaveFiniteDomains DEF Arranges
<1> QED BY <1>1 DEF Arranges, Renames

LEMMA KeptRenames ==
  ASSUME NEW rows, IsList(rows), NEW I \in SUBSET DOMAIN rows
  PROVE  \E pos : Renames(Kept(rows, I), rows, I, pos)
<1>1. I \subseteq Nat /\ IsFiniteSet(I)
  BY ListsHaveFiniteDomains, FS_Subset
<1> QED BY <1>1, KeptIsArranged, ArrangedRenames

LEMMA RenamesCompose ==
  ASSUME NEW s, NEW t, NEW u, NEW I, NEW J, NEW f, NEW g,
         Renames(s, t, I, f), Renames(t, u, J, g), I = DOMAIN t
  PROVE  Renames(s, u, J, [k \in DOMAIN s |-> g[f[k]]])
<1> DEFINE h == [k \in DOMAIN s |-> g[f[k]]]
<1>1. /\ f \in [DOMAIN s -> DOMAIN t] /\ g \in [DOMAIN t -> J]
      /\ \A k, m \in DOMAIN s : f[k] = f[m] => k = m
      /\ \A k, m \in DOMAIN t : g[k] = g[m] => k = m
      /\ \A k \in DOMAIN t : \E m \in DOMAIN s : f[m] = k
      /\ \A k \in J : \E m \in DOMAIN t : g[m] = k
  BY DEF Renames, Bijection, Injection, Surjection, IsInjective
<1>2. h \in [DOMAIN s -> J] /\ \A k \in DOMAIN s : h[k] = g[f[k]]
  BY <1>1
<1> HIDE DEF h
<1>3. \A k, m \in DOMAIN s : h[k] = h[m] => k = m
  BY <1>1, <1>2
<1>4. \A i \in J : \E k \in DOMAIN s : h[k] = i
  BY <1>1, <1>2
<1>5. h \in Bijection(DOMAIN s, J)
  BY <1>2, <1>3, <1>4 DEF Bijection, Injection, Surjection, IsInjective
<1>6. \A k \in DOMAIN s : s[k] = u[h[k]]
  BY <1>1, <1>2 DEF Renames
<1>7. Renames(s, u, J, h)
  BY <1>5, <1>6 DEF Renames
<1> QED BY <1>7 DEF h

LEMMA NoWhereSelectsAll ==
  \A e, statement, d : SqlWhere(e, statement, NoWhere, d) /\ EvaluateWhere(NoWhere, d)
<1>1. NoWhere \in Clauses /\ NoWhere.type = "none"
  BY TextAssumption DEF NoWhere
<1> QED BY <1>1, CompilesUnfolds, SqlWhereUnfolds, EvaluateWhereUnfolds

(* A scan without clause, projection and page lists the relation.           *)
LEMMA WholeScan ==
  ASSUME NEW e \in Engines, NEW q, q.where = NoWhere, q.select = <<>>, q.limit = Unset, q.offset = Unset
  PROVE  \E pos : Renames(ScanStep(e, q), Rows(q.from), DOMAIN Rows(q.from), pos)
<1> DEFINE rows == Rows(q.from)
           before == SqlBefore(e, q.orderBy, rows)
           order == Sorted(rows, before)
<1>1. IsList(rows) /\ FlatRows(rows)
  BY RowsAreLists
<1>2. SqlMatches(e, "scan", q) = DOMAIN rows
  BY NoWhereSelectsAll DEF SqlMatches
<1>3. Kept(rows, DOMAIN rows) = rows
  BY <1>1, KeptWhole
<1>4. SqlScan(e, q) = Page(order, Unset, Unset)
  BY <1>2, <1>3 DEF SqlScan, SqlPage
<1>5. StrictWeak(before, DOMAIN rows)
  BY <1>1, SqlOrderIsStrictWeak
<1>6. \A i \in SqlMatches(e, "scan", q) : EvaluateWhere(q.where, rows[i])
  BY NoWhereSelectsAll
<1>7. ScanStep(e, q) = Projected(SqlScan(e, q), <<>>)
  BY <1>6, SecondFilterKeepsAll DEF Pageable
<1> HIDE DEF rows, before
<1>8. IsList(order) /\ \E pos : Renames(order, rows, DOMAIN rows, pos)
  BY <1>1, <1>5, SortedIsArranged, ArrangedRenames, SortedRows
<1> HIDE DEF order
<1>9. Page(order, Unset, Unset) = order
  BY <1>8, PageOfList
<1>10. Projected(order, <<>>) = order
  <2>1. order = [i \in DOMAIN order |-> order[i]]
    BY <1>8 DEF IsList
  <2> QED BY <2>1 DEF Projected, Project
<1> QED BY <1>4, <1>7, <1>8, <1>9, <1>10 DEF rows

(* The index finds the right row exactly where the join fields agree.       *)
LEMMA JoinKeysAgree ==
  ASSUME NEW q, KeyJoin(q), NEW i \in DOMAIN Rows(q.from), NEW m \in DOMAIN Rows(q.join.schema)
  PROVE  JoinKey(Rows(q.join.schema)[m], q.join.right.field) = JoinKey(Rows(q.from)[i], q.join.left.field)
           <=> Field(Rows(q.from)[i], q.join.left.field) = Field(Rows(q.join.schema)[m], q.join.right.field)
<1> DEFINE x == Field(Rows(q.from)[i], q.join.left.field)
           y == Field(Rows(q.join.schema)[m], q.join.right.field)
<1>1. x \in ScalarValue \union {Undefined}
  BY RowsAreLists DEF FlatRows, Field
<1>2. x.t # "number" /\ y \in StringValue \ {String(0)}
  BY DEF KeyJoin
<1> HIDE DEF x, y
<1>3. Populated(y) /\ y = String(y.v) /\ y.v # 0
  BY <1>2 DEF Populated, StringValue, String
<1>4. IF Populated(x) THEN x = String(x.v) ELSE x # y
  BY <1>1, <1>2, <1>3, Tags DEF ScalarValue, NumberValue, StringValue, Null, String, Populated
<1>5. JsText(y) = y.v /\ JsText(x) = IF Populated(x) THEN x.v ELSE 0
  BY <1>3, <1>4 DEF JsText, TextOf, String
<1>6. JsText(y) = JsText(x) <=> x = y
  BY <1>3, <1>4, <1>5
<1> QED BY <1>6 DEF x, y, JoinKey

LEMMA NamesInTwoParts ==
  \A a, b : /\ <<a>> \o <<b>> = <<a, b>>
            /\ SubSeq(<<a, b>>, 2, 2) = <<b>> /\ Tail(<<a, b>>) = <<b>>
            /\ Len(<<a>>) = 1 /\ Len(<<a, b>>) = 2
<1> TAKE a, b
<1>1. <<a>> \o <<b>> = <<a, b>>
  <2>1. <<a>> \in Seq({a, b}) /\ <<b>> \in Seq({a, b}) /\ Len(<<a>>) = 1 /\ Len(<<b>>) = 1
    OBVIOUS
  <2>2. /\ <<a>> \o <<b>> \in Seq({a, b}) /\ Len(<<a>> \o <<b>>) = 2
        /\ (<<a>> \o <<b>>)[1] = a /\ (<<a>> \o <<b>>)[2] = b
    BY <2>1, ConcatProperties
  <2>3. \A s \in Seq({a, b}) : Len(s) = 2 => s = <<s[1], s[2]>>
    OBVIOUS
  <2> QED BY <2>2, <2>3
<1>2. Len(<<a>>) = 1 /\ Len(<<a, b>>) = 2
  OBVIOUS
<1>3. SubSeq(<<a, b>>, 2, 2) = <<b>>
  <2>1. \A i \in 2..2 : <<a, b>>[i] \in {b}
    OBVIOUS
  <2>2. /\ SubSeq(<<a, b>>, 2, 2) \in Seq({b})
        /\ Len(SubSeq(<<a, b>>, 2, 2)) = 1
    BY <2>1, SubSeqProperties
  <2>3. \A s \in Seq({b}) : Len(s) = 1 => s = <<b>>
    OBVIOUS
  <2> QED BY <2>2, <2>3
<1>4. Tail(<<a, b>>) = <<b>>
  <2>1. <<a, b>> \in Seq({a, b}) /\ <<a, b>> # <<>>
    OBVIOUS
  <2>2. /\ Tail(<<a, b>>) \in Seq({a, b}) /\ Len(Tail(<<a, b>>)) = 1
        /\ Tail(<<a, b>>)[1] = b
    BY <2>1, HeadTailProperties
  <2> QED BY <2>2
<1> QED BY <1>1, <1>2, <1>3, <1>4

Flat(r) == \A f \in DOMAIN r : f = <<f[1]>>

(* What a row merged under the name of a schema holds.                      *)
HoldsBoth(l, r, a) ==
  LET d == MergedData(l, r, <<a>>)
  IN  /\ \A b : Field(d, <<a, b>>) = IF <<b>> \in DOMAIN r THEN r[<<b>>] ELSE Field(l, <<a, b>>)
      /\ \A b, c : c # a => Field(d, <<c, b>>) = Field(l, <<c, b>>)
      /\ \A b : Field(d, <<b>>) = Field(l, <<b>>)
      /\ \A f \in DOMAIN d : (f \in DOMAIN l /\ d[f] = l[f]) \/ \E g \in DOMAIN r : d[f] = r[g]

LEMMA MergedFields ==
  \A l, r, a : Flat(r) => HoldsBoth(l, r, a)
<1> SUFFICES ASSUME NEW l, NEW r, NEW a, Flat(r) PROVE HoldsBoth(l, r, a)
  OBVIOUS
<1> DEFINE theirs == {<<a>> \o f : f \in DOMAIN r}
           d == MergedData(l, r, <<a>>)
<1>1. \A f \in theirs : \E b : f = <<a, b>> /\ <<b>> \in DOMAIN r
  <2> TAKE f \in theirs
  <2>1. PICK g \in DOMAIN r : f = <<a>> \o g
    OBVIOUS
  <2>2. g = <<g[1]>>
    BY DEF Flat
  <2>3. <<a>> \o <<g[1]>> = <<a, g[1]>>
    BY NamesInTwoParts
  <2> QED BY <2>1, <2>2, <2>3
<1>2. \A b : <<b>> \in DOMAIN r => <<a, b>> \in theirs
  <2> TAKE b
  <2>1. <<a>> \o <<b>> = <<a, b>>
    BY NamesInTwoParts
  <2> QED BY <2>1
<1>3. \A b, c : <<a, b>> = <<a, c>> => b = c
  OBVIOUS
<1>4. \A b : <<a, b>> \in theirs <=> <<b>> \in DOMAIN r
  BY <1>1, <1>2, <1>3
<1>5. /\ \A b, c : c # a => <<c, b>> \notin theirs
      /\ \A b : <<b>> \notin theirs
  BY <1>1, NamesInTwoParts
<1>6. /\ DOMAIN d = DOMAIN l \union theirs
      /\ \A f \in DOMAIN d : d[f] = IF f \in theirs THEN r[SubSeq(f, 2, Len(f))] ELSE l[f]
  <2>1. Len(<<a>>) + 1 = 2
    BY NamesInTwoParts
  <2> QED BY <2>1 DEF MergedData
<1>7. \A b : <<a, b>> \in theirs => d[<<a, b>>] = r[<<b>>]
  <2> TAKE b
  <2> HAVE <<a, b>> \in theirs
  <2>1. d[<<a, b>>] = r[SubSeq(<<a, b>>, 2, Len(<<a, b>>))]
    BY <1>6
  <2> HIDE DEF d
  <2> QED BY <2>1, NamesInTwoParts
<1> HIDE DEF theirs, d
<1>8. \A b : Field(d, <<a, b>>) = IF <<b>> \in DOMAIN r THEN r[<<b>>] ELSE Field(l, <<a, b>>)
  BY <1>4, <1>6, <1>7 DEF Field
<1>9. /\ \A b, c : c # a => Field(d, <<c, b>>) = Field(l, <<c, b>>)
      /\ \A b : Field(d, <<b>>) = Field(l, <<b>>)
  BY <1>5, <1>6 DEF Field
<1>10. \A f \in DOMAIN d : (f \in DOMAIN l /\ d[f] = l[f]) \/ \E g \in DOMAIN r : d[f] = r[g]
  BY <1>1, <1>6, <1>7
<1> QED BY <1>8, <1>9, <1>10 DEF d, HoldsBoth
LEMMA RowNames ==
  \A s : \A i \in DOMAIN Rows(s) : Flat(Rows(s)[i])
<1> TAKE s
<1>1. CASE s \in DOMAIN Tables
  BY <1>1, TableAssumption DEF Rows, Flat
<1>2. CASE s \notin DOMAIN Tables
  BY <1>2 DEF Rows, Flat
<1> QED BY <1>1, <1>2

(* The clause over the merged row under resolved names is the clause over   *)
(* both rows under the names of their schemas (remapWhere).                 *)
LEMMA ResolvedIsQualified ==
  ASSUME NEW q, KeyJoin(q), q.where \in Clauses,
         NEW i \in DOMAIN Rows(q.from), NEW m \in DOMAIN Rows(q.join.schema)
  PROVE  LET l == Rows(q.from)[i]
             r == Rows(q.join.schema)[m]
             fields == {c.field : c \in Conditions(q.where)}
         IN  EvaluateWhere(q.where, Resolved(q.join, fields, MergedData(l, r, q.join.right.alias)))
               <=> EvaluateWhere(q.where, MergedData(MergedData(l, l, q.from), r, q.join.schema))
<1> DEFINE l == Rows(q.from)[i]
           r == Rows(q.join.schema)[m]
           h == q.from[1]
           a == q.join.schema[1]
           fields == {c.field : c \in Conditions(q.where)}
           d == MergedData(l, r, <<a>>)
           both == MergedData(l, l, <<h>>)
           ref == MergedData(both, r, <<a>>)
           seen == Resolved(q.join, fields, d)
<1>1. /\ q.join.right.alias = <<a>> /\ q.join.schema = <<a>> /\ q.from = <<h>>
      /\ q.join.left.alias = <<h>> /\ a # h
  BY DEF KeyJoin
<1>2. Flat(l) /\ Flat(r)
  BY RowNames
<1> HIDE DEF l, r, a, h
<1>3. /\ \A y : Field(d, <<a, y>>) = IF <<y>> \in DOMAIN r THEN r[<<y>>] ELSE Field(l, <<a, y>>)
      /\ \A y : Field(d, <<y>>) = Field(l, <<y>>)
  <2>1. HoldsBoth(l, r, a)
    BY <1>2, MergedFields
  <2> QED BY <2>1 DEF HoldsBoth
<1>4. /\ \A y : Field(both, <<h, y>>) = IF <<y>> \in DOMAIN l THEN l[<<y>>] ELSE Field(l, <<h, y>>)
      /\ \A y : Field(both, <<a, y>>) = Field(l, <<a, y>>)
  <2>1. HoldsBoth(l, l, h)
    BY <1>2, MergedFields
  <2> QED BY <1>1, <2>1 DEF HoldsBoth
<1>5. /\ \A y : Field(ref, <<a, y>>) = IF <<y>> \in DOMAIN r THEN r[<<y>>] ELSE Field(both, <<a, y>>)
      /\ \A y : Field(ref, <<h, y>>) = Field(both, <<h, y>>)
  <2> HIDE DEF both
  <2>1. HoldsBoth(both, r, a)
    BY <1>2, MergedFields
  <2> QED BY <1>1, <2>1 DEF HoldsBoth
<1>6. \A y : <<h, y>> \notin DOMAIN l
  BY <1>2, NamesInTwoParts DEF Flat
<1>7. \A y : /\ ResolveField(q.join, <<h, y>>) = <<y>>
             /\ ResolveField(q.join, <<a, y>>) = <<a, y>>
  <2> TAKE y
  <2>1. /\ Len(<<h, y>>) > 1 /\ <<h, y>>[1] = h /\ Tail(<<h, y>>) = <<y>>
        /\ <<a, y>>[1] = a /\ <<a>> # <<h>>
    BY <1>1, NamesInTwoParts
  <2> QED BY <1>1, <2>1 DEF ResolveField
<1> HIDE DEF d, both, ref
<1>8. \A f \in fields : Field(seen, f) = Field(d, ResolveField(q.join, f))
  BY DEF Resolved, Field
<1>9. ASSUME NEW c \in Conditions(q.where)
      PROVE  Field(seen, c.field) = Field(ref, c.field)
  <2>1. PICK x, y : c.field = <<x, y>> /\ x \in {h, a}
    BY DEF KeyJoin, h, a
  <2>2. Field(seen, c.field) = Field(d, ResolveField(q.join, c.field))
    BY <1>8
  <2> HIDE DEF seen, fields
  <2>3. CASE x = h
    <3>1. Field(seen, c.field) = Field(l, <<y>>)
      BY <1>3, <1>7, <2>1, <2>2, <2>3
    <3>2. Field(ref, c.field) = IF <<y>> \in DOMAIN l THEN l[<<y>>] ELSE Field(l, <<h, y>>)
      BY <1>4, <1>5, <2>1, <2>3
    <3> QED BY <1>6, <3>1, <3>2 DEF Field
  <2>4. CASE x = a
    <3>1. Field(seen, c.field) = Field(d, <<a, y>>)
      BY <1>7, <2>1, <2>2, <2>4
    <3>2. Field(ref, c.field) = Field(d, <<a, y>>)
      BY <1>3, <1>4, <1>5, <2>1, <2>4
    <3> QED BY <3>1, <3>2
  <2> QED BY <2>1, <2>3, <2>4
<1>10. EvaluateWhere(q.where, seen) <=> EvaluateWhere(q.where, ref)
  <2> HIDE DEF seen, fields
  <2> QED BY <1>9, ClauseReadsItsFields
<1> QED BY <1>1, <1>10 DEF l, r, d, both, ref

LEMMA JoinOrderIsStrictWeak ==
  ASSUME NEW rows, ScalarRows(rows), NEW orderBy
  PROVE  StrictWeak(JsBefore(orderBy, rows), DOMAIN rows)
<1> DEFINE at(i) == Field(rows[i], orderBy.field)
           less(i, j) == /\ Populated(at(i))
                         /\ Populated(at(j)) => IF orderBy.direction = "asc" THEN at(i).v < at(j).v
                                                ELSE at(j).v < at(i).v
<1>1. \A i \in DOMAIN rows : at(i).v \in Int
  <2> TAKE i \in DOMAIN rows
  <2>1. at(i) \in ScalarValue \union {Undefined}
    BY DEF ScalarRows, Field
  <2> HIDE DEF at
  <2> QED BY <2>1, Tags
<1>2. \A i, j \in DOMAIN rows :
         <<i, j>> \in JsBefore(orderBy, rows) <=> orderBy # NoOrder /\ less(i, j)
  BY DEF JsBefore
<1> HIDE DEF at
<1> QED BY <1>1, <1>2 DEF StrictWeak

(* The pairs of rows a join by keys is about: with the same key, and of     *)
(* those the ones the clause accepts.                                       *)
SameKey(q, i, m) ==
  Field(Rows(q.from)[i], q.join.left.field) = Field(Rows(q.join.schema)[m], q.join.right.field)

KeyPairs(q) == {p \in (DOMAIN Rows(q.from)) \X (DOMAIN Rows(q.join.schema)) : SameKey(q, p[1], p[2])}

MergedPair(q, p) ==
  MergedData(Rows(q.from)[p[1]], Rows(q.join.schema)[p[2]], q.join.right.alias)

(* The rows joined are the pairs with the same key, each once.              *)
LEMMA JoinedPairs ==
  ASSUME NEW e \in Engines, NEW q, IsQuery(q), KeyJoin(q),
         q.select = <<>>, q.limit = Unset, q.offset = Unset
  PROVE  IsList(Joined(e, q))
         /\ \E pair \in Bijection(DOMAIN Joined(e, q), KeyPairs(q)) :
              \A k \in DOMAIN Joined(e, q) : Joined(e, q)[k] = MergedPair(q, pair[k])
<1> DEFINE j == q.join
           L == Rows(q.from)
           R == Rows(j.schema)
           left == ScanStep(e, [q EXCEPT !.where = NoWhere])
           right == ScanStep(e, Query("scan", j.schema))
           match(l) == {k \in DOMAIN right : JoinKey(right[k], j.right.field) = JoinKey(l, j.left.field)}
           last(l) == right[CHOOSE k \in match(l) : \A m \in match(l) : m <= k]
           I == {i \in DOMAIN left : match(left[i]) # {}}
           matched == Kept(left, I)
           partner(i) == CHOOSE m \in DOMAIN R : SameKey(q, i, m)
<1>1. PICK f : Renames(left, L, DOMAIN L, f)
  <2> DEFINE scan == [q EXCEPT !.where = NoWhere]
  <2>1. /\ scan.where = NoWhere /\ scan.select = <<>> /\ scan.from = q.from
        /\ scan.limit = Unset /\ scan.offset = Unset
    BY DEF IsQuery, Query
  <2> HIDE DEF scan
  <2>2. \E f : Renames(ScanStep(e, scan), Rows(scan.from), DOMAIN Rows(scan.from), f)
    BY <2>1, WholeScan
  <2> QED BY <2>1, <2>2 DEF scan
<1>2. PICK g : Renames(right, R, DOMAIN R, g)
  <2> DEFINE scan == Query("scan", j.schema)
  <2>1. /\ scan.where = NoWhere /\ scan.select = <<>> /\ scan.from = j.schema
        /\ scan.limit = Unset /\ scan.offset = Unset
    BY DEF Query
  <2> HIDE DEF scan
  <2>2. \E g : Renames(ScanStep(e, scan), Rows(scan.from), DOMAIN Rows(scan.from), g)
    BY <2>1, WholeScan
  <2> QED BY <2>1, <2>2 DEF scan
<1>3. Joined(e, q) = [i \in DOMAIN matched |-> MergedData(matched[i], last(matched[i]), j.right.alias)]
  BY DEF Joined, HashJoin
<1>4. \A i \in DOMAIN L, m, n \in DOMAIN R : SameKey(q, i, m) /\ SameKey(q, i, n) => m = n
  BY DEF KeyJoin, SameKey
<1>5. \A i \in DOMAIN L, m \in DOMAIN R :
         JoinKey(R[m], j.right.field) = JoinKey(L[i], j.left.field) <=> SameKey(q, i, m)
  BY JoinKeysAgree DEF SameKey
<1>6. \A i \in DOMAIN L, m \in DOMAIN R : SameKey(q, i, m) => partner(i) = m
  BY <1>4
<1>7. /\ f \in [DOMAIN left -> DOMAIN L] /\ \A k \in DOMAIN left : left[k] = L[f[k]]
      /\ \A k, n \in DOMAIN left : f[k] = f[n] => k = n
      /\ \A i \in DOMAIN L : \E k \in DOMAIN left : f[k] = i
      /\ IsList(left)
  BY <1>1 DEF Renames, Bijection, Injection, Surjection, IsInjective
<1>8. /\ g \in [DOMAIN right -> DOMAIN R] /\ \A k \in DOMAIN right : right[k] = R[g[k]]
      /\ \A k, n \in DOMAIN right : g[k] = g[n] => k = n
      /\ \A m \in DOMAIN R : \E k \in DOMAIN right : g[k] = m
      /\ DOMAIN right \subseteq Nat
  BY <1>2, ListsHaveFiniteDomains DEF Renames, Bijection, Injection, Surjection, IsInjective
<1> HIDE DEF left, right, L, R, partner
<1>9. \A i \in DOMAIN left : match(left[i]) = {k \in DOMAIN right : SameKey(q, f[i], g[k])}
  <2> TAKE i \in DOMAIN left
  <2>1. \A k \in DOMAIN right :
           JoinKey(right[k], j.right.field) = JoinKey(left[i], j.left.field) <=> SameKey(q, f[i], g[k])
    BY <1>5, <1>7, <1>8
  <2> QED BY <2>1
<1>10. ASSUME NEW i \in I
       PROVE  /\ partner(f[i]) \in DOMAIN R /\ SameKey(q, f[i], partner(f[i]))
              /\ last(left[i]) = R[partner(f[i])]
  <2>1. i \in DOMAIN left /\ f[i] \in DOMAIN L
    BY <1>7
  <2>2. PICK k \in DOMAIN right : SameKey(q, f[i], g[k])
    BY <1>9
  <2>3. g[k] \in DOMAIN R /\ partner(f[i]) = g[k]
    BY <1>6, <1>8, <2>1, <2>2
  <2>4. match(left[i]) = {k}
    BY <1>4, <1>8, <1>9, <2>1, <2>2
  <2>5. (CHOOSE n \in match(left[i]) : \A m \in match(left[i]) : m <= n) = k
    <3> HIDE DEF match
    <3>1. k \in Nat
      BY <1>8
    <3> QED BY <2>4, <3>1
  <2>6. last(left[i]) = right[k]
    BY <2>5, Zenon
  <2> HIDE DEF match, last
  <2> QED BY <1>8, <2>2, <2>3, <2>6
<1>11. \A i \in DOMAIN left : i \in I <=> \E m \in DOMAIN R : SameKey(q, f[i], m)
  BY <1>8, <1>9
<1> HIDE DEF last, match
<1>12. I \in SUBSET DOMAIN left
  OBVIOUS
<1> HIDE DEF I
<1>13. PICK h : Renames(matched, left, I, h)
  BY <1>7, <1>12, KeptRenames
<1>14. /\ h \in [DOMAIN matched -> I] /\ \A k \in DOMAIN matched : matched[k] = left[h[k]]
       /\ \A k, n \in DOMAIN matched : h[k] = h[n] => k = n
       /\ \A i \in I : \E k \in DOMAIN matched : h[k] = i
       /\ IsList(matched)
  BY <1>13 DEF Renames, Bijection, Injection, Surjection, IsInjective
<1> HIDE DEF matched
<1> DEFINE pair == [k \in DOMAIN matched |-> <<f[h[k]], partner(f[h[k]])>>]
<1>15. pair \in [DOMAIN matched -> KeyPairs(q)]
  <2> SUFFICES ASSUME NEW k \in DOMAIN matched
               PROVE  <<f[h[k]], partner(f[h[k]])>> \in KeyPairs(q)
    OBVIOUS
  <2>1. h[k] \in I /\ f[h[k]] \in DOMAIN L
    BY <1>7, <1>12, <1>14
  <2>2. partner(f[h[k]]) \in DOMAIN R /\ SameKey(q, f[h[k]], partner(f[h[k]]))
    BY <1>10, <2>1
  <2> QED BY <2>1, <2>2 DEF KeyPairs, L, R
<1>16. \A k, n \in DOMAIN matched : pair[k] = pair[n] => k = n
  BY <1>7, <1>12, <1>14
<1>17. \A p \in KeyPairs(q) : \E k \in DOMAIN matched : pair[k] = p
  <2> TAKE p \in KeyPairs(q)
  <2>1. p[1] \in DOMAIN L /\ p[2] \in DOMAIN R /\ SameKey(q, p[1], p[2]) /\ p = <<p[1], p[2]>>
    BY DEF KeyPairs, L, R
  <2>2. PICK i \in DOMAIN left : f[i] = p[1]
    BY <1>7, <2>1
  <2>3. i \in I
    BY <1>11, <2>1, <2>2
  <2>4. PICK k \in DOMAIN matched : h[k] = i
    BY <1>14, <2>3
  <2> QED BY <1>6, <2>1, <2>2, <2>4
<1>18. pair \in Bijection(DOMAIN matched, KeyPairs(q))
  BY <1>15, <1>16, <1>17 DEF Bijection, Injection, Surjection, IsInjective
<1>19. \A k \in DOMAIN matched : Joined(e, q)[k] = MergedPair(q, pair[k])
  <2> TAKE k \in DOMAIN matched
  <2>1. h[k] \in I /\ matched[k] = left[h[k]]
    BY <1>14
  <2>2. matched[k] = L[f[h[k]]] /\ last(matched[k]) = R[partner(f[h[k]])]
    BY <1>7, <1>10, <1>12, <2>1
  <2>3. Joined(e, q)[k] = MergedData(matched[k], last(matched[k]), j.right.alias)
    BY <1>3
  <2> QED BY <2>2, <2>3 DEF MergedPair, L, R
<1>20. DOMAIN Joined(e, q) = DOMAIN matched
  BY <1>3
<1>21. IsList(Joined(e, q))
  <2>1. DOMAIN matched = 1..Len(matched) /\ Len(matched) \in Nat
    BY <1>14, ListsHaveFiniteDomains
  <2>2. Joined(e, q) = [k \in 1..Len(matched) |-> Joined(e, q)[k]]
    BY <1>3, <2>1
  <2> QED BY <2>1, <2>2, ListsByLength
<1> HIDE DEF pair
<1> QED BY <1>18, <1>19, <1>20, <1>21

(* Of the pairs, the ones the clause accepts under both schemas' names.     *)
Answers(q) ==
  {p \in KeyPairs(q) :
     LET l == Rows(q.from)[p[1]]
     IN  EvaluateWhere(q.where, MergedData(MergedData(l, l, q.from), Rows(q.join.schema)[p[2]], q.join.schema))}

LEMMA MergedPairsAreFlat ==
  ASSUME NEW q, KeyJoin(q), NEW p \in KeyPairs(q)
  PROVE  \A f \in DOMAIN MergedPair(q, p) : MergedPair(q, p)[f] \in ScalarValue
<1> DEFINE l == Rows(q.from)[p[1]]
           r == Rows(q.join.schema)[p[2]]
           a == q.join.schema[1]
<1>1. p[1] \in DOMAIN Rows(q.from) /\ p[2] \in DOMAIN Rows(q.join.schema)
  BY DEF KeyPairs
<1>2. Flat(r) /\ q.join.right.alias = <<a>>
  BY <1>1, RowNames DEF KeyJoin
<1>3. (\A f \in DOMAIN l : l[f] \in ScalarValue) /\ (\A f \in DOMAIN r : r[f] \in ScalarValue)
  BY <1>1, RowsAreLists DEF FlatRows
<1>4. HoldsBoth(l, r, a)
  BY <1>2, MergedFields
<1>5. MergedPair(q, p) = MergedData(l, r, <<a>>)
  BY <1>2 DEF MergedPair
<1> HIDE DEF l, r, a
<1> QED BY <1>3, <1>4, <1>5 DEF HoldsBoth

(* The join lists the merged answers, each once and in the order asked for. *)
LEMMA JoinAnswers ==
  ASSUME NEW e \in Engines, NEW q, IsQuery(q), q.where \in Clauses, KeyJoin(q),
         q.select = <<>>, q.limit = Unset, q.offset = Unset
  PROVE  LET rows == ExecuteJoin(e, q)
         IN  /\ IsList(rows)
             /\ \E pair \in Bijection(DOMAIN rows, Answers(q)) :
                  \A k \in DOMAIN rows : rows[k] = MergedPair(q, pair[k])
             /\ \A p \in JsBefore(q.orderBy, rows) : p[1] < p[2]
<1> DEFINE all == Joined(e, q)
           fields == {c.field : c \in Conditions(q.where)}
           holds == {i \in DOMAIN all : EvaluateWhere(q.where, Resolved(q.join, fields, all[i]))}
           kept == Kept(all, holds)
           before == JsBefore(q.orderBy, kept)
           rows == Sorted(kept, before)
<1>1. IsList(all)
  BY JoinedPairs
<1>2. PICK pair \in Bijection(DOMAIN all, KeyPairs(q)) : \A k \in DOMAIN all : all[k] = MergedPair(q, pair[k])
  BY JoinedPairs
<1>3. /\ pair \in [DOMAIN all -> KeyPairs(q)]
      /\ \A k, n \in DOMAIN all : pair[k] = pair[n] => k = n
      /\ \A p \in KeyPairs(q) : \E k \in DOMAIN all : pair[k] = p
  BY DEF Bijection, Injection, Surjection, IsInjective
<1>4. \A k \in DOMAIN all : k \in holds <=> pair[k] \in Answers(q)
  <2> TAKE k \in DOMAIN all
  <2> DEFINE l == Rows(q.from)[pair[k][1]]
             r == Rows(q.join.schema)[pair[k][2]]
  <2>1. /\ pair[k] \in KeyPairs(q)
        /\ pair[k][1] \in DOMAIN Rows(q.from) /\ pair[k][2] \in DOMAIN Rows(q.join.schema)
    BY <1>3 DEF KeyPairs
  <2>2. all[k] = MergedData(l, r, q.join.right.alias)
    BY <1>2 DEF MergedPair
  <2>3. EvaluateWhere(q.where, Resolved(q.join, fields, MergedData(l, r, q.join.right.alias)))
          <=> EvaluateWhere(q.where, MergedData(MergedData(l, l, q.from), r, q.join.schema))
    BY <2>1, ResolvedIsQualified
  <2> HIDE DEF all, fields
  <2>4. k \in holds <=> EvaluateWhere(q.where, Resolved(q.join, fields, all[k]))
    OBVIOUS
  <2>5. pair[k] \in Answers(q)
          <=> EvaluateWhere(q.where, MergedData(MergedData(l, l, q.from), r, q.join.schema))
    BY <2>1 DEF Answers
  <2> QED BY <2>2, <2>3, <2>4, <2>5
<1>5. holds \in SUBSET DOMAIN all
  OBVIOUS
<1> HIDE DEF holds, all
<1>6. ExecuteJoin(e, q) = Page(Sorted(Projected(kept, <<>>), JsBefore(q.orderBy, Projected(kept, <<>>))), Unset, Unset)
  BY DEF ExecuteJoin, JsPage, JoinFilter, holds, all
<1>7. PICK f : Renames(kept, all, holds, f)
  BY <1>1, <1>5, KeptRenames
<1> HIDE DEF kept
<1>8. IsList(kept)
  BY <1>7 DEF Renames
<1>9. Projected(kept, <<>>) = kept
  <2>1. kept = [i \in DOMAIN kept |-> kept[i]]
    BY <1>8 DEF IsList
  <2> QED BY <2>1 DEF Projected, Project
<1>10. /\ f \in [DOMAIN kept -> holds] /\ \A k \in DOMAIN kept : kept[k] = all[f[k]]
       /\ \A k, n \in DOMAIN kept : f[k] = f[n] => k = n
       /\ \A i \in holds : \E k \in DOMAIN kept : f[k] = i
  BY <1>7 DEF Renames, Bijection, Injection, Surjection, IsInjective
<1>11. ScalarRows(kept)
  <2> SUFFICES ASSUME NEW k \in DOMAIN kept
               PROVE  \A x \in DOMAIN kept[k] : kept[k][x] \in ScalarValue
    BY DEF ScalarRows
  <2>1. f[k] \in DOMAIN all /\ pair[f[k]] \in KeyPairs(q)
    BY <1>3, <1>5, <1>10
  <2>2. kept[k] = MergedPair(q, pair[f[k]])
    BY <1>2, <1>10, <2>1
  <2> QED BY <2>1, <2>2, MergedPairsAreFlat
<1>12. StrictWeak(before, DOMAIN kept)
  BY <1>11, JoinOrderIsStrictWeak
<1>13. Cardinality(DOMAIN kept) = Len(kept) /\ Len(kept) \in Nat /\ DOMAIN kept = 1..Len(kept)
  BY <1>8, <1>12, SortedIsArranged, ListsHaveFiniteDomains
<1>14. PICK g : Arranges(rows, kept, DOMAIN kept, Stably(before, DOMAIN kept), g)
  BY <1>8, <1>12, SortedIsArranged
<1>15. Renames(rows, kept, DOMAIN kept, g)
  BY <1>14, ArrangedRenames
<1>16. IsList(rows) /\ Page(rows, Unset, Unset) = rows
  <2> HIDE DEF rows
  <2> QED BY <1>15, PageOfList DEF Renames
<1>17. ExecuteJoin(e, q) = rows
  BY <1>6, <1>9, <1>16
<1> HIDE DEF rows
<1>18. /\ g \in [DOMAIN rows -> DOMAIN kept] /\ \A k \in DOMAIN rows : rows[k] = kept[g[k]]
       /\ \A k, n \in DOMAIN rows : g[k] = g[n] => k = n
       /\ \A i \in DOMAIN kept : \E k \in DOMAIN rows : g[k] = i
  BY <1>15 DEF Renames, Bijection, Injection, Surjection, IsInjective
<1> DEFINE final == [k \in DOMAIN rows |-> pair[f[g[k]]]]
<1>19. \A k \in DOMAIN rows : /\ g[k] \in DOMAIN kept /\ f[g[k]] \in holds /\ f[g[k]] \in DOMAIN all
                              /\ final[k] = pair[f[g[k]]] /\ final[k] \in Answers(q)
  BY <1>4, <1>5, <1>10, <1>18
<1>20. \A k \in DOMAIN rows : rows[k] = MergedPair(q, final[k])
  BY <1>2, <1>10, <1>18, <1>19
<1>21. final \in [DOMAIN rows -> Answers(q)]
  BY <1>19
<1> HIDE DEF final
<1>22. \A k, n \in DOMAIN rows : final[k] = final[n] => k = n
  BY <1>3, <1>10, <1>18, <1>19
<1>23. \A p \in Answers(q) : \E k \in DOMAIN rows : final[k] = p
  <2> TAKE p \in Answers(q)
  <2>1. PICK i \in DOMAIN all : pair[i] = p
    BY <1>3 DEF Answers
  <2>2. i \in holds
    BY <1>4, <2>1
  <2>3. PICK n \in DOMAIN kept : f[n] = i
    BY <1>10, <2>2
  <2>4. PICK k \in DOMAIN rows : g[k] = n
    BY <1>18
  <2> QED BY <1>19, <2>1, <2>3, <2>4
<1>24. final \in Bijection(DOMAIN rows, Answers(q))
  BY <1>21, <1>22, <1>23 DEF Bijection, Injection, Surjection, IsInjective
<1>25. ASSUME NEW p \in JsBefore(q.orderBy, rows)
       PROVE  p[1] < p[2]
  <2>1. p[1] \in DOMAIN rows /\ p[2] \in DOMAIN rows /\ p = <<p[1], p[2]>>
    BY DEF JsBefore
  <2>2. g[p[1]] \in DOMAIN kept /\ g[p[2]] \in DOMAIN kept
        /\ rows[p[1]] = kept[g[p[1]]] /\ rows[p[2]] = kept[g[p[2]]]
    BY <1>18, <2>1
  <2>3. <<g[p[1]], g[p[2]]>> \in before
    BY <2>1, <2>2 DEF JsBefore
  <2> HIDE DEF before
  <2>4. /\ <<g[p[1]], g[p[2]]>> \in Stably(before, DOMAIN kept)
        /\ g[p[1]] # g[p[2]]
    BY <1>12, <2>2, <2>3 DEF Stably, StrictWeak
  <2>5. DOMAIN rows = 1..Len(kept)
    <3>1. Len(rows) = Len(kept)
      BY <1>13, <1>14 DEF Arranges
    <3> QED BY <1>16, <3>1, ListsHaveFiniteDomains
  <2>6. p[1] <= p[2]
    BY <1>13, <1>14, <2>1, <2>4, <2>5 DEF Arranges
  <2> QED BY <1>13, <2>1, <2>4, <2>5, <2>6
<1> QED BY <1>16, <1>17, <1>20, <1>24, <1>25

(* A join by keys without projection or paging answers the relational join: *)
(* every pair with the same key the clause accepts, once, in order          *)
(* (executeJoinPlan, remapWhere, sortEntities).                             *)
THEOREM JoinsAreRelational == Spec => []JoinIsRelational
<1>1. IsExecuted => JoinIsRelational
  <2> DEFINE q == Asked
             rows == ExecuteJoin(engine, q)
             pairs == {p \in (DOMAIN Rows(q.from)) \X (DOMAIN Rows(q.join.schema)) :
                         /\ Field(Rows(q.from)[p[1]], q.join.left.field)
                              = Field(Rows(q.join.schema)[p[2]], q.join.right.field)
                         /\ EvaluateWhere(q.where, MergedData(MergedData(Rows(q.from)[p[1]], Rows(q.from)[p[1]], q.from),
                                                              Rows(q.join.schema)[p[2]], q.join.schema))}
  <2> SUFFICES ASSUME IsExecuted, Answered, q.kind = "select", q.join # NoJoin, q.select = <<>>,
                      q.limit = Unset, q.offset = Unset, KeyJoin(q)
               PROVE  /\ Len(answer.rows) = Cardinality(pairs)
                      /\ {answer.rows[i] : i \in DOMAIN answer.rows} = {MergedPair(q, p) : p \in pairs}
                      /\ \A p \in JsBefore(q.orderBy, answer.rows) : p[1] < p[2]
    BY DEF JoinIsRelational, MergedPair
  <2>0. engine \in Engines
    BY DEF IsExecuted
  <2>1. IsQuery(q) /\ q.where \in Clauses /\ answer = ExecutePlan(engine, q)
    BY AnsweredQueries
  <2>2. answer.rows = rows
    BY <2>1 DEF ExecutePlan, Listed, Answered, Refused
  <2>3. pairs = Answers(q)
    BY DEF Answers, KeyPairs, SameKey
  <2> HIDE DEF q, rows, pairs
  <2>4. /\ IsList(rows)
        /\ \E pair \in Bijection(DOMAIN rows, Answers(q)) :
             \A k \in DOMAIN rows : rows[k] = MergedPair(q, pair[k])
        /\ \A p \in JsBefore(q.orderBy, rows) : p[1] < p[2]
    BY <2>0, <2>1, JoinAnswers DEF rows
  <2>5. PICK pair \in Bijection(DOMAIN rows, Answers(q)) :
               \A k \in DOMAIN rows : rows[k] = MergedPair(q, pair[k])
    BY <2>4
  <2>6. Cardinality(Answers(q)) = Len(rows)
    <3>1. DOMAIN rows = 1..Len(rows) /\ Len(rows) \in Nat /\ IsFiniteSet(DOMAIN rows)
      BY <2>4, ListsHaveFiniteDomains
    <3>2. Cardinality(1..Len(rows)) = Len(rows)
      BY <3>1, FS_Interval
    <3>3. Cardinality(DOMAIN rows) = Cardinality(Answers(q))
      <4>1. ExistsBijection(DOMAIN rows, Answers(q))
        BY <2>5 DEF ExistsBijection
      <4> QED BY <3>1, <4>1, FS_Bijection
    <3> QED BY <3>1, <3>2, <3>3
  <2>7. {rows[i] : i \in DOMAIN rows} = {MergedPair(q, p) : p \in Answers(q)}
    <3>1. /\ pair \in [DOMAIN rows -> Answers(q)]
          /\ \A p \in Answers(q) : \E k \in DOMAIN rows : pair[k] = p
      BY DEF Bijection, Injection, Surjection
    <3> QED BY <2>5, <3>1
  <2> QED BY <2>2, <2>3, <2>4, <2>6, <2>7
<1> QED BY <1>1, AnswersAreExecuted, PTL

-----------------------------------------------------------------------------
(* Texts are read back.                                                     *)

ReadInv == text = <<>> \/ (text \in Texts /\ parsed = ParseQuery(text))

LEMMA ParsedIsTheTexts == Spec => []ReadInv
<1>1. Init => ReadInv
  BY DEF Init, ReadInv
<1>2. ReadInv /\ [Next]_vars => ReadInv'
  BY DEF ReadInv, Next, ExecuteQuery, vars
<1> QED BY <1>1, <1>2, PTL DEF Spec

(* A query's text is read as that query, and any text the parser takes is   *)
(* read as the query another text prints; the flat conjunction of the       *)
(* legacy form means what the where clause means (parseQuery,               *)
(* toLegacyParsedQuery).                                                    *)
THEOREM TextsReadBack == Spec => []ReadsBack
<1>1. ReadInv => ReadsBack
  <2> SUFFICES ASSUME ReadInv, text # <<>> PROVE ReadsBack
    BY DEF ReadsBack
  <2>1. /\ text \in Texts /\ parsed = ParseQuery(text) /\ IsText(text) /\ text \in Seq(Lexeme)
        /\ parsed.at # 0 => parsed.node.where \in Clauses
    BY TextAssumption DEF ReadInv, IsText
  <2>2. ASSUME NEW q \in Queries, text = QueryText(q)
        PROVE  parsed.at # 0 /\ parsed.node = q
    <3>1. IsQuery(q) /\ q.where \in Clauses
      BY QueriesAssumption
    <3>2. parsed = Found(q, Len(QueryText(q)) + 1)
      BY <2>1, <2>2, <3>1, QueriesReadBack
    <3>3. Len(text) \in Nat /\ Len(text) + 1 # 0
      BY <2>1
    <3> QED BY <2>2, <3>2, <3>3, Results
  <2>3. text \in Printed => parsed.at # 0 /\ Asked \in Queries /\ QueryText(Asked) = text
    BY <2>2 DEF Printed, Asked
  <2>4. Unreadable(text) => parsed.at = 0
    BY <2>1, UnreadableTextsRefused
  <2>5. ASSUME parsed.at # 0
        PROVE  /\ ParseQuery(QueryText(Asked)) = Found(Asked, Len(QueryText(Asked)) + 1)
               /\ SaysTheSame(Asked, LegacyQuery(Asked))
    <3>1. IsQuery(Asked) /\ Asked.where \in Clauses
      BY <2>1, <2>5, ParserAnswersQueries DEF Asked
    <3> QED BY <3>1, QueriesReadBack, LegacySaysTheSame
  <2> QED BY <2>3, <2>4, <2>5 DEF ReadsBack
<1> QED BY <1>1, ParsedIsTheTexts, PTL
=============================================================================
