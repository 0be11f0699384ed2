--------------------------- MODULE MCQuerySamples ---------------------------
(***************************************************************************)
(* Small tables and the queries asked of them: every operator, clauses     *)
(* that nest, every order, page and projection, and a join.                *)
(***************************************************************************)
EXTENDS QueryLanguage, FiniteSetsExt, TLC

n == <<"n">>
s == <<"s">>
r == <<"r">>
id == <<"id">>
m == <<"m">>
ab == <<"ab">>
a_b == <<"a-b">>

MCParts == STRING

(* The strings, in JavaScript's order: 0 is empty, 1 is "1", 2 is "12", 3  *)
(* to 9 are "2" to "8", 10 is "B", 11 is "_", 12 is "a", 13 is "null", 14  *)
(* and 15 are one accented letter, capital and small, which SQLite's LIKE  *)
(* tells apart.  PostgreSQL orders them as a dictionary does.              *)
MCSubstring == {<<2, 1>>, <<2, 3>>, <<14, 15>>, <<15, 14>>}
MCWild == {11}
MCNonAscii == {14, 15}
MCLikes(e) == ((1..15) \X {11}) \cup {<<14, 14>>, <<15, 15>>}
              \cup (IF e = "postgres" THEN {<<14, 15>>, <<15, 14>>} ELSE {})
MCWeight(e, x) ==
  IF e = "sqlite" THEN x
  ELSE CASE x = 11 -> 1 [] x \in 1..9 -> x + 1 [] x = 12 -> 11 [] x = 10 -> 12
         [] x = 13 -> 15 [] x = 14 -> 14 [] x = 15 -> 13 [] OTHER -> 0
MCSpelling(p, x) == CASE x = Null -> 13 [] x.v = 1 -> 1 [] x.v = 12 -> 2 [] OTHER -> x.v + 1
MCNumerals(p) == {<<1, 1>>, <<2, 12>>} \cup {<<k + 1, k>> : k \in 2..8}
                 \cup (IF p = "memory" THEN {<<0, 0>>} ELSE {})
MCStripped(f) == IF f \in {<<"a-b">>, <<"a", "b">>} THEN <<"ab">> ELSE f

MCTables == (<<"city">> :> <<(n :> Number(2)) @@ (s :> String(1)) @@ (r :> String(3)) @@ (m :> String(12)) @@ (a_b :> Number(1)),
                             (n :> Number(1)) @@ (s :> String(2)) @@ (r :> String(4)) @@ (m :> String(14)) @@ (ab :> Number(1)),
                             (n :> Number(1)) @@ (s :> Null) @@ (r :> String(3)) @@ (m :> Number(12)),
                             (n :> Null) @@ (s :> String(1)) @@ (m :> String(10)),
                             (s :> String(2)) @@ (r :> String(5)) @@ (ab :> Number(2))>>)
         @@ (<<"region">> :> <<(id :> String(3)) @@ (n :> Number(7)),
                               (id :> String(4)),
                               (id :> String(6)) @@ (n :> Number(8))>>)

MCConditions == {Condition(n, op, Number(1)) : op \in {"==", "!=", ">", "<="}}
       \cup {Condition(n, op, Null) : op \in {"==", "!="}}
       \cup {Condition(n, "in", <<Number(1), Number(3)>>), Condition(n, "exists", Null),
             Condition(s, "contains", String(1)), Condition(s, "==", String(2)),
             Condition(s, "<", String(2))}
Few == {Condition(n, "==", Number(1)), Condition(s, "contains", String(1)), Condition(n, "exists", Null)}
(* Conditions SQL and memory read differently, in some row or some engine. *)
Odd == {Condition(m, "contains", String(11)), Condition(m, "contains", String(15)),
        Condition(n, "contains", String(1)), Condition(m, "contains", Number(1)), Condition(s, "contains", Null),
        Condition(m, "<", String(12)), Condition(m, ">=", Number(12)), Condition(s, "==", Number(1)),
        Condition(s, "<", Null), Condition(s, "=", Null), Condition(n, "=", Number(1)),
        Condition(a_b, "==", Number(1)), Condition(<<"a", "b">>, "==", Null),
        Condition(m, "in", <<String(10), Null, Number(12)>>)}
Not(E) == {[type |-> "not", expr |-> e] : e \in E}
Both(E, F) == {[type |-> w, exprs |-> <<e, f>>] : w \in {"and", "or"}, e \in E, f \in F}
MCWheres == LET E1 == MCConditions \cup Not(MCConditions)
                F1 == Few \cup Not(Few)
                F2 == Both(F1, F1)
            IN  E1 \cup Odd \cup Not(Odd) \cup Both(Odd, Few) \cup Both(E1, E1) \cup Not(F2) \cup Both(Few, F2) \cup Both(F2, Few)

OrdersBy(fields) == {NoOrder} \cup {[field |-> f, direction |-> d] : f \in fields, d \in {"asc", "desc"}}
Shapes(froms, wheres, orders) ==
  {[kind |-> "select", from |-> <<"city">>, join |-> j, select |-> sel, where |-> w,
    orderBy |-> o, limit |-> l, offset |-> k] :
      j \in froms, sel \in {<<>>, <<n>>, <<s, n>>}, w \in wheres, o \in orders,
      l \in {Unset, 0, 2}, k \in {Unset, 0, 1}}
CityRegion == [schema |-> <<"region">>, left |-> [alias |-> <<"city">>, field |-> r],
               right |-> [alias |-> <<"region">>, field |-> id]]
JoinWheres == {NoWhere, Condition(<<"city", "n">>, "==", Number(1)),
               Condition(<<"region", "n">>, ">", Number(6)),
               [type |-> "not", expr |-> Condition(<<"region", "n">>, "exists", Null)]}

AllQueries == {[Query(k, <<"city">>) EXCEPT !.where = w] : k \in {"select", "aggregate"}, w \in MCWheres}
       \cup Shapes({NoJoin}, {NoWhere} \cup Few \cup Not(Few), OrdersBy({n, s, m, a_b}))
       \cup Shapes({CityRegion}, JoinWheres, OrdersBy({n, s}))

(* A single = is let through, and holds of no row.                         *)
LooseWhere == [type |-> "and", exprs |-> <<Condition(n, "exists", Null), Condition(s, "=", Null)>>]

(* The clauses asked with their parts: they nest three deep.  TLC keeps the *)
(* value of a definition, but not of a constant that stands for it.        *)
WithParts(C) == C \cup UNION {Children(e) : e \in C}
AllClauses == WithParts(WithParts(WithParts(MCWheres \cup JoinWheres \cup {LooseWhere})))
MCClauses == AllClauses
MCQueries == AllQueries

RECURSIVE Nesting(_)
Nesting(e) == IF Children(e) = {} THEN 0 ELSE 1 + Max({Nesting(x) : x \in Children(e)})
=============================================================================
