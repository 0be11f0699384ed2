------------------------------ MODULE QueryAst ------------------------------
(***************************************************************************)
(* What a query is once it is parsed: the AST of query/ast.ts.  A where    *)
(* clause is a condition, a conjunction, a disjunction, a negation, or     *)
(* NoWhere; absent parts of a query have values of their own.              *)
(***************************************************************************)
EXTENDS QueryConditions

Unset   == -1
NoWhere == [type |-> "none"]
NoOrder == [field |-> <<>>, direction |-> "asc"]
NoJoin  == [schema |-> <<>>]

Query(kind, from) ==
  [kind |-> kind, from |-> from, join |-> NoJoin, select |-> <<>>, where |-> NoWhere,
   orderBy |-> NoOrder, limit |-> Unset, offset |-> Unset]

(* What a parse answers: the node and the position after it, or Fail where *)
(* the code throws.                                                        *)
Found(node, at) == [node |-> node, at |-> at]
Fail == Found(NoWhere, 0)

(* The clauses a clause is made of.                                        *)
Children(e) ==
  IF e.type \in {"and", "or"} THEN {e.exprs[i] : i \in DOMAIN e.exprs}
  ELSE IF e.type = "not" THEN {e.expr}
  ELSE {}
=============================================================================
