----------------------------- MODULE QueryTexts -----------------------------
(***************************************************************************)
(* What a text means: every query has a text of its own, printed here with *)
(* parentheses where precedence or grouping needs them, and the parser     *)
(* must read it as that query.                                             *)
(***************************************************************************)
EXTENDS QueryEngine

CONSTANT Queries \* queries clients have in mind

ASSUME QueriesAssumption ==
  \A q \in Queries : IsQuery(q) /\ q.where \in Clauses

(* Condition and WhereExpr of query/ast.ts, as the parser builds them.     *)
IsCondition(c) ==
  /\ c = Condition(c.field, c.op, c.value)
  /\ IsName(c.field)
  /\ \/ c.op = "exists" /\ c.value = Null
     \/ c.op = "in" /\ c.value \in Seq(ScalarValue) \ {<<>>}
     \/ c.op \in Operators \cup {"contains"} /\ c.value \in ScalarValue

ASSUME ShapeAssumption ==
  \A e \in Clauses :
    \/ e = NoWhere
    \/ e.type = "condition" /\ IsCondition(e)
    \/ e.type = "not" /\ e = [type |-> "not", expr |-> e.expr]
    \/ /\ e.type \in {"and", "or"} /\ e = [type |-> e.type, exprs |-> e.exprs]
       /\ e.exprs \in Seq(Clauses) /\ Len(e.exprs) > 1

ValueText(v) == CASE v.t = "number" -> Digits(v.v)
                  [] v.t = "string" -> [lex |-> "quoted", text |-> v.v]
                  [] OTHER -> Word("null")

Comma == Symbol(",")

OpText(op) == IF op = "contains" THEN Word(op) ELSE Symbol(op)

Separated(texts, separator) ==
  LET separated[i \in DOMAIN texts] ==
        IF i = Len(texts) THEN texts[i] ELSE texts[i] \o <<separator>> \o separated[i + 1]
  IN  separated[1]

ConditionText(c) ==
  <<Name(c.field)>> \o
    CASE c.op = "exists" -> <<Word("exists")>>
      [] c.op = "in" -> <<Word("in"), Symbol("(")>>
                          \o Separated([i \in DOMAIN c.value |-> <<ValueText(c.value[i])>>], Comma)
                          \o <<Symbol(")")>>
      [] OTHER -> <<OpText(c.op), ValueText(c.value)>>

Parenthesised(t) == <<Symbol("(")>> \o t \o <<Symbol(")")>>

WhereText(e) ==
  LET where[x \in Clauses] ==
        LET operand(y) == IF y.type \in {"or", x.type} THEN Parenthesised(where[y]) ELSE where[y]
        IN  CASE x.type = "condition" -> ConditionText(x)
              [] x.type = "not" -> <<Word("not")>> \o (IF x.expr.type = "condition" THEN where[x.expr]
                                                       ELSE Parenthesised(where[x.expr]))
              [] x.type \in {"and", "or"} -> Separated([i \in DOMAIN x.exprs |-> operand(x.exprs[i])], Word(x.type))
              [] OTHER -> <<>>
  IN  where[e]

Unless(absent, words) == IF absent THEN <<>> ELSE words

HeadText(q) == <<Word(IF q.kind = "aggregate" THEN "count" ELSE "from"), Name(q.from)>>

JoinText(q) ==
  Unless(q.join = NoJoin, <<Word("join"), Name(q.join.schema), Word("on"),
                            Name(q.join.left.alias \o q.join.left.field), Symbol("="),
                            Name(q.join.right.alias \o q.join.right.field)>>)

SelectText(q) ==
  Unless(q.select = <<>>,
         <<Word("select")>> \o Separated([i \in DOMAIN q.select |-> <<Name(q.select[i])>>], Comma))

WherePart(q) == Unless(q.where = NoWhere, <<Word("where")>> \o WhereText(q.where))

OrderText(q) ==
  Unless(q.orderBy = NoOrder, <<Word("order"), Word("by"), Name(q.orderBy.field), Word(q.orderBy.direction)>>)

LimitText(q)  == Unless(q.limit = Unset, <<Word("limit"), Digits(q.limit)>>)
OffsetText(q) == Unless(q.offset = Unset, <<Word("offset"), Digits(q.offset)>>)

QueryText(q) ==
  HeadText(q) \o JoinText(q) \o SelectText(q) \o WherePart(q) \o OrderText(q) \o LimitText(q) \o OffsetText(q)

Printed == {QueryText(q) : q \in Queries}

(* Texts no query has: one too short, not after not, a limit or an offset  *)
(* without its number or of a count, a parenthesis nobody closes.          *)
Unreadable(t) ==
  \/ Len(t) < 2
  \/ \E i \in 1..Len(t) - 1 : t[i] = Word("not") /\ t[i + 1] = Word("not")
  \/ \E i \in DOMAIN t : /\ t[i] \in {Word("limit"), Word("offset")}
                         /\ i = Len(t) \/ t[i + 1].lex # "digits" \/ t[1] = Word("count")
  \/ \E i \in DOMAIN t : t[i] = Symbol("(") /\ \A k \in i..Len(t) : t[k] # Symbol(")")

(* toLegacyParsedQuery, with flattenWhere: the conditions of a conjunction *)
(* of a query about one schema, or Fail where the code throws.             *)
Flattens(e) ==
  LET flattens[x \in Clauses] ==
        \/ x.type \in {"none", "condition"}
        \/ x.type = "and" /\ \A y \in Children(x) : flattens[y]
  IN  flattens[e]

LegacyQuery(q) ==
  IF q.kind = "aggregate" \/ q.join # NoJoin \/ ~Flattens(q.where) THEN Fail
  ELSE Found([q EXCEPT !.where = Conditions(q.where)], 1)

(* A query's text is read as that query, and any text the parser takes     *)
(* (parseQuery) is read as the query another text prints; those no query   *)
(* has are refused.  The flat conjunction of the legacy form means what    *)
(* the where clause means (toLegacyParsedQuery).                           *)
SaysTheSame(q, legacy) ==
  legacy.at # 0 =>
    \A i \in DOMAIN Rows(q.from) :
      LET d == Rows(q.from)[i]
      IN  EvaluateWhere(q.where, d) = \A c \in legacy.node.where : EvaluateCondition(c, d)

ReadsBack ==
  text # <<>> =>
    /\ text \in Printed => parsed.at # 0 /\ Asked \in Queries /\ QueryText(Asked) = text
    /\ Unreadable(text) => parsed.at = 0
    /\ parsed.at # 0 => /\ ParseQuery(QueryText(Asked)) = Found(Asked, Len(QueryText(Asked)) + 1)
                        /\ SaysTheSame(Asked, LegacyQuery(Asked))
=============================================================================
