--------------------------- MODULE QueryLanguage ---------------------------
(***************************************************************************)
(* The query language of query/parser.ts: lexemes to tokens, and the       *)
(* recursive descent from tokens to the AST of query/ast.ts.  A text is a  *)
(* sequence of lexemes (how characters group into words, numbers and       *)
(* quoted strings is left out); a word is the sequence of its dot-         *)
(* separated parts, in lower case where it is a keyword.  A loop or a      *)
(* recursion of the parser is a function on the positions of the tokens.   *)
(***************************************************************************)
EXTENDS QueryAst

Keywords == {"from", "select", "where", "and", "or", "not", "in", "exists",
             "order", "by", "limit", "offset", "asc", "desc", "join", "on", "count"}

Operators == {"==", "!=", ">=", "<=", ">", "<", "="}

CONSTANT Parts \* what can stand between the dots of a word

ASSUME PartsAssumption == Keywords \cup {"null", "contains"} \subseteq Parts

(* What tokenize can meet.  No value is a boolean here, so true and false  *)
(* are not among the words.                                                *)
Lexeme == [lex : {"word"}, text : Seq(Parts) \ {<<>>, <<"true">>, <<"false">>}]
          \cup [lex : {"symbol"}, text : Operators \cup {"(", ")", ","}]
          \cup [lex : {"quoted"}, text : Nat]
          \cup [lex : {"digits"}, text : Int]

Word(w)   == [lex |-> "word", text |-> <<w>>]
Name(f)   == [lex |-> "word", text |-> f]
Symbol(c) == [lex |-> "symbol", text |-> c]
Digits(n) == [lex |-> "digits", text |-> n]

SymbolKind(c) == CASE c = "(" -> "lparen" [] c = ")" -> "rparen" [] c = "," -> "comma" [] OTHER -> "op"

Token(l) ==
  CASE l.lex = "quoted" -> [kind |-> "string", value |-> String(l.text)]
    [] l.lex = "digits" -> [kind |-> "number", value |-> Number(l.text)]
    [] l.lex = "symbol" -> [kind |-> SymbolKind(l.text), value |-> l.text]
    [] l = Word("null") -> [kind |-> "null", value |-> Null]
    [] l = Word("contains") -> [kind |-> "op", value |-> "contains"]
    [] l \in {Word(k) : k \in Keywords} -> [kind |-> "keyword", value |-> l.text[1]]
    [] OTHER -> [kind |-> "ident", value |-> l.text]

Tokenize(text) == [i \in 1..Len(text) |-> Token(text[i])] \o <<[kind |-> "eof", value |-> ""]>>

Match(ts, p, kind, value) == ts[p].kind = kind /\ ts[p].value = value
Keyword(ts, p, word) == Match(ts, p, "keyword", word)

(* One or more items of the given token kinds, separated by commas: as     *)
(* many as commas stand at every second place.                             *)
Commas(ts, p) ==
  LET comma(k) == p + 2 * k - 1 \in DOMAIN ts /\ ts[p + 2 * k - 1].kind = "comma"
  IN  CHOOSE k \in 0..Len(ts) : ~comma(k + 1) /\ \A i \in 1..k : comma(i)

Items(kinds, ts, p, n) ==
  IF \E i \in 1..n : ts[p + 2 * (i - 1)].kind \notin kinds THEN Fail
  ELSE Found([i \in 1..n |-> ts[p + 2 * (i - 1)].value], p + 2 * n - 1)

ParseList(kinds, ts, p) == Items(kinds, ts, p, Commas(ts, p) + 1)

ValueKinds == {"string", "number", "null"}

Condition(field, op, value) == [type |-> "condition", field |-> field, op |-> op, value |-> value]

Closed(ts, inner) ==
  IF inner.at # 0 /\ ts[inner.at].kind = "rparen" THEN Found(inner.node, inner.at + 1) ELSE Fail

InList(field, list) == IF list.at = 0 THEN Fail ELSE Found(Condition(field, "in", list.node), list.at)

ParseCondition(ts, p) ==
  IF ts[p].kind # "ident" THEN Fail
  ELSE IF Keyword(ts, p + 1, "exists") THEN Found(Condition(ts[p].value, "exists", Null), p + 2)
  ELSE IF Keyword(ts, p + 1, "in")
  THEN IF ts[p + 2].kind # "lparen" THEN Fail
       ELSE InList(ts[p].value, Closed(ts, ParseList(ValueKinds, ts, p + 3)))
  ELSE IF ts[p + 1].kind = "op" /\ ts[p + 2].kind \in ValueKinds
  THEN Found(Condition(ts[p].value, ts[p + 1].value, ts[p + 2].value), p + 3)
  ELSE Fail

(* parseOrExpr and parseAndExpr are one chain of operands, parseNotExpr    *)
(* and parsePrimaryExpr its leaves.  A chain answers its operands; one     *)
(* operand stands for itself.  What follows not is a primary, so a second  *)
(* not needs parentheses.                                                  *)
Whole(word, chain) ==
  IF chain.at = 0 THEN Fail
  ELSE Found(IF Len(chain.node) = 1 THEN chain.node[1] ELSE [type |-> word, exprs |-> chain.node],
             chain.at)

ParsePrimary(ts, chains, p) ==
  IF ts[p].kind = "lparen" THEN Closed(ts, Whole("or", chains[<<"or", p + 1>>]))
  ELSE ParseCondition(ts, p)

NegatedBare(inner) == inner

Negated(inner) ==
  IF inner.at = 0 THEN Fail ELSE Found([type |-> "not", expr |-> inner.node], inner.at)

ParseNot(ts, chains, p) ==
  IF Keyword(ts, p, "not") THEN Negated(ParsePrimary(ts, chains, p + 1))
  ELSE ParsePrimary(ts, chains, p)

Operand(ts, chains, word, p) ==
  IF word = "or" THEN Whole("and", chains[<<"and", p>>]) ELSE ParseNot(ts, chains, p)

Prepended(node, rest) == IF rest.at = 0 THEN Fail ELSE Found(<<node>> \o rest.node, rest.at)

ChainFrom(ts, chains, word, operand) ==
  IF operand.at = 0 THEN Fail
  ELSE IF Keyword(ts, operand.at, word) THEN Prepended(operand.node, chains[<<word, operand.at + 1>>])
  ELSE Found(<<operand.node>>, operand.at)

Chains(ts) ==
  LET chains[x \in {"or", "and"} \X DOMAIN ts] ==
        ChainFrom(ts, chains, x[1], Operand(ts, chains, x[1], x[2]))
  IN  chains

ParseWhere(ts, p) == Whole("or", Chains(ts)[<<"or", p>>])

(* parseQualifiedField: a name without a dot is alias and field at once.   *)
Qualified(name) == IF Len(name) > 1 THEN [alias |-> <<name[1]>>, field |-> Tail(name)]
                   ELSE [alias |-> name, field |-> name]

ParseJoin(ts, p) ==
  IF /\ ts[p].kind = "ident" /\ Keyword(ts, p + 1, "on") /\ ts[p + 2].kind = "ident"
     /\ Match(ts, p + 3, "op", "=") /\ ts[p + 4].kind = "ident"
  THEN Found([schema |-> ts[p].value, left |-> Qualified(ts[p + 2].value),
              right |-> Qualified(ts[p + 4].value)], p + 5)
  ELSE Fail

ParseOrder(ts, p) ==
  IF ~Keyword(ts, p, "by") \/ ts[p + 1].kind # "ident" THEN Fail
  ELSE IF Keyword(ts, p + 2, "asc") \/ Keyword(ts, p + 2, "desc")
  THEN Found([field |-> ts[p + 1].value, direction |-> ts[p + 2].value], p + 3)
  ELSE Found([field |-> ts[p + 1].value, direction |-> "asc"], p + 2)

ParseNumber(ts, p) ==
  IF ts[p].kind = "number" THEN Found(ts[p].value.v, p + 1) ELSE Fail

(* The clause behind the keyword at p, and the field of the query it sets. *)
(* Those of an aggregate are where clauses only.                           *)
Clause(kind, ts, p) ==
  LET sets(field, parse) == [field |-> field, parse |-> parse]
      select(word) == kind = "select" /\ Keyword(ts, p, word)
  IN  IF Keyword(ts, p, "where") THEN sets("where", ParseWhere(ts, p + 1))
      ELSE IF select("select") THEN sets("select", ParseList({"ident"}, ts, p + 1))
      ELSE IF select("order")  THEN sets("orderBy", ParseOrder(ts, p + 1))
      ELSE IF select("limit")  THEN sets("limit", ParseNumber(ts, p + 1))
      ELSE IF select("offset") THEN sets("offset", ParseNumber(ts, p + 1))
      ELSE sets("where", Fail)

(* What the clauses after one answer, with that one set on the query q     *)
(* unless one of them replaced it.                                         *)
SetBefore(q, clause, rest) ==
  IF rest.at = 0 \/ rest.node[clause.field] # q[clause.field] THEN rest
  ELSE Found([rest.node EXCEPT ![clause.field] = clause.parse.node], rest.at)

ClausesFrom(q, clauses, clause) ==
  IF clause.parse.at = 0 THEN Fail ELSE SetBefore(q, clause, clauses[clause.parse.at])

(* The clauses from p on, in any order, set on the query q.                *)
ParseClauses(ts, q, p) ==
  LET clauses[i \in DOMAIN ts] ==
        IF ts[i].kind = "eof" THEN Found(q, i) ELSE ClausesFrom(q, clauses, Clause(q.kind, ts, i))
  IN  clauses[p]

Joining(q, join) == IF join.at = 0 THEN Fail ELSE Found([q EXCEPT !.join = join.node], join.at)

Opening(ts) ==
  IF ~(Keyword(ts, 1, "from") \/ Keyword(ts, 1, "count")) \/ ts[2].kind # "ident" THEN Fail
  ELSE IF Keyword(ts, 1, "count") THEN Found(Query("aggregate", ts[2].value), 3)
  ELSE IF Keyword(ts, 3, "join") THEN Joining(Query("select", ts[2].value), ParseJoin(ts, 4))
  ELSE Found(Query("select", ts[2].value), 3)

ParseOpened(ts, opening) == IF opening.at = 0 THEN Fail ELSE ParseClauses(ts, opening.node, opening.at)

ParseTokens(ts) == ParseOpened(ts, Opening(ts))

ParseQuery(text) == ParseTokens(Tokenize(text))
=============================================================================
