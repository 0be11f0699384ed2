-------------------------- MODULE QueryConditions --------------------------
(***************************************************************************)
(* One condition of a where clause, read in the two places the code reads  *)
(* it: in memory (evaluateCondition in storage/plan-executor.ts) and as    *)
(* the SQL text whereExprToSqlClauses compiles it to.  A scan applies both *)
(* one after the other, COUNT applies the SQL alone, so whether they agree *)
(* decides whether a query counts the rows it lists.  They often do not:   *)
(* SQL has its own names, texts, orders and searches, given by constants.  *)
(*                                                                         *)
(* A value is tagged with its JSON type.  Numbers keep their value;        *)
(* strings are ranks in JavaScript's order, the empty string being 0.  An  *)
(* entity's data maps field names to values; a name is the sequence of its *)
(* dot-separated parts.  A place is "memory" or an engine.                 *)
(***************************************************************************)
EXTENDS Integers, Sequences

CONSTANTS
  Substring,      \* pairs <<s, t>> of string ranks: s has t as a part, in any case
  Wild,           \* the strings with a character that is not literal in LIKE
  NonAscii,       \* the strings with a letter that is not ASCII
  Likes(_),       \* engine -> pairs <<s, t>>: s LIKE '%t%', for t in Wild or
                  \* one of the two in NonAscii
  Weight(_, _),   \* engine, string -> its place in the engine's collation
  Spelling(_, _), \* place, number or null -> the string it is written as
  Numerals(_),    \* place -> pairs <<s, n>>: the string s is read as the number n
  Stripped(_)     \* field -> the field without what is not [a-zA-Z0-9_]

ASSUME SubstringAssumption == Substring \subseteq Nat \X Nat

ASSUME NumeralsAssumption ==
  \A p \in {"memory", "postgres"} : Numerals(p) \subseteq Nat \X Int

Number(n) == [t |-> "number", v |-> n]
String(s) == [t |-> "string", v |-> s]
Null      == [t |-> "null", v |-> 0]
Undefined == [t |-> "undefined", v |-> 0]

NumberValue == [t : {"number"}, v : Int]
StringValue == [t : {"string"}, v : Nat]
ScalarValue == NumberValue \cup StringValue \cup {Null}

Orderings == {"<", ">", "<=", ">="}

(* data[field] of a JavaScript object: undefined when the key is absent.   *)
Field(data, f) == IF f \in DOMAIN data THEN data[f] ELSE Undefined

Populated(x) == x.t \in {"number", "string"}

TextOf(place, x) == IF x.t = "string" THEN x.v ELSE Spelling(place, x)

NumbersOf(place, x) ==
  IF x.t = "number" THEN {x.v}
  ELSE IF x.t = "string" THEN {p[2] : p \in {q \in Numerals(place) : q[1] = x.v}}
  ELSE {}

(* A comparison, given which operand precedes the other.                   *)
Test(op, same, before, after) ==
  \/ op = "==" /\ same
  \/ op = "!=" /\ ~same
  \/ op = "<"  /\ before
  \/ op = ">"  /\ after
  \/ op = "<=" /\ ~after
  \/ op = ">=" /\ ~before

Compare(op, a, b) == Test(op, a = b, a < b, b < a)

-----------------------------------------------------------------------------
(* In memory.                                                              *)

HasPart(hay, needle) ==
  needle = 0 \/ hay = needle \/ <<hay, needle>> \in Substring

(* JavaScript's relational operators: two strings by order, all else by    *)
(* number, null being 0; what is no number is in no relation.              *)
JsNumbers(x) == IF x = Null THEN {0} ELSE NumbersOf("memory", x)

JsCompare(op, x, y) ==
  IF x.t = "string" /\ y.t = "string" THEN Compare(op, x.v, y.v)
  ELSE \E a \in JsNumbers(x), b \in JsNumbers(y) : Compare(op, a, b)

(* String(value ?? "")                                                     *)
JsText(x) == IF Populated(x) THEN TextOf("memory", x) ELSE 0

(* evaluateCondition.  An operator outside the list (the parser also lets  *)
(* a single = through) is false.                                           *)
EvaluateCondition(c, data) ==
  LET x == Field(data, c.field)
  IN  \/ c.op = "exists" /\ Populated(x) /\ x # String(0)
      \/ c.op = "in" /\ \E i \in DOMAIN c.value : x = c.value[i]
      \/ c.op = "==" /\ (x = c.value \/ (c.value = Null /\ x = Undefined))
      \/ c.op = "!=" /\ x # c.value
      \/ c.op \in Orderings /\ JsCompare(c.op, x, c.value)
      \/ c.op = "contains" /\ HasPart(JsText(x), JsText(c.value))

-----------------------------------------------------------------------------
(* In SQL.                                                                 *)

(* The name under which SQL reads a field: a scan of SQLite takes it as it *)
(* stands, everything else drops the characters a name should not have.    *)
SqlName(e, statement, f) == IF e = "sqlite" /\ statement = "scan" THEN f ELSE Stripped(f)

(* How the engines rank JSON types: NULL first in SQLite, an absent key    *)
(* last and jsonb null < string < number in PostgreSQL.                    *)
Rank(e, x) ==
  CASE x.t = "undefined" -> IF e = "sqlite" THEN 0 ELSE 3
    [] x.t = "null"      -> 0
    [] x.t = "number"    -> IF e = "sqlite" THEN 1 ELSE 2
    [] x.t = "string"    -> IF e = "sqlite" THEN 2 ELSE 1

Within(e, x) == IF x.t = "string" THEN Weight(e, x.v) ELSE x.v

Precedes(e, x, y) ==
  Rank(e, x) < Rank(e, y) \/ (Rank(e, x) = Rank(e, y) /\ Within(e, x) < Within(e, y))

(* A field's value against a literal: a JSON null or an absent key reads   *)
(* NULL, and a comparison with NULL selects nothing.  SQLite compares JSON *)
(* values, a number before any text; PostgreSQL compares the text of the   *)
(* value with a text, and that text cast to a number with a number.        *)
SqlCompare(e, op, x, y) ==
  /\ Populated(x)
  /\ Populated(y)
  /\ IF e = "sqlite" THEN Test(op, x = y, Precedes(e, x, y), Precedes(e, y, x))
     ELSE IF y.t = "number" THEN \E a \in NumbersOf(e, x) : Compare(op, a, y.v)
     ELSE LET a == TextOf(e, x)
          IN  Test(op, a = y.v, Weight(e, a) < Weight(e, y.v), Weight(e, y.v) < Weight(e, a))

(* LIKE '%needle%', ILIKE in PostgreSQL.  Nothing escapes the needle's     *)
(* wildcards, and what letters outside ASCII match is the engine's affair. *)
Like(e, hay, needle) ==
  IF needle # 0 /\ (needle \in Wild \cup NonAscii \/ hay \in NonAscii)
  THEN <<hay, needle>> \in Likes(e)
  ELSE HasPart(hay, needle)

(* The clause compiled for a condition other than exists.  A null literal  *)
(* becomes IS NULL under == and IS NOT NULL under any other operator, and  *)
(* the text "null" in a search.                                            *)
SqlCondition(e, statement, c, data) ==
  LET x == Field(data, SqlName(e, statement, c.field))
  IN  \/ c.op = "in" /\ \E i \in DOMAIN c.value : SqlCompare(e, "==", x, c.value[i])
      \/ c.op = "contains" /\ Populated(x) /\ Like(e, TextOf(e, x), TextOf("memory", c.value))
      \/ c.op = "==" /\ c.value = Null /\ ~Populated(x)
      \/ c.op \in Orderings \cup {"!=", "="} /\ c.value = Null /\ Populated(x)
      \/ c.op \in Orderings \cup {"==", "!="} /\ c.value # Null /\ SqlCompare(e, c.op, x, c.value)

(* There is no SQL for a single =, so the statement does not parse.        *)
NotSql(c) == c.op = "=" /\ c.value # Null

(* PostgreSQL casts the field's text to a number and raises an error where *)
(* it is none.                                                             *)
CastRaises(e, statement, c, data) ==
  LET x == Field(data, SqlName(e, statement, c.field))
      compared == IF c.op = "in" THEN {c.value[i] : i \in DOMAIN c.value}
                  ELSE IF c.op \in Orderings \cup {"==", "!="} THEN {c.value}
                  ELSE {}
  IN  /\ e = "postgres"
      /\ \E y \in compared : y.t = "number"
      /\ Populated(x) /\ NumbersOf(e, x) = {}

-----------------------------------------------------------------------------
(* Where the two agree.                                                    *)

OrderedAlike(e, x, y) ==
  x.t = "string" => /\ x.v < y.v <=> Weight(e, x.v) < Weight(e, y.v)
                    /\ y.v < x.v <=> Weight(e, y.v) < Weight(e, x.v)

WrittenAlike(e, x) == TextOf(e, x) = TextOf("memory", x)

(* A condition SQL reads under its own name, whose literals have the type  *)
(* its field holds in data; that orders by no null and orders texts which  *)
(* the engine's collation puts in JavaScript's order; and that searches,   *)
(* without wildcards and in ASCII, for a literal other than null.          *)
Fits(e, statement, c, data) ==
  LET x == Field(data, c.field)
      SameType(y) == y \in ScalarValue /\ (Populated(x) /\ y # Null => x.t = y.t)
  IN  /\ SqlName(e, statement, c.field) = c.field
      /\ x \in ScalarValue \cup {Undefined}
      /\ \/ c.op = "in" /\ \A i \in DOMAIN c.value : SameType(c.value[i])
         \/ c.op \in {"==", "!="} /\ SameType(c.value)
         \/ /\ c.op \in Orderings /\ SameType(c.value) /\ c.value # Null
            /\ OrderedAlike(e, x, c.value)
         \/ /\ c.op = "contains"
            /\ c.value \in NumberValue \cup StringValue
            /\ JsText(c.value) \notin Wild \cup NonAscii
            /\ JsText(x) \notin NonAscii
            /\ Populated(x) => WrittenAlike(e, x)

(* SQL selects no row on a NULL but by a null test.  In memory != accepts  *)
(* an absent value, <= and the like take null for 0, and a null in a list  *)
(* or an empty search string finds it: such conditions are not plain.      *)
Plain(c, d) == Populated(Field(d, c.field)) \/ c.op = "==" \/ ~EvaluateCondition(c, d)
=============================================================================
