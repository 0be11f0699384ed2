--------------------------- MODULE MCSqliteStore ---------------------------
(* Payloads that hold in the natural-key field a text, a number, a boolean, *)
(* the text of the boolean's stored form, an array of one text, an array of *)
(* one number, and nothing.                                                 *)
EXTENDS SqliteStore, TLC

Declared(type, required) ==
  [type |-> type, required |-> required, multiple |-> FALSE, to |-> NoTarget]

MCDefinitions == {[f \in FieldNames |-> Declared("string", f = "a")]}

Holds(kind, text) == [kind |-> kind, text |-> text, json |-> text]

MCKeyValue == [d \in Data |->
  CASE d = "k1"   -> Holds("text", "k")
    [] d = "n7"   -> Holds("number", "7")
    [] d = "yes"  -> Holds("boolean", "true")
    [] d = "one"  -> Holds("text", "1")
    [] d = "strs" -> [kind |-> "nested", text |-> "1", json |-> "['1']"]
    [] d = "nums" -> [kind |-> "nested", text |-> "1", json |-> "[1]"]
    [] d = "plain" -> Holds("missing", "")]

(* The key field's name consists of letters, digits and underscores, or     *)
(* names no field any more once its other characters are gone.              *)
MCReadMangled == [d \in Data |-> Holds("missing", "")]

MCFiles == {{"k1"}, {"k1", "n7"}, {"yes"}, {"one", "n7"}, {"strs", "nums"}}

Symmetric == Permutations(Requests) \cup Permutations(Ids) \cup Permutations(Registrars)
=============================================================================
