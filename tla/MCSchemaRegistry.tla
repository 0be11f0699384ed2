------------------------- MODULE MCSchemaRegistry -------------------------
(* Registrations and deletions that overlap, of definitions that compare as *)
(* compatible, potentially breaking and breaking.                           *)
EXTENDS SchemaRegistry, TLC

Declared(type, required) ==
  [type |-> type, required |-> required, multiple |-> FALSE, to |-> NoTarget]

MCDefinitions ==
  {[f \in FieldNames |-> IF f = "a" THEN Declared("string", TRUE) ELSE NoField],
   [f \in FieldNames |-> Declared("string", f = "a")],
   [f \in FieldNames |-> Declared("string", TRUE)],
   [f \in FieldNames |-> Declared("reference", FALSE)]}

Symmetric == Permutations(Registrars)
=============================================================================
