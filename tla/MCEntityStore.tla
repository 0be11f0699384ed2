--------------------------- MODULE MCEntityStore ---------------------------
(* Small instances of EntityStore: three requests, so that two writers can  *)
(* race over what a third has created.                                      *)
EXTENDS EntityStore, TLC

CONSTANTS q1, q2, q3, e1, e2, e3, e4, e5,
          a1, a2,    \* two payloads with natural key "a"
          b1,        \* a payload with natural key "b"
          n1         \* a payload without natural key

MCKeyOf == [d \in Data |-> CASE d \in {a1, a2} -> "a"
                             [] d = b1 -> "b"
                             [] d = n1 -> NoKey]

MCStates == {"active", "archived"}

MCBatches == {<<a1>>, <<a1, b1>>}

(* The files of a periodic import: they overlap, no file repeats a key      *)
MCFiles == {<<a1>>, <<b1, a2>>, <<n1, a1>>}

(* A file with two rows under one natural key                               *)
MCRepeatedKey == {<<a1, a2>>}

MCSymmetry == Permutations(Requests) \cup Permutations(Ids)

=============================================================================
