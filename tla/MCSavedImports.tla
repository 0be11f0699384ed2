--------------------------- MODULE MCSavedImports ---------------------------
(* Small instances of SavedImports.                                         *)
EXTENDS SavedImports, TLC

CONSTANTS r1, r2, t1, t2, d1, d2, s1

MCSymmetry == Permutations(Requests) \cup Permutations(Ticks)
=============================================================================
