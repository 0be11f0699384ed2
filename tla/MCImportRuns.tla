---------------------------- MODULE MCImportRuns ----------------------------
(* Small instances of ImportRuns.                                           *)
EXTENDS ImportRuns

CONSTANTS p1, p2, d1, r1, a1, a2

(* A file with rows of both kinds and a bad one, a dry run, a file of bad   *)
(* rows.                                                                    *)
MCFiles ==
  {[dry |-> FALSE, valid |-> {"matched", "new"}, bad |-> TRUE],
   [dry |-> TRUE, valid |-> {"new"}, bad |-> FALSE],
   [dry |-> FALSE, valid |-> {}, bad |-> TRUE]}

MCDatasetOf == [r \in Runs |-> d1]
=============================================================================
