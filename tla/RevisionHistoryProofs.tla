----------------------- MODULE RevisionHistoryProofs -----------------------
(***************************************************************************)
(* What RevisionHistory promises is enough: its three properties follow    *)
(* from its steps alone, whatever a state holds besides its revision.      *)
(***************************************************************************)
EXTENDS RevisionHistory, TLAPS

Revisions == \A s \in State : s.rev \in Nat

HistoryInv ==
  /\ history \subseteq State
  /\ RevisionNamesOneState /\ NoGaps /\ PinnedGenuine

LEMMA HistoryInvStep ==
  ASSUME Revisions, HistoryInv, [Advance]_<<history, pinned>>
  PROVE  HistoryInv'
<1>1. CASE UNCHANGED <<history, pinned>>
  BY <1>1 DEF HistoryInv, RevisionNamesOneState, NoGaps, PinnedGenuine
<1>2. CASE Advance
  <2>1. \A s \in history' : s \in State /\ s.rev \in Nat
    BY <1>2 DEF Advance, Revisions
  <2>2. RevisionNamesOneState'
    <3> SUFFICES ASSUME NEW s \in history', NEW t \in history', s.id = t.id, s.rev = t.rev
                 PROVE  s = t
      BY DEF RevisionNamesOneState
    <3>1. CASE s \in history /\ t \in history
      BY <3>1 DEF HistoryInv, RevisionNamesOneState
    <3>2. CASE s \notin history /\ t \notin history
      BY <3>2, <1>2 DEF Advance
    <3>3. ASSUME NEW x \in history', NEW y \in history, x \notin history, x.id = y.id
          PROVE  y.rev < x.rev
      BY <3>3, <1>2 DEF Advance, Follows
    <3>4. CASE s \in history /\ t \notin history
      BY <3>3, <3>4, <2>1
    <3>5. CASE s \notin history /\ t \in history
      BY <3>3, <3>5, <2>1
    <3> QED BY <3>1, <3>2, <3>4, <3>5
  <2>3. NoGaps'
    BY <1>2 DEF Advance, Follows, HistoryInv, NoGaps
  <2> QED
    BY <1>2, <2>1, <2>2, <2>3 DEF Advance, HistoryInv, PinnedGenuine
<1> QED
  BY <1>1, <1>2

(* A revision number never names two states, none is skipped, and a pinned  *)
(* reference reads only what its entity was.                                *)
THEOREM HistoryIsNumbered ==
  ASSUME Revisions
  PROVE  Spec => [](RevisionNamesOneState /\ NoGaps /\ PinnedGenuine)
<1>1. Init => HistoryInv
  BY DEF Init, HistoryInv, RevisionNamesOneState, NoGaps, PinnedGenuine
<1>2. HistoryInv /\ [Advance]_<<history, pinned>> => HistoryInv'
  BY HistoryInvStep
<1>3. HistoryInv => RevisionNamesOneState /\ NoGaps /\ PinnedGenuine
  BY DEF HistoryInv
<1> QED
  BY <1>1, <1>2, <1>3, PTL DEF Spec
=============================================================================
