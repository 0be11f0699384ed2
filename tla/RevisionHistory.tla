-------------------------- MODULE RevisionHistory --------------------------
(***************************************************************************)
(* What the entity store promises (ADR-0022, ADR-0023), without saying how:*)
(* each entity has one growing sequence of states, numbered from 1, and    *)
(* pinning a state makes it readable for ever, exactly as it was.          *)
(***************************************************************************)
EXTENDS Integers

CONSTANTS State   \* an entity state: a record with at least an id and a rev

VARIABLES
  history,   \* every state any entity has been in
  pinned     \* the states a pinned reference can read

(* s follows the states its entity already has.                             *)
Follows(s) ==
  /\ s.rev >= 1
  /\ s.rev > 1 => \E p \in history : p.id = s.id /\ p.rev = s.rev - 1
  /\ \A p \in history : p.id = s.id => p.rev < s.rev

(* Some entities move to their next state, and some states are pinned.      *)
Advance ==
  /\ history \subseteq history'
  /\ history' \subseteq State
  /\ \A s \in history' \ history : Follows(s)
  /\ \A s, t \in history' \ history : s.id = t.id => s = t
  /\ pinned \subseteq pinned'
  /\ pinned' \subseteq history'

Init == history = {} /\ pinned = {}

Spec == Init /\ [][Advance]_<<history, pinned>>

(* A revision number names one state of its entity.                         *)
RevisionNamesOneState ==
  \A s, t \in history : s.id = t.id /\ s.rev = t.rev => s = t

(* Revision numbers start at 1 and none is skipped.                         *)
NoGaps ==
  \A s \in history : s.rev > 1 => \E p \in history : p.id = s.id /\ p.rev = s.rev - 1

(* What a pinned reference reads is what the entity was.                    *)
PinnedGenuine == pinned \subseteq history
=============================================================================
