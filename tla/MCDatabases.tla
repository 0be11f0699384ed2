---------------------------- MODULE MCDatabases ----------------------------
(***************************************************************************)
(* Databases for TLC: a behaviour either opens a database (DatabaseStartup)*)
(* or calls the implementations of one table (Databases).                  *)
(***************************************************************************)
EXTENDS Databases, DatabaseStartup, TLC

CONSTANTS p1, p2, d1, legacy, other

TheWanted == p1 :> d1 @@ p2 :> d1

vars == <<databaseVars, startupVars>>

(* The other part's variables stay in one state.                            *)
NoCalls ==
  group = "startup" /\ memory = <<>> /\ sqlite = <<>> /\ postgres = <<>> /\ clock = 0

NoStartup ==
  /\ backend = "sqlite" /\ tables = {} /\ columns = {} /\ owner = <<>> /\ projects = <<>>
  /\ migrated = {} /\ initialized = FALSE /\ pc = [p \in Callers |-> "idle"] /\ crashes = 0

Init == (StartupInit /\ NoCalls) \/ (DatabaseInit /\ NoStartup)

Next ==
  \/ group = "startup" /\ StartupNext /\ UNCHANGED databaseVars
  \/ group # "startup" /\ DatabaseNext /\ UNCHANGED startupVars

Spec == Init /\ [][Next]_vars
=============================================================================
