------------------------- MODULE SavedImportsProofs -------------------------
(* Proofs about SavedImports, for any number of requests, timer firings,    *)
(* definitions and data sources.                                            *)
EXTENDS SavedImports, TLAPS

(* A handler left with well-typed locals leaves all locals well typed.      *)
LEMMA LocalsTyped ==
  ASSUME TypeOK, NEW p \in Processes, NEW d \in Defs \cup {Null},
         NEW row \in Rows \cup {Null}, NEW bad \in BOOLEAN, Locals(p, d, row, bad)
  PROVE  /\ job' \in [Processes -> Defs \cup {Null}]
         /\ read' \in [Processes -> Rows \cup {Null}]
         /\ failed' \in [Processes -> BOOLEAN]
<1>1. job' \in [Processes -> Defs \cup {Null}]
  BY DEF TypeOK, Locals
<1>2. read' \in [Processes -> Rows \cup {Null}]
  BY DEF TypeOK, Locals
<1>3. failed' \in [Processes -> BOOLEAN]
  BY DEF TypeOK, Locals
<1> QED BY <1>1, <1>2, <1>3

(* A rejected run leaves its caller well typed.                             *)
LEMMA RejectTyped ==
  ASSUME TypeOK, NEW p \in Processes, Reject(p)
  PROVE  /\ job' \in [Processes -> Defs \cup {Null}]
         /\ read' \in [Processes -> Rows \cup {Null}]
         /\ failed' \in [Processes -> BOOLEAN]
         /\ link' \in [Processes -> Links]
<1>1. job[p] \in Defs \cup {Null}
  BY DEF TypeOK
<1>2. CASE p \in Ticks
  BY <1>1, <1>2, LocalsTyped DEF Reject, TypeOK
<1>3. CASE p \notin Ticks
  BY <1>3, LocalsTyped DEF Reject, Forget, TypeOK, Links
<1> QED BY <1>2, <1>3

(* A definition read and given another schedule is a definition.            *)
LEMMA RowTyped ==
  ASSUME NEW row \in Rows, NEW enabled \in BOOLEAN,
         NEW times \in SUBSET {"future", "due"},
         NEW schedule \in Rescheduled(enabled, times)
  PROVE  [row EXCEPT !.schedule = schedule] \in Rows
<1>1. schedule \in Schedules
  BY DEF Rescheduled, Schedules
<1> QED BY <1>1 DEF Rows

(* Writing a row back leaves the definitions typed.                         *)
LEMMA DefsTyped ==
  ASSUME TypeOK, NEW d, NEW row \in Rows, defs' = [defs EXCEPT ![d] = row]
  PROVE  defs' \in [Defs -> Rows \cup {Null}]
BY DEF TypeOK

(* Every step keeps tables and locals typed.                                *)
LEMMA TypesStep ==
  ASSUME TypeOK, JobsMatchLabels, [Next]_vars
  PROVE  TypeOK'
<1> USE ConstantsAssumption
       DEF TypeOK, JobsMatchLabels, Processes, Rows, Schedules, RunLabels,
           TickLabels, RequestLabels, Links
<1>1. ASSUME NEW q \in Requests, StartCreate(q)
      PROVE  TypeOK'
  BY <1>1 DEF StartCreate, Locals, Goto
<1>2. ASSUME NEW q \in Requests, Insert(q)
      PROVE  TypeOK'
  BY <1>2 DEF Insert, Forget, Locals, Goto, Rescheduled
<1>3. ASSUME NEW q \in Requests, StartPatch(q)
      PROVE  TypeOK'
  BY <1>3 DEF StartPatch, Locals, Goto
<1>4. ASSUME NEW q \in Requests, WritePatch(q)
      PROVE  TypeOK'
  <2>1. /\ pc[q] = "patch" /\ job[q] \in Defs
        /\ read[q] \in Rows
    BY <1>4 DEF WritePatch
  <2>2. \/ defs' = defs
        \/ \E row \in Rows : defs' = [defs EXCEPT ![job[q]] = row]
    BY <1>4, <2>1 DEF WritePatch, Rescheduled, Aged
  <2>3. defs' \in [Defs -> Rows \cup {Null}]
    BY <2>2
  <2> QED
    BY <1>4, <2>3, LocalsTyped DEF WritePatch, Forget, Goto
<1>5. ASSUME NEW q \in Requests, StartRun(q)
      PROVE  TypeOK'
  BY <1>5 DEF StartRun, Locals, Goto
<1>6. ASSUME NEW p \in Processes, TryAcquire(p)
      PROVE  TypeOK'
  <2>1. /\ defs' \in [Defs -> Rows \cup {Null}]
        /\ locks' \subseteq Defs /\ running' \in BOOLEAN
        /\ faults' \in 0 .. MaxFaults
    BY <1>6 DEF TryAcquire, LockIsFree, RefuseRun, Reject, Forget, Locals, Goto, Keep
  <2>2. /\ pc' \in [Processes -> TickLabels \cup RequestLabels \cup {"idle"}]
        /\ \A r \in Requests : pc'[r] \in RequestLabels \cup {"idle"}
        /\ \A u \in Ticks : pc'[u] \in TickLabels \cup {"idle"}
    BY <1>6 DEF TryAcquire, LockIsFree, RefuseRun, Reject, Forget, Locals, Goto, Keep
  <2>3. /\ job' \in [Processes -> Defs \cup {Null}]
        /\ read' \in [Processes -> Rows \cup {Null}]
        /\ failed' \in [Processes -> BOOLEAN]
        /\ due' \in [Ticks -> SUBSET (Defs \X Links)]
        /\ link' \in [Processes -> Links]
    <3>1. CASE LockIsFree(job[p])
      BY <1>6, <3>1 DEF TryAcquire, Keep
    <3>2. CASE ~LockIsFree(job[p])
      BY <1>6, <3>2, RejectTyped DEF TryAcquire, RefuseRun
    <3> QED BY <3>1, <3>2
  <2> QED BY <2>1, <2>2, <2>3
<1>7. ASSUME NEW p \in Processes, NotWritable(p)
      PROVE  TypeOK'
  <2>1. /\ defs' \in [Defs -> Rows \cup {Null}]
        /\ locks' \subseteq Defs /\ running' \in BOOLEAN
        /\ faults' \in 0 .. MaxFaults
    BY <1>7 DEF NotWritable, Reject, Forget, Locals, Goto
  <2>2. /\ pc' \in [Processes -> TickLabels \cup RequestLabels \cup {"idle"}]
        /\ \A r \in Requests : pc'[r] \in RequestLabels \cup {"idle"}
        /\ \A u \in Ticks : pc'[u] \in TickLabels \cup {"idle"}
    BY <1>7 DEF NotWritable, Reject, Forget, Locals, Goto
  <2>3. /\ job' \in [Processes -> Defs \cup {Null}]
        /\ read' \in [Processes -> Rows \cup {Null}]
        /\ failed' \in [Processes -> BOOLEAN]
        /\ due' \in [Ticks -> SUBSET (Defs \X Links)]
        /\ link' \in [Processes -> Links]
    BY <1>7, RejectTyped DEF NotWritable
  <2> QED BY <2>1, <2>2, <2>3
<1>8. ASSUME NEW p \in Processes, Import(p)
      PROVE  TypeOK'
  BY <1>8 DEF Import, AfterHealth, Goto, Keep
<1>9. ASSUME NEW p \in Processes, ReadSource(p)
      PROVE  TypeOK'
  BY <1>9 DEF ReadSource, Goto, Keep
<1>10. ASSUME NEW p \in Processes, WriteSource(p)
      PROVE  TypeOK'
  BY <1>10 DEF WriteSource, AfterHealth, Goto, Keep
<1>11. ASSUME NEW p \in Processes, WriteBack(p)
      PROVE  TypeOK'
  BY <1>11 DEF WriteBack, Rescheduled, Locals, Goto
<1>12. ASSUME NEW p \in Processes, RunThrows(p)
      PROVE  TypeOK'
  BY <1>12 DEF RunThrows, ThrowInTry, Locals, Goto
<1>13. ASSUME NEW p \in Processes, Release(p)
      PROVE  TypeOK'
  <2>1. /\ defs' \in [Defs -> Rows \cup {Null}]
        /\ locks' \subseteq Defs /\ running' \in BOOLEAN
        /\ faults' \in 0 .. MaxFaults
    BY <1>13 DEF Release, Reject, Forget, Locals, Goto
  <2>2. /\ pc' \in [Processes -> TickLabels \cup RequestLabels \cup {"idle"}]
        /\ \A r \in Requests : pc'[r] \in RequestLabels \cup {"idle"}
        /\ \A u \in Ticks : pc'[u] \in TickLabels \cup {"idle"}
    BY <1>13 DEF Release, Reject, Forget, Locals, Goto
  <2>3. /\ job' \in [Processes -> Defs \cup {Null}]
        /\ read' \in [Processes -> Rows \cup {Null}]
        /\ failed' \in [Processes -> BOOLEAN]
        /\ due' \in [Ticks -> SUBSET (Defs \X Links)]
        /\ link' \in [Processes -> Links]
    <3>1. CASE failed[p]
      BY <1>13, <3>1, RejectTyped DEF Release
    <3>2. CASE ~failed[p]
      BY <1>13, <3>2, LocalsTyped DEF Release, Forget
    <3> QED BY <3>1, <3>2
  <2> QED BY <2>1, <2>2, <2>3
<1>14. ASSUME NEW t \in Ticks, StartTick(t)
      PROVE  TypeOK'
  BY <1>14 DEF StartTick, NoTickRuns, IsDue, Goto, Keep
<1>15. ASSUME NEW t \in Ticks, RunNext(t)
      PROVE  TypeOK'
  <2>1. /\ defs' \in [Defs -> Rows \cup {Null}]
        /\ locks' \subseteq Defs /\ running' \in BOOLEAN
        /\ faults' \in 0 .. MaxFaults
    BY <1>15 DEF RunNext, Locals, Goto
  <2>2. /\ pc' \in [Processes -> TickLabels \cup RequestLabels \cup {"idle"}]
        /\ \A r \in Requests : pc'[r] \in RequestLabels \cup {"idle"}
        /\ \A u \in Ticks : pc'[u] \in TickLabels \cup {"idle"}
    BY <1>15 DEF RunNext, Locals, Goto
  <2>3. /\ job' \in [Processes -> Defs \cup {Null}]
        /\ read' \in [Processes -> Rows \cup {Null}]
        /\ failed' \in [Processes -> BOOLEAN]
        /\ due' \in [Ticks -> SUBSET (Defs \X Links)]
        /\ link' \in [Processes -> Links]
    <3>1. PICK d \in Defs, s \in Links :
            /\ due' = [due EXCEPT ![t] = @ \ {<<d, s>>}]
            /\ link' = [link EXCEPT ![t] = s]
            /\ Locals(t, d, defs[d], FALSE) \/ Locals(t, d, Null, FALSE)
      BY <1>15 DEF RunNext
    <3>2. defs[d] \in Rows \cup {Null}
      BY <3>1
    <3>3. due' \in [Ticks -> SUBSET (Defs \X Links)] /\ link' \in [Processes -> Links]
      BY <3>1
    <3> QED BY <3>1, <3>2, <3>3, LocalsTyped
  <2> QED BY <2>1, <2>2, <2>3
<1>16. ASSUME NEW t \in Ticks, Recover(t)
      PROVE  TypeOK'
  BY <1>16 DEF Recover, AfterReschedule, Goto
<1>17. ASSUME NEW t \in Ticks, Reschedule(t)
      PROVE  TypeOK'
  <2>1. /\ defs' \in [Defs -> Rows \cup {Null}]
        /\ locks' \subseteq Defs /\ running' \in BOOLEAN
        /\ faults' \in 0 .. MaxFaults
    <3>1. /\ job[t] \in Defs
          /\ read[t] \in Rows
      BY <1>17 DEF Reschedule
    <3>2. PICK schedule \in Rescheduled(read[t].schedule.enabled, {"future", "due"}) :
            defs' = [defs EXCEPT ![job[t]] = [read[t] EXCEPT !.schedule = schedule]]
      BY <1>17 DEF Reschedule
    <3>3. defs' \in [Defs -> Rows \cup {Null}]
      <4>1. read[t].schedule.enabled \in BOOLEAN
        BY <1>17, <3>1 DEF Reschedule
      <4>2. [read[t] EXCEPT !.schedule = schedule] \in Rows
        BY <3>1, <4>1, RowTyped
      <4> QED BY <3>2, <4>2, DefsTyped
    <3> QED BY <1>17, <3>3 DEF Reschedule
  <2>2. /\ pc' \in [Processes -> TickLabels \cup RequestLabels \cup {"idle"}]
        /\ \A r \in Requests : pc'[r] \in RequestLabels \cup {"idle"}
        /\ \A u \in Ticks : pc'[u] \in TickLabels \cup {"idle"}
    <3>1. \E label \in {"markHealth", "next"} : pc' = [pc EXCEPT ![t] = label]
      BY <1>17 DEF Reschedule, AfterReschedule, Goto
    <3> QED BY <3>1
  <2>3. /\ job' \in [Processes -> Defs \cup {Null}]
        /\ read' \in [Processes -> Rows \cup {Null}]
        /\ failed' \in [Processes -> BOOLEAN]
        /\ due' \in [Ticks -> SUBSET (Defs \X Links)]
        /\ link' \in [Processes -> Links]
    BY <1>17 DEF Reschedule, AfterReschedule, Rescheduled, Goto
  <2> QED BY <2>1, <2>2, <2>3
<1>18. ASSUME NEW t \in Ticks, MarkHealth(t)
      PROVE  TypeOK'
  BY <1>18 DEF MarkHealth, Forget, Locals, Goto
<1>19. ASSUME NEW t \in Ticks, EndTick(t)
      PROVE  TypeOK'
  BY <1>19 DEF EndTick, ResetGuard, Goto, Keep
<1>20. ASSUME NEW t \in Ticks, TickFails(t)
      PROVE  TypeOK'
  <2>1. /\ defs' \in [Defs -> Rows \cup {Null}]
        /\ locks' \subseteq Defs /\ running' \in BOOLEAN
        /\ faults' \in 0 .. MaxFaults
    <3>1. faults' \in 0 .. MaxFaults
      BY <1>20 DEF TickFails
    <3> QED BY <1>20, <3>1 DEF TickFails, ResetGuard, Forget, Locals, Goto
  <2>2. /\ pc' \in [Processes -> TickLabels \cup RequestLabels \cup {"idle"}]
        /\ \A r \in Requests : pc'[r] \in RequestLabels \cup {"idle"}
        /\ \A u \in Ticks : pc'[u] \in TickLabels \cup {"idle"}
    BY <1>20 DEF TickFails, ResetGuard, Forget, Locals, Goto
  <2>3. /\ job' \in [Processes -> Defs \cup {Null}]
        /\ read' \in [Processes -> Rows \cup {Null}]
        /\ failed' \in [Processes -> BOOLEAN]
        /\ due' \in [Ticks -> SUBSET (Defs \X Links)]
        /\ link' \in [Processes -> Links]
    BY <1>20 DEF TickFails, ResetGuard, Forget, Locals, Goto
  <2> QED BY <2>1, <2>2, <2>3
<1>21. ASSUME NEW d \in Defs, TimePasses(d)
      PROVE  TypeOK'
  BY <1>21 DEF TimePasses
<1>22. CASE Crash
  <2>1. /\ defs' \in [Defs -> Rows \cup {Null}]
        /\ locks' \subseteq Defs /\ running' \in BOOLEAN
        /\ faults' \in 0 .. MaxFaults
    <3>1. faults' \in 0 .. MaxFaults
      BY <1>22 DEF Crash
    <3> QED BY <1>22, <3>1 DEF Crash
  <2>2. /\ pc' \in [Processes -> TickLabels \cup RequestLabels \cup {"idle"}]
        /\ \A r \in Requests : pc'[r] \in RequestLabels \cup {"idle"}
        /\ \A u \in Ticks : pc'[u] \in TickLabels \cup {"idle"}
    BY <1>22 DEF Crash
  <2>3. /\ job' \in [Processes -> Defs \cup {Null}]
        /\ read' \in [Processes -> Rows \cup {Null}]
        /\ failed' \in [Processes -> BOOLEAN]
        /\ due' \in [Ticks -> SUBSET (Defs \X Links)]
        /\ link' \in [Processes -> Links]
    BY <1>22 DEF Crash
  <2> QED BY <2>1, <2>2, <2>3
<1>23. CASE UNCHANGED vars
  BY <1>23 DEF vars
<1> QED
  BY <1>1, <1>2, <1>3, <1>4, <1>5, <1>6, <1>7, <1>8, <1>9, <1>10, <1>11, <1>12,
     <1>13, <1>14, <1>15, <1>16, <1>17, <1>18, <1>19, <1>20, <1>21, <1>22, <1>23
  DEF Next, Run, TickStep

(* Every step leaves a handler with the locals its next label needs.        *)
LEMMA JobsStep ==
  ASSUME TypeOK, JobsMatchLabels, [Next]_vars
  PROVE  JobsMatchLabels'
<1> USE ConstantsAssumption
       DEF TypeOK, JobsMatchLabels, Processes, Rows, Schedules, RunLabels,
           TickLabels, RequestLabels, Links
<1>1. ASSUME NEW q \in Requests, StartCreate(q)
      PROVE  JobsMatchLabels'
  BY <1>1 DEF StartCreate, Locals, Goto
<1>2. ASSUME NEW q \in Requests, Insert(q)
      PROVE  JobsMatchLabels'
  BY <1>2 DEF Insert, Forget, Locals, Goto, Rescheduled
<1>3. ASSUME NEW q \in Requests, StartPatch(q)
      PROVE  JobsMatchLabels'
  BY <1>3 DEF StartPatch, Locals, Goto
<1>4. ASSUME NEW q \in Requests, WritePatch(q)
      PROVE  JobsMatchLabels'
  <2>1. /\ pc[q] = "patch" /\ job[q] \in Defs
        /\ read[q] \in Rows
    BY <1>4 DEF WritePatch
  <2>2. \/ defs' = defs
        \/ \E row \in Rows : defs' = [defs EXCEPT ![job[q]] = row]
    BY <1>4, <2>1 DEF WritePatch, Rescheduled, Aged
  <2>3. \A d \in Defs : defs[d] # Null => defs'[d] # Null
    BY <2>1, <2>2
  <2> QED
    BY <1>4, <2>3 DEF WritePatch, Forget, Locals, Goto
<1>5. ASSUME NEW q \in Requests, StartRun(q)
      PROVE  JobsMatchLabels'
  BY <1>5 DEF StartRun, Locals, Goto
<1>6. ASSUME NEW p \in Processes, TryAcquire(p)
      PROVE  JobsMatchLabels'
  BY <1>6 DEF TryAcquire, LockIsFree, RefuseRun, Reject, Forget, Locals, Goto, Keep
<1>7. ASSUME NEW p \in Processes, NotWritable(p)
      PROVE  JobsMatchLabels'
  BY <1>7 DEF NotWritable, Reject, Forget, Locals, Goto
<1>8. ASSUME NEW p \in Processes, Import(p)
      PROVE  JobsMatchLabels'
  BY <1>8 DEF Import, AfterHealth, Goto, Keep
<1>9. ASSUME NEW p \in Processes, ReadSource(p)
      PROVE  JobsMatchLabels'
  BY <1>9 DEF ReadSource, Goto, Keep
<1>10. ASSUME NEW p \in Processes, WriteSource(p)
      PROVE  JobsMatchLabels'
  BY <1>10 DEF WriteSource, AfterHealth, Goto, Keep
<1>11. ASSUME NEW p \in Processes, WriteBack(p)
      PROVE  JobsMatchLabels'
  BY <1>11 DEF WriteBack, Rescheduled, Locals, Goto
<1>12. ASSUME NEW p \in Processes, RunThrows(p)
      PROVE  JobsMatchLabels'
  BY <1>12 DEF RunThrows, ThrowInTry, Locals, Goto
<1>13. ASSUME NEW p \in Processes, Release(p)
      PROVE  JobsMatchLabels'
  BY <1>13 DEF Release, Reject, Forget, Locals, Goto
<1>14. ASSUME NEW t \in Ticks, StartTick(t)
      PROVE  JobsMatchLabels'
  BY <1>14 DEF StartTick, NoTickRuns, IsDue, Goto, Keep
<1>15. ASSUME NEW t \in Ticks, RunNext(t)
      PROVE  JobsMatchLabels'
  BY <1>15 DEF RunNext, Locals, Goto
<1>16. ASSUME NEW t \in Ticks, Recover(t)
      PROVE  JobsMatchLabels'
  BY <1>16 DEF Recover, AfterReschedule, Goto
<1>17. ASSUME NEW t \in Ticks, Reschedule(t)
      PROVE  JobsMatchLabels'
  BY <1>17 DEF Reschedule, AfterReschedule, Rescheduled, Goto
<1>18. ASSUME NEW t \in Ticks, MarkHealth(t)
      PROVE  JobsMatchLabels'
  BY <1>18 DEF MarkHealth, Forget, Locals, Goto
<1>19. ASSUME NEW t \in Ticks, EndTick(t)
      PROVE  JobsMatchLabels'
  BY <1>19 DEF EndTick, ResetGuard, Goto, Keep
<1>20. ASSUME NEW t \in Ticks, TickFails(t)
      PROVE  JobsMatchLabels'
  BY <1>20 DEF TickFails, ResetGuard, Forget, Locals, Goto
<1>21. ASSUME NEW d \in Defs, TimePasses(d)
      PROVE  JobsMatchLabels'
  BY <1>21 DEF TimePasses
<1>22. CASE Crash
  BY <1>22 DEF Crash
<1>23. CASE UNCHANGED vars
  BY <1>23 DEF vars
<1> QED
  BY <1>1, <1>2, <1>3, <1>4, <1>5, <1>6, <1>7, <1>8, <1>9, <1>10, <1>11, <1>12,
     <1>13, <1>14, <1>15, <1>16, <1>17, <1>18, <1>19, <1>20, <1>21, <1>22, <1>23
  DEF Next, Run, TickStep

(* Every definition that is written is timed, for it is a timed copy or new.*)
LEMMA TimesStep ==
  ASSUME TypeOK, JobsMatchLabels, ReadsTimed, EnabledHasNext, [Next]_vars
  PROVE  ReadsTimed' /\ EnabledHasNext'
<1> USE ConstantsAssumption
       DEF TypeOK, JobsMatchLabels, ReadsTimed, EnabledHasNext, Timed, Processes,
           Rows, Schedules, RunLabels, TickLabels, RequestLabels
<1>1. ASSUME NEW q \in Requests, StartCreate(q)
      PROVE  ReadsTimed' /\ EnabledHasNext'
  BY <1>1 DEF StartCreate, Locals, Goto
<1>2. ASSUME NEW q \in Requests, Insert(q)
      PROVE  ReadsTimed' /\ EnabledHasNext'
  BY <1>2 DEF Insert, Forget, Locals, Goto, Rescheduled
<1>3. ASSUME NEW q \in Requests, StartPatch(q)
      PROVE  ReadsTimed' /\ EnabledHasNext'
  BY <1>3 DEF StartPatch, Locals, Goto
<1>4. ASSUME NEW q \in Requests, WritePatch(q)
      PROVE  ReadsTimed' /\ EnabledHasNext'
  BY <1>4 DEF WritePatch, Forget, Locals, Goto, Rescheduled, Aged
<1>5. ASSUME NEW q \in Requests, StartRun(q)
      PROVE  ReadsTimed' /\ EnabledHasNext'
  BY <1>5 DEF StartRun, Locals, Goto
<1>6. ASSUME NEW p \in Processes, TryAcquire(p)
      PROVE  ReadsTimed' /\ EnabledHasNext'
  BY <1>6 DEF TryAcquire, LockIsFree, RefuseRun, Reject, Forget, Locals, Goto, Keep
<1>7. ASSUME NEW p \in Processes, NotWritable(p)
      PROVE  ReadsTimed' /\ EnabledHasNext'
  BY <1>7 DEF NotWritable, Reject, Forget, Locals, Goto
<1>8. ASSUME NEW p \in Processes, Import(p)
      PROVE  ReadsTimed' /\ EnabledHasNext'
  BY <1>8 DEF Import, AfterHealth, Goto, Keep
<1>9. ASSUME NEW p \in Processes, ReadSource(p)
      PROVE  ReadsTimed' /\ EnabledHasNext'
  BY <1>9 DEF ReadSource, Goto, Keep
<1>10. ASSUME NEW p \in Processes, WriteSource(p)
      PROVE  ReadsTimed' /\ EnabledHasNext'
  BY <1>10 DEF WriteSource, AfterHealth, Goto, Keep
<1>11. ASSUME NEW p \in Processes, WriteBack(p)
      PROVE  ReadsTimed' /\ EnabledHasNext'
  BY <1>11 DEF WriteBack, Rescheduled, Locals, Goto
<1>12. ASSUME NEW p \in Processes, RunThrows(p)
      PROVE  ReadsTimed' /\ EnabledHasNext'
  BY <1>12 DEF RunThrows, ThrowInTry, Locals, Goto
<1>13. ASSUME NEW p \in Processes, Release(p)
      PROVE  ReadsTimed' /\ EnabledHasNext'
  BY <1>13 DEF Release, Reject, Forget, Locals, Goto
<1>14. ASSUME NEW t \in Ticks, StartTick(t)
      PROVE  ReadsTimed' /\ EnabledHasNext'
  BY <1>14 DEF StartTick, NoTickRuns, IsDue, Goto, Keep
<1>15. ASSUME NEW t \in Ticks, RunNext(t)
      PROVE  ReadsTimed' /\ EnabledHasNext'
  BY <1>15 DEF RunNext, Locals, Goto
<1>16. ASSUME NEW t \in Ticks, Recover(t)
      PROVE  ReadsTimed' /\ EnabledHasNext'
  BY <1>16 DEF Recover, AfterReschedule, Goto
<1>17. ASSUME NEW t \in Ticks, Reschedule(t)
      PROVE  ReadsTimed' /\ EnabledHasNext'
  BY <1>17 DEF Reschedule, AfterReschedule, Rescheduled, Goto
<1>18. ASSUME NEW t \in Ticks, MarkHealth(t)
      PROVE  ReadsTimed' /\ EnabledHasNext'
  BY <1>18 DEF MarkHealth, Forget, Locals, Goto
<1>19. ASSUME NEW t \in Ticks, EndTick(t)
      PROVE  ReadsTimed' /\ EnabledHasNext'
  BY <1>19 DEF EndTick, ResetGuard, Goto, Keep
<1>20. ASSUME NEW t \in Ticks, TickFails(t)
      PROVE  ReadsTimed' /\ EnabledHasNext'
  BY <1>20 DEF TickFails, ResetGuard, Forget, Locals, Goto
<1>21. ASSUME NEW d \in Defs, TimePasses(d)
      PROVE  ReadsTimed' /\ EnabledHasNext'
  BY <1>21 DEF TimePasses
<1>22. CASE Crash
  BY <1>22 DEF Crash
<1>23. CASE UNCHANGED vars
  BY <1>23 DEF vars
<1> QED
  BY <1>1, <1>2, <1>3, <1>4, <1>5, <1>6, <1>7, <1>8, <1>9, <1>10, <1>11, <1>12,
     <1>13, <1>14, <1>15, <1>16, <1>17, <1>18, <1>19, <1>20, <1>21, <1>22, <1>23
  DEF Next, Run, TickStep

(* Only a run that holds a lock gives it back, and only a free one is taken.*)
LEMMA LocksStep ==
  ASSUME TypeOK, JobsMatchLabels, LocksAccounted, NoOverlappingRuns, [Next]_vars
  PROVE  LocksAccounted' /\ NoOverlappingRuns'
<1> USE ConstantsAssumption
       DEF TypeOK, JobsMatchLabels, LocksAccounted, NoOverlappingRuns, HoldsLock,
           Processes, RunLabels, TickLabels, RequestLabels
<1>1. ASSUME NEW q \in Requests, StartCreate(q)
      PROVE  LocksAccounted' /\ NoOverlappingRuns'
  BY <1>1 DEF StartCreate, Locals, Goto
<1>2. ASSUME NEW q \in Requests, Insert(q)
      PROVE  LocksAccounted' /\ NoOverlappingRuns'
  BY <1>2 DEF Insert, Forget, Locals, Goto, Rescheduled
<1>3. ASSUME NEW q \in Requests, StartPatch(q)
      PROVE  LocksAccounted' /\ NoOverlappingRuns'
  BY <1>3 DEF StartPatch, Locals, Goto
<1>4. ASSUME NEW q \in Requests, WritePatch(q)
      PROVE  LocksAccounted' /\ NoOverlappingRuns'
  BY <1>4 DEF WritePatch, Forget, Locals, Goto, Rescheduled, Aged
<1>5. ASSUME NEW q \in Requests, StartRun(q)
      PROVE  LocksAccounted' /\ NoOverlappingRuns'
  BY <1>5 DEF StartRun, Locals, Goto
<1>6. ASSUME NEW p \in Processes, TryAcquire(p)
      PROVE  LocksAccounted' /\ NoOverlappingRuns'
  BY <1>6 DEF TryAcquire, LockIsFree, RefuseRun, Reject, Forget, Locals, Goto, Keep
<1>7. ASSUME NEW p \in Processes, NotWritable(p)
      PROVE  LocksAccounted' /\ NoOverlappingRuns'
  BY <1>7 DEF NotWritable, Reject, Forget, Locals, Goto
<1>8. ASSUME NEW p \in Processes, Import(p)
      PROVE  LocksAccounted' /\ NoOverlappingRuns'
  BY <1>8 DEF Import, AfterHealth, Goto, Keep
<1>9. ASSUME NEW p \in Processes, ReadSource(p)
      PROVE  LocksAccounted' /\ NoOverlappingRuns'
  BY <1>9 DEF ReadSource, Goto, Keep
<1>10. ASSUME NEW p \in Processes, WriteSource(p)
      PROVE  LocksAccounted' /\ NoOverlappingRuns'
  BY <1>10 DEF WriteSource, AfterHealth, Goto, Keep
<1>11. ASSUME NEW p \in Processes, WriteBack(p)
      PROVE  LocksAccounted' /\ NoOverlappingRuns'
  BY <1>11 DEF WriteBack, Rescheduled, Locals, Goto
<1>12. ASSUME NEW p \in Processes, RunThrows(p)
      PROVE  LocksAccounted' /\ NoOverlappingRuns'
  BY <1>12 DEF RunThrows, ThrowInTry, Locals, Goto
<1>13. ASSUME NEW p \in Processes, Release(p)
      PROVE  LocksAccounted' /\ NoOverlappingRuns'
  BY <1>13 DEF Release, Reject, Forget, Locals, Goto
<1>14. ASSUME NEW t \in Ticks, StartTick(t)
      PROVE  LocksAccounted' /\ NoOverlappingRuns'
  BY <1>14 DEF StartTick, NoTickRuns, IsDue, Goto, Keep
<1>15. ASSUME NEW t \in Ticks, RunNext(t)
      PROVE  LocksAccounted' /\ NoOverlappingRuns'
  <2>1. /\ \A p \in Processes : HoldsLock(p)' <=> HoldsLock(p)
        /\ \A p \in Processes : HoldsLock(p) => job'[p] = job[p]
        /\ locks' = locks
    BY <1>15 DEF RunNext, Locals, Goto
  <2> QED
    BY <2>1 DEF LocksAccounted, NoOverlappingRuns
<1>16. ASSUME NEW t \in Ticks, Recover(t)
      PROVE  LocksAccounted' /\ NoOverlappingRuns'
  BY <1>16 DEF Recover, AfterReschedule, Goto
<1>17. ASSUME NEW t \in Ticks, Reschedule(t)
      PROVE  LocksAccounted' /\ NoOverlappingRuns'
  <2>1. /\ \A p \in Processes : HoldsLock(p)' <=> HoldsLock(p)
        /\ \A p \in Processes : HoldsLock(p) => job'[p] = job[p]
        /\ locks' = locks
    BY <1>17 DEF Reschedule, AfterReschedule, Rescheduled, Goto
  <2> QED
    BY <2>1 DEF LocksAccounted, NoOverlappingRuns
<1>18. ASSUME NEW t \in Ticks, MarkHealth(t)
      PROVE  LocksAccounted' /\ NoOverlappingRuns'
  BY <1>18 DEF MarkHealth, Forget, Locals, Goto
<1>19. ASSUME NEW t \in Ticks, EndTick(t)
      PROVE  LocksAccounted' /\ NoOverlappingRuns'
  BY <1>19 DEF EndTick, ResetGuard, Goto, Keep
<1>20. ASSUME NEW t \in Ticks, TickFails(t)
      PROVE  LocksAccounted' /\ NoOverlappingRuns'
  BY <1>20 DEF TickFails, ResetGuard, Forget, Locals, Goto
<1>21. ASSUME NEW d \in Defs, TimePasses(d)
      PROVE  LocksAccounted' /\ NoOverlappingRuns'
  BY <1>21 DEF TimePasses
<1>22. CASE Crash
  BY <1>22 DEF Crash
<1>23. CASE UNCHANGED vars
  BY <1>23 DEF vars
<1> QED
  BY <1>1, <1>2, <1>3, <1>4, <1>5, <1>6, <1>7, <1>8, <1>9, <1>10, <1>11, <1>12,
     <1>13, <1>14, <1>15, <1>16, <1>17, <1>18, <1>19, <1>20, <1>21, <1>22, <1>23
  DEF Next, Run, TickStep

(* The guard rises with a tick and falls with it.                           *)
LEMMA TicksStep ==
  ASSUME TypeOK, TicksGuarded, [Next]_vars
  PROVE  TicksGuarded'
<1> USE ConstantsAssumption
       DEF TypeOK, TicksGuarded, Processes, RunLabels, TickLabels, RequestLabels
<1>1. ASSUME NEW q \in Requests, StartCreate(q)
      PROVE  TicksGuarded'
  BY <1>1 DEF StartCreate, Locals, Goto
<1>2. ASSUME NEW q \in Requests, Insert(q)
      PROVE  TicksGuarded'
  BY <1>2 DEF Insert, Forget, Locals, Goto, Rescheduled
<1>3. ASSUME NEW q \in Requests, StartPatch(q)
      PROVE  TicksGuarded'
  BY <1>3 DEF StartPatch, Locals, Goto
<1>4. ASSUME NEW q \in Requests, WritePatch(q)
      PROVE  TicksGuarded'
  BY <1>4 DEF WritePatch, Forget, Locals, Goto, Rescheduled, Aged
<1>5. ASSUME NEW q \in Requests, StartRun(q)
      PROVE  TicksGuarded'
  BY <1>5 DEF StartRun, Locals, Goto
<1>6. ASSUME NEW p \in Processes, TryAcquire(p)
      PROVE  TicksGuarded'
  BY <1>6 DEF TryAcquire, LockIsFree, RefuseRun, Reject, Forget, Locals, Goto, Keep
<1>7. ASSUME NEW p \in Processes, NotWritable(p)
      PROVE  TicksGuarded'
  BY <1>7 DEF NotWritable, Reject, Forget, Locals, Goto
<1>8. ASSUME NEW p \in Processes, Import(p)
      PROVE  TicksGuarded'
  BY <1>8 DEF Import, AfterHealth, Goto, Keep
<1>9. ASSUME NEW p \in Processes, ReadSource(p)
      PROVE  TicksGuarded'
  BY <1>9 DEF ReadSource, Goto, Keep
<1>10. ASSUME NEW p \in Processes, WriteSource(p)
      PROVE  TicksGuarded'
  BY <1>10 DEF WriteSource, AfterHealth, Goto, Keep
<1>11. ASSUME NEW p \in Processes, WriteBack(p)
      PROVE  TicksGuarded'
  BY <1>11 DEF WriteBack, Rescheduled, Locals, Goto
<1>12. ASSUME NEW p \in Processes, RunThrows(p)
      PROVE  TicksGuarded'
  BY <1>12 DEF RunThrows, ThrowInTry, Locals, Goto
<1>13. ASSUME NEW p \in Processes, Release(p)
      PROVE  TicksGuarded'
  BY <1>13 DEF Release, Reject, Forget, Locals, Goto
<1>14. ASSUME NEW t \in Ticks, StartTick(t)
      PROVE  TicksGuarded'
  BY <1>14 DEF StartTick, NoTickRuns, IsDue, Goto, Keep
<1>15. ASSUME NEW t \in Ticks, RunNext(t)
      PROVE  TicksGuarded'
  BY <1>15 DEF RunNext, Locals, Goto
<1>16. ASSUME NEW t \in Ticks, Recover(t)
      PROVE  TicksGuarded'
  BY <1>16 DEF Recover, AfterReschedule, Goto
<1>17. ASSUME NEW t \in Ticks, Reschedule(t)
      PROVE  TicksGuarded'
  BY <1>17 DEF Reschedule, AfterReschedule, Rescheduled, Goto
<1>18. ASSUME NEW t \in Ticks, MarkHealth(t)
      PROVE  TicksGuarded'
  BY <1>18 DEF MarkHealth, Forget, Locals, Goto
<1>19. ASSUME NEW t \in Ticks, EndTick(t)
      PROVE  TicksGuarded'
  BY <1>19 DEF EndTick, ResetGuard, Goto, Keep
<1>20. ASSUME NEW t \in Ticks, TickFails(t)
      PROVE  TicksGuarded'
  BY <1>20 DEF TickFails, ResetGuard, Forget, Locals, Goto
<1>21. ASSUME NEW d \in Defs, TimePasses(d)
      PROVE  TicksGuarded'
  BY <1>21 DEF TimePasses
<1>22. CASE Crash
  BY <1>22 DEF Crash
<1>23. CASE UNCHANGED vars
  BY <1>23 DEF vars
<1> QED
  BY <1>1, <1>2, <1>3, <1>4, <1>5, <1>6, <1>7, <1>8, <1>9, <1>10, <1>11, <1>12,
     <1>13, <1>14, <1>15, <1>16, <1>17, <1>18, <1>19, <1>20, <1>21, <1>22, <1>23
  DEF Next, Run, TickStep

LEMMA InitIInv == Init => IInv
<1> SUFFICES ASSUME Init PROVE IInv
  OBVIOUS
<1> USE ConstantsAssumption DEF Init
<1>1. TypeOK
  <2>1. faults \in 0 .. MaxFaults
    OBVIOUS
  <2> QED BY <2>1 DEF TypeOK, Processes, Links
<1>2. JobsMatchLabels /\ ReadsTimed /\ EnabledHasNext
  BY DEF JobsMatchLabels, ReadsTimed, EnabledHasNext, Processes
<1>3. LocksAccounted /\ NoOverlappingRuns
  BY DEF LocksAccounted, NoOverlappingRuns, HoldsLock, RunLabels, Processes
<1>4. TicksGuarded
  BY DEF TicksGuarded, Processes
<1> QED BY <1>1, <1>2, <1>3, <1>4 DEF IInv

(* The inductive invariant of saved imports: whatever requests, ticks,      *)
(* failures and crashes interleave.                                         *)
THEOREM Invariance == Spec => []IInv
<1>1. Init => IInv
  BY InitIInv
<1>2. IInv /\ [Next]_vars => IInv'
  BY TypesStep, JobsStep, TimesStep, LocksStep, TicksStep DEF IInv
<1> QED BY <1>1, <1>2, PTL DEF Spec

(* Definitions and the handlers' locals always have their types.            *)
THEOREM TypeCorrect == Spec => []TypeOK
<1>1. IInv => TypeOK
  BY DEF IInv
<1> QED BY <1>1, Invariance, PTL

(* The guarantee of ADR-0018: runs of one definition never overlap.         *)
THEOREM RunsNeverOverlap == Spec => []NoOverlappingRuns
<1>1. IInv => NoOverlappingRuns
  BY DEF IInv
<1> QED BY <1>1, Invariance, PTL

(* A lock is in the set exactly while a run of its definition holds it.     *)
THEOREM LocksAreAccountedFor == Spec => []LocksAccounted
<1>1. IInv => LocksAccounted
  BY DEF IInv
<1> QED BY <1>1, Invariance, PTL

(* Stale write-backs never leave an enabled schedule without a next run.    *)
THEOREM SchedulesKeepTheirNextRun == Spec => []EnabledHasNext
<1>1. IInv => EnabledHasNext
  BY DEF IInv
<1> QED BY <1>1, Invariance, PTL

(* Timer firings never overlap, and the guard is never left up.             *)
THEOREM TicksAreGuarded == Spec => []TicksGuarded
<1>1. IInv => TicksGuarded
  BY DEF IInv
<1> QED BY <1>1, Invariance, PTL
=============================================================================
