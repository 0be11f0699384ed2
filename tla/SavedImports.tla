---------------------------- MODULE SavedImports ----------------------------
(***************************************************************************)
(* Saved import definitions of one project, the runs of them, and the      *)
(* scheduler (packages/core/src/platform/saved-import-service.ts and       *)
(* schedule/scheduler.ts), in one API server over a durable store.         *)
(*                                                                         *)
(* A process is one handler at a time: a request that creates, patches or  *)
(* runs a definition, or one firing of the scheduler's timer.  A step is   *)
(* what runs from one await to the next.  Every handler reads a definition *)
(* as a whole, and writes a whole definition back.                         *)
(***************************************************************************)
EXTENDS Integers, FiniteSets

CONSTANTS
  Requests,    \* handlers of HTTP requests
  Ticks,       \* handlers of timer firings
  Defs,        \* saved import definitions
  Sources,     \* data sources
  Rare,        \* definitions given a schedule that may have no time in a year
  Null,
  MaxFaults    \* bound: server crashes and failed store calls of the scheduler

(* Times are told apart as far as the scheduler tells them apart.           *)
Schedules == [enabled : BOOLEAN, next : {"none", "future", "due"}]

(* A definition may be linked to a data source.                             *)
Links == Sources \cup {Null}

Rows == [status : {"active", "disabled"}, schedule : Schedules \cup {Null}, source : Links]

ASSUME ConstantsAssumption ==
  /\ Requests \cap Ticks = {}
  /\ Null \notin Sources \cup Defs \cup Rows
  /\ Rare \subseteq Defs
  /\ MaxFaults \in Nat

VARIABLES
  defs,        \* the stored definitions
  locks,       \* runLocks, a Set in the memory of the server
  running,     \* the scheduler's guard against overlapping ticks
  pc,          \* where each handler is
  job,         \* the definition it works on
  read,        \* the definition as it read it
  failed,      \* its run has thrown
  due,         \* the definitions a tick has collected and not yet run, each
               \* with the data source it was linked to
  link,        \* that source of the definition a tick works on
  faults       \* faults so far

vars == <<defs, locks, running, pc, job, read, failed, due, link, faults>>

Processes == Requests \cup Ticks

-----------------------------------------------------------------------------
(* Types *)

RunLabels == {"acquire", "import", "readSource", "writeSource", "writeBack", "release"}

TickLabels == RunLabels \cup {"next", "recover", "reschedule", "markHealth"}

RequestLabels == RunLabels \cup {"insert", "patch"}

(* One type invariant: rows, locals and labels are what the handlers make   *)
(* them; a request never runs the scheduler's part, nor a tick a request's. *)
TypeOK ==
  /\ defs \in [Defs -> Rows \cup {Null}]
  /\ locks \subseteq Defs
  /\ running \in BOOLEAN
  /\ pc \in [Processes -> TickLabels \cup RequestLabels \cup {"idle"}]
  /\ \A r \in Requests : pc[r] \in RequestLabels \cup {"idle"}
  /\ \A t \in Ticks : pc[t] \in TickLabels \cup {"idle"}
  /\ job \in [Processes -> Defs \cup {Null}]
  /\ read \in [Processes -> Rows \cup {Null}]
  /\ failed \in [Processes -> BOOLEAN]
  /\ due \in [Ticks -> SUBSET (Defs \X Links)]
  /\ link \in [Processes -> Links]
  /\ faults \in 0 .. MaxFaults

-----------------------------------------------------------------------------
(* Helpers *)

(* A bug: the next time is computed for a schedule that is switched off.    *)
AlwaysNext(enabled, times) == [enabled : {enabled}, next : times]

(* A schedule whose nextRunAt is computed afresh if it is enabled: a time    *)
(* after the instant it is computed from, which may be past when written.   *)
Rescheduled(enabled, times) ==
  [enabled : {enabled}, next : IF enabled THEN times ELSE {"none"}]

(* A schedule written as it was read: its time may have come meanwhile.     *)
Aged(schedule) ==
  IF schedule = Null \/ schedule.next # "future" THEN {schedule}
  ELSE {schedule, [schedule EXCEPT !.next = "due"]}

(* collectDueForProjects                                                    *)
IsDue(d) ==
  /\ defs[d] # Null
  /\ defs[d].status = "active"
  /\ defs[d].schedule # Null
  /\ defs[d].schedule.enabled
  /\ defs[d].schedule.next = "due"

Goto(p, label) == pc' = [pc EXCEPT ![p] = label]

(* The handler is left with these of its locals                             *)
Locals(p, d, row, bad) ==
  /\ job' = [job EXCEPT ![p] = d]
  /\ read' = [read EXCEPT ![p] = row]
  /\ failed' = [failed EXCEPT ![p] = bad]

Forget(p) == Locals(p, Null, Null, FALSE) /\ link' = [link EXCEPT ![p] = Null]

Keep == UNCHANGED <<job, read, failed, link>>

(* A bug: every caller takes the catch block of the scheduler.              *)
RejectIntoCatch(p) ==
  Goto(p, "recover") /\ Locals(p, job[p], Null, FALSE) /\ UNCHANGED link

(* The promise of run() is rejected: a request answers the error, a tick    *)
(* goes into its catch block.                                               *)
Reject(p) ==
  IF p \in Ticks THEN Goto(p, "recover") /\ Locals(p, job[p], Null, FALSE) /\ UNCHANGED link
                 ELSE Goto(p, "idle") /\ Forget(p)

-----------------------------------------------------------------------------
(* Requests: create and update                                              *)

(* create finds no definition under the id.                                 *)
StartCreate(q) ==
  /\ pc[q] = "idle"
  /\ \E d \in Defs : defs[d] = Null /\ Locals(q, d, Null, FALSE)
  /\ Goto(q, "insert")
  /\ UNCHANGED <<defs, locks, running, due, link, faults>>

(* insertSavedImport; the primary key refuses a second row.                 *)
Insert(q) ==
  /\ pc[q] = "insert"
  /\ IF defs[job[q]] = Null
     THEN \E status \in {"active", "disabled"},
             schedule \in {Null} \cup UNION {Rescheduled(e, {"future"}) : e \in BOOLEAN}, s \in Links :
            defs' = [defs EXCEPT ![job[q]] = [status |-> status, schedule |-> schedule, source |-> s]]
     ELSE UNCHANGED defs
  /\ Goto(q, "idle")
  /\ Forget(q)
  /\ UNCHANGED <<locks, running, due, faults>>

StartPatch(q) ==
  /\ pc[q] = "idle"
  /\ \E d \in Defs : defs[d] # Null /\ Locals(q, d, defs[d], FALSE)
  /\ Goto(q, "patch")
  /\ UNCHANGED <<defs, locks, running, due, link, faults>>

(* { ...existing, patch }: a new schedule is normalised, a missing one kept *)
(* as it was read. Refused if the project is not writable any more.         *)
WritePatch(q) ==
  /\ pc[q] = "patch"
  /\ \/ \E status \in {"active", "disabled"},
           schedule \in Aged(read[q].schedule) \cup {Null}
                          \cup UNION {Rescheduled(e, {"future"}) : e \in BOOLEAN},
           s \in Links :
          defs' = [defs EXCEPT ![job[q]] = [status |-> status, schedule |-> schedule, source |-> s]]
     \/ UNCHANGED defs
  /\ Goto(q, "idle")
  /\ Forget(q)
  /\ UNCHANGED <<locks, running, due, faults>>

-----------------------------------------------------------------------------
(* run(), called by a request or by a tick                                  *)

(* get: an absent or disabled definition is refused, and a request simply   *)
(* answered.                                                                *)
StartRun(q) ==
  /\ pc[q] = "idle"
  /\ \E d \in Defs : /\ defs[d] # Null
                     /\ defs[d].status # "disabled"
                     /\ Locals(q, d, defs[d], FALSE)
  /\ Goto(q, "acquire")
  /\ UNCHANGED <<defs, locks, running, due, link, faults>>

(* A bug: the lock is taken without a look at who holds it.                 *)
Unguarded(d) == TRUE

LockIsFree(d) == d \notin locks

(* A bug: the lock is taken inside the try block, so that a refused run     *)
(* goes through its finally.                                                *)
RejectThroughFinally(p) ==
  Goto(p, "release") /\ Locals(p, job[p], Null, TRUE) /\ UNCHANGED link

RefuseRun(p) == Reject(p)

(* tryAcquireRunLock, or 409                                                *)
TryAcquire(p) ==
  /\ pc[p] = "acquire"
  /\ \/ /\ LockIsFree(job[p])
        /\ locks' = locks \cup {job[p]}
        /\ Goto(p, "import")
        /\ Keep
     \/ /\ ~LockIsFree(job[p])
        /\ RefuseRun(p)
        /\ UNCHANGED locks
  /\ UNCHANGED <<defs, running, due, faults>>

(* The project is not writable, or the dataset not in it any more.          *)
NotWritable(p) ==
  /\ pc[p] = "acquire"
  /\ Reject(p)
  /\ UNCHANGED <<defs, locks, running, due, faults>>

AfterHealth(p) == IF read[p].schedule # Null THEN "writeBack" ELSE "release"

(* runImport has returned, with rows imported or with nothing but failures.  *)
Import(p) ==
  /\ pc[p] = "import"
  /\ Goto(p, IF read[p].source # Null THEN "readSource" ELSE AfterHealth(p))
  /\ Keep
  /\ UNCHANGED <<defs, locks, running, due, faults>>

ReadSource(p) ==
  /\ pc[p] = "readSource"
  /\ Goto(p, "writeSource")
  /\ Keep
  /\ UNCHANGED <<defs, locks, running, due, faults>>

(* { ...source, lastSuccessAt, lastFailureAt, lastError }: the health of the *)
(* source is not modelled, the two awaits are. The run returns either way.  *)
WriteSource(p) ==
  /\ pc[p] = "writeSource"
  /\ Goto(p, AfterHealth(p))
  /\ Keep
  /\ UNCHANGED <<defs, locks, running, due, faults>>

(* { ...def, schedule: { ...def.schedule, lastRunAt, nextRunAt } }, where def *)
(* is the definition read before the run                                    *)
WriteBack(p) ==
  /\ pc[p] = "writeBack"
  /\ \E schedule \in Rescheduled(read[p].schedule.enabled, {"future"}) :
       defs' = [defs EXCEPT ![job[p]] = [read[p] EXCEPT !.schedule = schedule]]
  /\ Goto(p, "release")
  /\ Locals(p, job[p], Null, FALSE)
  /\ UNCHANGED <<locks, running, due, link, faults>>

(* A bug: without try and finally, a run that throws keeps its lock.        *)
ThrowPastFinally(p) == Reject(p)

(* The finally block comes next, and the error after it.                    *)
ThrowInTry(p) ==
  Goto(p, "release") /\ Locals(p, job[p], Null, TRUE) /\ UNCHANGED link

(* The import, or a store call after it, throws.                            *)
RunThrows(p) ==
  /\ pc[p] \in {"import", "readSource", "writeSource", "writeBack"}
  /\ ThrowInTry(p)
  /\ UNCHANGED <<defs, locks, running, due, faults>>

(* finally: releaseRunLock; then the result or the error goes to the caller *)
Release(p) ==
  /\ pc[p] = "release"
  /\ locks' = locks \ {job[p]}
  /\ IF failed[p] THEN Reject(p)
     ELSE Goto(p, IF p \in Ticks THEN "next" ELSE "idle") /\ Forget(p)
  /\ UNCHANGED <<defs, running, due, faults>>

-----------------------------------------------------------------------------
(* tick() of the scheduler                                                  *)

(* A bug: timer firings overlap.                                            *)
AnyTime == TRUE

NoTickRuns == ~running

(* if (this.running) return; otherwise the due definitions are collected    *)
(* once. They are run in the order of a SELECT that names none.             *)
StartTick(t) ==
  /\ pc[t] = "idle"
  /\ NoTickRuns
  /\ running' = TRUE
  /\ due' = [due EXCEPT ![t] = {<<d, defs[d].source>> : d \in {e \in Defs : IsDue(e)}}]
  /\ Goto(t, "next")
  /\ Keep
  /\ UNCHANGED <<defs, locks, faults>>

(* The next service.run, up to its get; a definition that is disabled by now *)
(* makes it throw. run goes by the definition it gets, the catch block by   *)
(* the link collected.                                                      *)
RunNext(t) ==
  /\ pc[t] = "next"
  /\ \E d \in Defs, s \in Links :
       /\ <<d, s>> \in due[t]
       /\ due' = [due EXCEPT ![t] = @ \ {<<d, s>>}]
       /\ link' = [link EXCEPT ![t] = s]
       /\ \/ /\ defs[d].status # "disabled"
             /\ Locals(t, d, defs[d], FALSE)
             /\ Goto(t, "acquire")
          \/ /\ defs[d].status = "disabled"
             /\ Locals(t, d, Null, FALSE)
             /\ Goto(t, "recover")
  /\ UNCHANGED <<defs, locks, running, faults>>

AfterReschedule(t) ==
  IF link[t] # Null THEN Goto(t, "markHealth") /\ UNCHANGED job
  ELSE Goto(t, "next") /\ job' = [job EXCEPT ![t] = Null]

(* catch: the latest definition is read again                               *)
Recover(t) ==
  /\ pc[t] = "recover"
  /\ \/ /\ defs[job[t]].schedule # Null
        /\ read' = [read EXCEPT ![t] = defs[job[t]]]
        /\ Goto(t, "reschedule")
        /\ UNCHANGED job
     \/ /\ defs[job[t]].schedule = Null
        /\ AfterReschedule(t)
        /\ UNCHANGED read
  /\ UNCHANGED <<defs, locks, running, failed, due, link, faults>>

(* The next time is computed from the start of the tick, so it may be past. *)
Reschedule(t) ==
  /\ pc[t] = "reschedule"
  /\ \E schedule \in Rescheduled(read[t].schedule.enabled, {"future", "due"}) :
       defs' = [defs EXCEPT ![job[t]] = [read[t] EXCEPT !.schedule = schedule]]
  /\ AfterReschedule(t)
  /\ read' = [read EXCEPT ![t] = Null]
  /\ UNCHANGED <<locks, running, failed, due, link, faults>>

(* { ...source, status: "error", lastFailureAt: now, lastError } of the      *)
(* source linked when the definition was collected                          *)
MarkHealth(t) ==
  /\ pc[t] = "markHealth"
  /\ Goto(t, "next")
  /\ Forget(t)
  /\ UNCHANGED <<defs, locks, running, due, faults>>

(* A bug: the guard is reset at the end of the loop only.                   *)
LeaveGuard(t) == running' = (due[t] # {})

(* finally { this.running = false }                                         *)
ResetGuard(t) == running' = FALSE

EndTick(t) ==
  /\ pc[t] = "next"
  /\ due[t] = {}
  /\ ResetGuard(t)
  /\ Goto(t, "idle")
  /\ Keep
  /\ UNCHANGED <<defs, locks, due, faults>>

(* A store call of the catch block throws, or, as often as it is made, the  *)
(* computation of a next run that is not in the coming year: the tick ends, *)
(* its other due definitions wait for the next one.                         *)
TickFails(t) ==
  /\ pc[t] \in {"recover", "reschedule", "markHealth"}
  /\ \/ faults < MaxFaults /\ faults' = faults + 1
     \/ /\ pc[t] = "reschedule" /\ job[t] \in Rare /\ read[t].schedule.enabled
        /\ UNCHANGED faults
  /\ ResetGuard(t)
  /\ due' = [due EXCEPT ![t] = {}]
  /\ Goto(t, "idle")
  /\ Forget(t)
  /\ UNCHANGED <<defs, locks>>

-----------------------------------------------------------------------------
(* The environment *)

TimePasses(d) ==
  /\ defs[d] # Null
  /\ defs[d].schedule # Null
  /\ defs[d].schedule.next = "future"
  /\ defs' = [defs EXCEPT ![d].schedule.next = "due"]
  /\ UNCHANGED <<locks, running, pc, job, read, failed, due, link, faults>>

(* The server dies and is started again: only the store survives.           *)
Crash ==
  /\ faults < MaxFaults
  /\ faults' = faults + 1
  /\ locks' = {}
  /\ running' = FALSE
  /\ pc' = [p \in Processes |-> "idle"]
  /\ job' = [p \in Processes |-> Null]
  /\ read' = [p \in Processes |-> Null]
  /\ failed' = [p \in Processes |-> FALSE]
  /\ due' = [t \in Ticks |-> {}]
  /\ link' = [p \in Processes |-> Null]
  /\ UNCHANGED defs

Init ==
  /\ defs = [d \in Defs |-> Null]
  /\ locks = {}
  /\ running = FALSE
  /\ pc = [p \in Processes |-> "idle"]
  /\ job = [p \in Processes |-> Null]
  /\ read = [p \in Processes |-> Null]
  /\ failed = [p \in Processes |-> FALSE]
  /\ due = [t \in Ticks |-> {}]
  /\ link = [p \in Processes |-> Null]
  /\ faults = 0

Run(p) ==
  \/ TryAcquire(p) \/ NotWritable(p) \/ Import(p) \/ ReadSource(p)
  \/ WriteSource(p) \/ WriteBack(p) \/ RunThrows(p) \/ Release(p)

TickStep(t) ==
  RunNext(t) \/ Recover(t) \/ Reschedule(t) \/ MarkHealth(t) \/ EndTick(t)

Next ==
  \/ \E q \in Requests : \/ StartCreate(q) \/ Insert(q) \/ StartPatch(q)
                          \/ WritePatch(q) \/ StartRun(q)
  \/ \E p \in Processes : Run(p)
  \/ \E t \in Ticks : StartTick(t) \/ TickStep(t) \/ TickFails(t)
  \/ \E d \in Defs : TimePasses(d)
  \/ Crash

Spec == Init /\ [][Next]_vars

(* The runtime settles every promise and fires the timer; nothing makes     *)
(* requests arrive, or the server fail.                                     *)
Fairness ==
  /\ \A p \in Processes : WF_vars(Run(p))
  /\ \A t \in Ticks : WF_vars(TickStep(t))
  /\ WF_vars(\E t \in Ticks : StartTick(t))

FairSpec == Spec /\ Fairness

-----------------------------------------------------------------------------
(* Properties *)

HoldsLock(p) == pc[p] \in RunLabels \ {"acquire"}

(* Overlapping runs of one definition are prevented, be they started by     *)
(* requests or by the scheduler.                                            *)
NoOverlappingRuns ==
  \A p, q \in Processes : HoldsLock(p) /\ HoldsLock(q) /\ job[p] = job[q] => p = q

(* The lock set holds exactly the definitions being run: a lock outlives no *)
(* run, however it ends, and a refused run takes none away.                 *)
LocksAccounted == locks = {job[p] : p \in {x \in Processes : HoldsLock(x)}}

Timed(row) ==
  row.schedule # Null => (row.schedule.enabled <=> row.schedule.next # "none")

(* An enabled schedule has a next run and a disabled one has none, whichever *)
(* stale copies of the definition are written back: collectDue passes over  *)
(* an enabled schedule without nextRunAt for ever.                          *)
EnabledHasNext == \A d \in Defs : defs[d] # Null => Timed(defs[d])

(* The guard is up exactly while a tick is under way, and one tick is at    *)
(* most.                                                                    *)
TicksGuarded ==
  /\ running <=> \E t \in Ticks : pc[t] # "idle"
  /\ \A t, u \in Ticks : pc[t] # "idle" /\ pc[u] # "idle" => t = u

(* Every run gives its lock back.                                           *)
LocksReleased == \A d \in Defs : d \in locks ~> d \notin locks

(* The scheduler takes up every definition that is due, unless it ceases to *)
(* be: neither a failing definition before it nor a crash stops it for good. *)
DueIsAttended ==
  \A d \in Defs : IsDue(d) ~> ~IsDue(d) \/ \E t \in Ticks : job[t] = d

(* Enabling and disabling is the administrator's: only a create or a patch  *)
(* changes the status of a definition or switches its schedule.             *)
Settings(d) ==
  IF defs[d] = Null THEN <<Null, Null>>
  ELSE <<defs[d].status, IF defs[d].schedule = Null THEN Null ELSE defs[d].schedule.enabled>>

AdminChangesSurvive ==
  [][(\A q \in Requests : ~Insert(q) /\ ~WritePatch(q)) =>
       \A d \in Defs : Settings(d)' = Settings(d)]_vars

-----------------------------------------------------------------------------
(* The inductive invariant *)

(* What a handler has read and is working on, by where it is                *)
JobsMatchLabels ==
  /\ \A p \in Processes :
       /\ pc[p] \notin {"idle", "next"} => job[p] \in Defs
       /\ pc[p] \in {"patch", "acquire", "import", "readSource", "writeSource",
                    "writeBack", "reschedule"} => read[p] # Null
       /\ pc[p] \in {"writeBack", "reschedule"} => read[p].schedule # Null
       /\ pc[p] \in {"readSource", "writeSource"} => read[p] # Null /\ read[p].source \in Sources
       /\ pc[p] = "markHealth" => link[p] \in Sources
       /\ pc[p] \notin {"idle", "next", "insert"} => defs[job[p]] # Null
  /\ \A t \in Ticks : \A e \in due[t] : defs[e[1]] # Null

(* A stale copy of a definition is at least timed like a definition.        *)
ReadsTimed == \A p \in Processes : read[p] # Null => Timed(read[p])

IInv ==
  /\ TypeOK /\ JobsMatchLabels /\ ReadsTimed /\ EnabledHasNext
  /\ LocksAccounted /\ NoOverlappingRuns /\ TicksGuarded

=============================================================================
