-------------------------- MODULE ImportRunsProofs --------------------------
(* Proofs of the safety properties of ImportRuns, for any number of         *)
(* projects, datasets, runs and administrators.                             *)
EXTENDS ImportRuns, TLAPS

(* A step of an administrator's handler leaves every run where it is.       *)
LEMMA AdminFrame ==
  ASSUME IInv, NEW a \in Admins, NEW label \in AdminLabels,
         Goto(a, label), UNCHANGED runs
  PROVE  /\ Progress' /\ RecordTruthful'
         /\ pc' \in [Runs \cup Admins -> RunLabels \cup AdminLabels]
         /\ \A r \in Runs : pc'[r] = pc[r]
         /\ pc'[a] = label
         /\ \A b \in Admins \ {a} : pc'[b] = pc[b]
  <1>1. /\ pc' \in [Runs \cup Admins -> RunLabels \cup AdminLabels]
        /\ \A r \in Runs : pc'[r] = pc[r]
        /\ pc'[a] = label
        /\ \A b \in Admins \ {a} : pc'[b] = pc[b]
    BY ConstantsAssumption DEF IInv, TypeOK, Goto
  <1>2. record' = record /\ written' = written /\ rows' = rows
    BY DEF runs
  <1>3. Progress'
    BY <1>1, <1>2 DEF IInv, Progress, RunProgress, HasWrites
  <1>4. RecordTruthful'
    BY <1>2 DEF IInv, RecordTruthful, TruthfulRecord
  <1> QED BY <1>1, <1>3, <1>4

(* The types that such a step keeps as well.                                *)
LEMMA AdminTypes ==
  ASSUME IInv, NEW a \in Admins, NEW label \in AdminLabels,
         Goto(a, label), UNCHANGED runs,
         NEW held \in TasksAt(label) \cap Tasks, task' = [task EXCEPT ![a] = held],
         status' \in [Projects -> Statuses],
         archivedAt' \in [Projects -> BOOLEAN],
         owner' \in [Datasets -> Projects \cup {Null}],
         owners' \in [Runs -> SUBSET (Projects \cup {Null})],
         active' \in [Runs -> SUBSET Projects]
  PROVE  TypeOK'
  <1>1. /\ pc' \in [Runs \cup Admins -> RunLabels \cup AdminLabels]
        /\ \A r \in Runs : pc'[r] = pc[r]
        /\ pc'[a] = label
        /\ \A b \in Admins \ {a} : pc'[b] = pc[b]
    BY AdminFrame
  <1>2. /\ task' \in [Admins -> Tasks]
        /\ task'[a] = held
        /\ \A b \in Admins \ {a} : task'[b] = task[b]
    BY DEF IInv, TypeOK
  <1>3. \A b \in Admins : task'[b] \in TasksAt(pc'[b])
    <2> SUFFICES ASSUME NEW b \in Admins PROVE task'[b] \in TasksAt(pc'[b])
      OBVIOUS
    <2>1. CASE b = a
      BY <2>1, <1>1, <1>2
    <2>2. CASE b # a
      <3>1. task[b] \in TasksAt(pc[b])
        BY DEF IInv, TypeOK
      <3> QED BY <3>1, <2>2, <1>1, <1>2
    <2> QED BY <2>1, <2>2
  <1>4. \A b \in Admins : pc'[b] \in AdminLabels
    BY <1>1 DEF IInv, TypeOK
  <1>5. /\ record' \in [Runs -> Records] /\ written' \in [Runs -> SUBSET Kinds]
        /\ seen' \in [Runs -> Projects \cup {Null}] /\ rows' \in [Runs -> FileRows]
        /\ faults' \in 0 .. MaxFaults
        /\ \A r \in Runs : pc'[r] \in RunLabels
        /\ \A r \in Runs : pc'[r] \in {"readStatus", "record"} => seen'[r] \in Projects
    BY <1>1 DEF IInv, TypeOK, runs
  <1> QED BY <1>1, <1>2, <1>3, <1>4, <1>5 DEF TypeOK

(* A window only grows while administrators act.                            *)
LEMMA WindowGrows ==
  ASSUME IInv, Observe, owner' \in [Datasets -> Projects \cup {Null}],
         \A r \in Runs : pc'[r] = pc[r], seen' = seen
  PROVE  /\ WindowOpen'
         /\ owners' \in [Runs -> SUBSET (Projects \cup {Null})]
         /\ active' \in [Runs -> SUBSET Projects]
  <1>1. /\ owners' \in [Runs -> SUBSET (Projects \cup {Null})]
        /\ active' \in [Runs -> SUBSET Projects]
    BY ConstantsAssumption DEF IInv, TypeOK, Observe
  <1>2. \A r \in Runs : owners[r] \subseteq owners'[r] /\ active[r] \subseteq active'[r]
    BY DEF Observe
  <1>3. \A r \in Watching : ActiveProjects' \subseteq active'[r]
    BY DEF Observe, ActiveProjects, Watching
  <1>4. WindowOpen'
    BY <1>2, <1>3 DEF IInv, WindowOpen, RunWindow, Watching
  <1> QED BY <1>1, <1>4

-----------------------------------------------------------------------------
(* Steps of the administrators                                              *)

LEMMA Steady ==
  ASSUME IInv, NEW a \in Admins, NEW label \in AdminLabels, Goto(a, label),
         NEW held \in TasksAt(label) \cap Tasks, task' = [task EXCEPT ![a] = held],
         label = "setStatus" => CheckedTransition(held),
         UNCHANGED <<admin, runs, window>>
  PROVE  IInv'
  <1>1. /\ Progress' /\ RecordTruthful'
        /\ \A r \in Runs : pc'[r] = pc[r]
        /\ pc'[a] = label
        /\ \A b \in Admins \ {a} : pc'[b] = pc[b]
    BY AdminFrame
  <1>2. TypeOK'
    <2>1. /\ status' \in [Projects -> Statuses]
          /\ archivedAt' \in [Projects -> BOOLEAN]
          /\ owner' \in [Datasets -> Projects \cup {Null}]
          /\ owners' \in [Runs -> SUBSET (Projects \cup {Null})]
          /\ active' \in [Runs -> SUBSET Projects]
      BY DEF IInv, TypeOK, admin, window
    <2> QED BY <2>1, AdminTypes
  <1>3. StatusRead'
    BY <1>1 DEF IInv, TypeOK, StatusRead, CheckedTransition
  <1>4. WindowOpen'
    BY <1>1 DEF IInv, WindowOpen, RunWindow, ActiveProjects, admin, runs, window
  <1>5. ArchivedAtConsistent'
    BY DEF IInv, ArchivedAtConsistent, admin
  <1> QED BY <1>1, <1>2, <1>3, <1>4, <1>5 DEF IInv

LEMMA StartSetStatusStep ==
  ASSUME IInv, NEW a \in Admins, StartSetStatus(a)
  PROVE  IInv'
  <1>1. PICK p \in Projects : \E next \in AllowedTransitions[status[p]] \ {status[p]} :
          task' = [task EXCEPT ![a] = [project |-> p, from |-> status[p],
                                       had |-> archivedAt[p], to |-> next]]
    BY DEF StartSetStatus
  <1>0. PICK next \in AllowedTransitions[status[p]] \ {status[p]} :
          task' = [task EXCEPT ![a] = [project |-> p, from |-> status[p],
                                       had |-> archivedAt[p], to |-> next]]
    BY <1>1
  <1> DEFINE held == [project |-> p, from |-> status[p],
                      had |-> archivedAt[p], to |-> next]
  <1>2. status[p] \in Statuses /\ archivedAt[p] \in BOOLEAN
    BY DEF IInv, TypeOK
  <1>3. next \in Statuses
    BY <1>0, <1>2 DEF AllowedTransitions, Statuses
  <1>4. held \in TasksAt("setStatus") \cap Tasks
    BY <1>2, <1>3 DEF TasksAt, Tasks, StatusTasks
  <1>5. CheckedTransition(held)
    BY <1>0 DEF IInv, ArchivedAtConsistent, CheckedTransition
  <1>6. "setStatus" \in AdminLabels /\ Goto(a, "setStatus")
    BY DEF StartSetStatus, AdminLabels
  <1> HIDE DEF held
  <1>7. task' = [task EXCEPT ![a] = held]
    BY <1>0 DEF held
  <1> QED BY <1>4, <1>5, <1>6, <1>7, Steady DEF StartSetStatus

LEMMA StartDatasetTaskStep ==
  ASSUME IInv, NEW a \in Admins, NEW label \in {"createLook", "reassignLook"},
         StartDatasetTask(a, label)
  PROVE  IInv'
  <1>1. PICK p \in ActiveProjects, d \in Datasets :
          task' = [task EXCEPT ![a] = [project |-> p, dataset |-> d]]
    BY DEF StartDatasetTask
  <1> DEFINE held == [project |-> p, dataset |-> d]
  <1>2. held \in TasksAt(label) \cap Tasks
    BY <1>1 DEF TasksAt, Tasks, DatasetTasks, ActiveProjects
  <1>3. label \in AdminLabels /\ Goto(a, label) /\ label # "setStatus"
    BY DEF StartDatasetTask, AdminLabels
  <1> HIDE DEF held
  <1>4. task' = [task EXCEPT ![a] = held]
    BY <1>1 DEF held
  <1> QED BY <1>2, <1>3, <1>4, Steady DEF StartDatasetTask

LEMMA LookUpStep ==
  ASSUME IInv, NEW a \in Admins, NEW found \in BOOLEAN,
         NEW label \in {"createLook", "reassignLook"},
         NEW next \in {"createWrite", "reassignWrite"},
         LookUp(a, label, found, next)
  PROVE  IInv'
  <1>1. task[a] \in DatasetTasks
    BY DEF IInv, TypeOK, LookUp, TasksAt
  <1>2. CASE Goto(a, next) /\ UNCHANGED task
    <2>1. task[a] \in TasksAt(next) \cap Tasks
      BY <1>1 DEF TasksAt, Tasks
    <2>2. task' = [task EXCEPT ![a] = task[a]]
      BY <1>2 DEF IInv, TypeOK
    <2>3. next \in AdminLabels /\ next # "setStatus"
      BY DEF AdminLabels
    <2> QED BY <1>2, <2>1, <2>2, <2>3, Steady DEF LookUp
  <1>3. CASE Goto(a, "idle") /\ task' = [task EXCEPT ![a] = Null]
    <2>1. Null \in TasksAt("idle") \cap Tasks
      BY DEF TasksAt, Tasks
    <2>2. "idle" \in AdminLabels
      BY DEF AdminLabels
    <2> QED BY <1>3, <2>1, <2>2, Steady DEF LookUp
  <1> QED BY <1>2, <1>3 DEF LookUp

LEMMA WriteStatusStep ==
  ASSUME IInv, NEW a \in Admins, WriteStatus(a)
  PROVE  IInv'
  <1>1. task[a] \in StatusTasks /\ CheckedTransition(task[a])
    BY DEF IInv, TypeOK, StatusRead, WriteStatus, TasksAt
  <1>2. /\ task[a].project \in Projects /\ task[a].to \in Statuses
        /\ NewArchivedAt(task[a]) \in BOOLEAN
    BY <1>1 DEF StatusTasks, NewArchivedAt
  <1>3. /\ status' = [status EXCEPT ![task[a].project] = task[a].to]
        /\ archivedAt' = [archivedAt EXCEPT ![task[a].project] = NewArchivedAt(task[a])]
        /\ owner' = owner /\ Observe /\ Goto(a, "idle") /\ UNCHANGED runs
        /\ task' = [task EXCEPT ![a] = Null]
        /\ "idle" \in AdminLabels
    BY DEF WriteStatus, AdminLabels
  <1>4. /\ status' \in [Projects -> Statuses]
        /\ archivedAt' \in [Projects -> BOOLEAN]
        /\ owner' \in [Datasets -> Projects \cup {Null}]
    BY <1>2, <1>3 DEF IInv, TypeOK
  <1>5. /\ Progress' /\ RecordTruthful'
        /\ \A r \in Runs : pc'[r] = pc[r]
        /\ pc'[a] = "idle"
        /\ \A b \in Admins \ {a} : pc'[b] = pc[b]
    BY <1>3, AdminFrame
  <1>6. /\ WindowOpen'
        /\ owners' \in [Runs -> SUBSET (Projects \cup {Null})]
        /\ active' \in [Runs -> SUBSET Projects]
    BY <1>3, <1>4, <1>5, WindowGrows DEF runs
  <1>7. TypeOK'
    <2>1. Null \in TasksAt("idle") \cap Tasks
      BY DEF TasksAt, Tasks
    <2> QED BY <2>1, <1>3, <1>4, <1>6, AdminTypes
  <1>8. StatusRead'
    BY <1>3, <1>5 DEF IInv, TypeOK, StatusRead, CheckedTransition
  <1>9. ArchivedAtConsistent'
    <2> SUFFICES ASSUME NEW p \in Projects
                 PROVE  archivedAt'[p] <=> status'[p] = "archived"
      BY DEF ArchivedAtConsistent
    <2>1. CASE p = task[a].project
      <3>1. archivedAt'[p] = NewArchivedAt(task[a]) /\ status'[p] = task[a].to
        BY <2>1, <1>3 DEF IInv, TypeOK
      <3>2. NewArchivedAt(task[a]) <=> task[a].to = "archived"
        BY <1>1 DEF NewArchivedAt, CheckedTransition, AllowedTransitions,
                    StatusTasks, Statuses
      <3> QED BY <3>1, <3>2
    <2>2. CASE p # task[a].project
      BY <2>2, <1>3 DEF IInv, TypeOK, ArchivedAtConsistent
    <2> QED BY <2>1, <2>2
  <1> QED BY <1>5, <1>6, <1>7, <1>8, <1>9 DEF IInv

LEMMA SetOwnerStep ==
  ASSUME IInv, NEW a \in Admins, NEW p \in Projects \cup {Null}, SetOwner(a, p)
  PROVE  IInv'
  <1>1. /\ owner' = [owner EXCEPT ![task[a].dataset] = p]
        /\ status' = status /\ archivedAt' = archivedAt
        /\ Observe /\ Goto(a, "idle") /\ UNCHANGED runs
        /\ task' = [task EXCEPT ![a] = Null]
        /\ "idle" \in AdminLabels
    BY DEF SetOwner, AdminLabels
  <1>2. /\ status' \in [Projects -> Statuses]
        /\ archivedAt' \in [Projects -> BOOLEAN]
        /\ owner' \in [Datasets -> Projects \cup {Null}]
    BY <1>1 DEF IInv, TypeOK
  <1>3. /\ Progress' /\ RecordTruthful'
        /\ \A r \in Runs : pc'[r] = pc[r]
        /\ pc'[a] = "idle"
        /\ \A b \in Admins \ {a} : pc'[b] = pc[b]
    BY <1>1, AdminFrame
  <1>4. /\ WindowOpen'
        /\ owners' \in [Runs -> SUBSET (Projects \cup {Null})]
        /\ active' \in [Runs -> SUBSET Projects]
    BY <1>1, <1>2, <1>3, WindowGrows DEF runs
  <1>5. TypeOK'
    <2>1. Null \in TasksAt("idle") \cap Tasks
      BY DEF TasksAt, Tasks
    <2> QED BY <2>1, <1>1, <1>2, <1>4, AdminTypes
  <1>6. StatusRead'
    BY <1>1, <1>3 DEF IInv, TypeOK, StatusRead, CheckedTransition
  <1>7. ArchivedAtConsistent'
    BY <1>1 DEF IInv, ArchivedAtConsistent
  <1> QED BY <1>3, <1>4, <1>5, <1>6, <1>7 DEF IInv

LEMMA AdministerStep ==
  ASSUME IInv, NEW a \in Admins, Administer(a)
  PROVE  IInv'
  <1>1. CASE StartSetStatus(a)
    BY <1>1, StartSetStatusStep
  <1>2. CASE WriteStatus(a)
    BY <1>2, WriteStatusStep
  <1>3. CASE StartCreate(a) \/ StartReassign(a)
    BY <1>3, StartDatasetTaskStep DEF StartCreate, StartReassign
  <1>4. CASE LookUpForCreate(a) \/ LookUpForReassign(a)
    BY <1>4, LookUpStep DEF LookUpForCreate, LookUpForReassign
  <1>5. CASE CreateDataset(a)
    <2>1. task[a] \in DatasetTasks
      BY <1>5 DEF IInv, TypeOK, CreateDataset, TasksAt
    <2>2. InsertedOwner(task[a]) \in Projects \cup {Null}
      BY <2>1 DEF IInv, TypeOK, InsertedOwner, DatasetTasks
    <2> QED BY <1>5, <2>2, SetOwnerStep DEF CreateDataset
  <1>6. CASE ReassignDataset(a)
    <2>1. task[a] \in DatasetTasks
      BY <1>6 DEF IInv, TypeOK, ReassignDataset, TasksAt
    <2>2. task[a].project \in Projects \cup {Null}
      BY <2>1 DEF DatasetTasks
    <2> QED BY <1>6, <2>2, SetOwnerStep DEF ReassignDataset
  <1> QED BY <1>1, <1>2, <1>3, <1>4, <1>5, <1>6 DEF Administer

-----------------------------------------------------------------------------
(* Steps of the runs                                                        *)

(* A step of a run leaves the administrators' state and handlers alone.     *)
LEMMA RunFrame ==
  ASSUME IInv, NEW r \in Runs, NEW label \in RunLabels, Goto(r, label),
         UNCHANGED <<admin, task>>
  PROVE  /\ StatusRead' /\ ArchivedAtConsistent'
         /\ pc'[r] = label
         /\ \A q \in Runs \ {r} : pc'[q] = pc[q]
         /\ pc' \in [Runs \cup Admins -> RunLabels \cup AdminLabels]
         /\ \A q \in Runs : pc'[q] \in RunLabels
         /\ \A a \in Admins : pc'[a] = pc[a]
  <1>1. \A a \in Admins : a # r
    BY ConstantsAssumption
  <1>2. /\ pc'[r] = label
        /\ \A q \in Runs \ {r} : pc'[q] = pc[q]
        /\ pc' \in [Runs \cup Admins -> RunLabels \cup AdminLabels]
        /\ \A q \in Runs : pc'[q] \in RunLabels
        /\ \A a \in Admins : pc'[a] = pc[a]
    BY <1>1 DEF IInv, TypeOK, Goto
  <1>3. StatusRead'
    BY <1>2 DEF IInv, StatusRead, CheckedTransition
  <1>4. ArchivedAtConsistent'
    BY DEF IInv, ArchivedAtConsistent, admin
  <1> QED BY <1>2, <1>3, <1>4

(* What such a step does to the runs' variables and handlers otherwise.     *)
FrameOf(r) ==
  /\ record' \in [Runs -> Records] /\ written' \in [Runs -> SUBSET Kinds]
  /\ seen' \in [Runs -> Projects \cup {Null}] /\ rows' \in [Runs -> FileRows]
  /\ owners' \in [Runs -> SUBSET (Projects \cup {Null})]
  /\ active' \in [Runs -> SUBSET Projects]
  /\ faults' \in 0 .. MaxFaults
  /\ \A q \in Runs \ {r} :
       /\ record'[q] = record[q] /\ written'[q] = written[q]
       /\ seen'[q] = seen[q] /\ rows'[q] = rows[q]
       /\ owners'[q] = owners[q] /\ active'[q] = active[q]

(* What the invariant says of one run.                                      *)
RunInv(r) ==
  /\ RunProgress(r) /\ RunWindow(r) /\ TruthfulRecord(r)
  /\ pc[r] \in {"readStatus", "record"} => seen[r] \in Projects

LEMMA RunHas ==
  ASSUME IInv, NEW r \in Runs
  PROVE  /\ RunInv(r)
         /\ record[r] \in Records /\ written[r] \subseteq Kinds
         /\ seen[r] \in Projects \cup {Null} /\ rows[r] \in FileRows
         /\ owner[DatasetOf[r]] \in Projects \cup {Null}
         /\ record \in [Runs -> Records] /\ written \in [Runs -> SUBSET Kinds]
         /\ seen \in [Runs -> Projects \cup {Null}] /\ rows \in [Runs -> FileRows]
         /\ owners \in [Runs -> SUBSET (Projects \cup {Null})]
         /\ active \in [Runs -> SUBSET Projects]
         /\ faults \in 0 .. MaxFaults
  BY ConstantsAssumption
  DEF IInv, TypeOK, Progress, WindowOpen, RecordTruthful, RunInv

(* It is enough to show what the invariant says of the run that steps.      *)
LEMMA RunStep ==
  ASSUME IInv, NEW r \in Runs, NEW label \in RunLabels, Goto(r, label),
         UNCHANGED <<admin, task>>, FrameOf(r), RunInv(r)'
  PROVE  IInv'
  <1>1. /\ StatusRead' /\ ArchivedAtConsistent'
        /\ pc'[r] = label
        /\ \A q \in Runs \ {r} : pc'[q] = pc[q]
        /\ pc' \in [Runs \cup Admins -> RunLabels \cup AdminLabels]
        /\ \A q \in Runs : pc'[q] \in RunLabels
        /\ \A a \in Admins : pc'[a] = pc[a]
    BY RunFrame
  <1>2. \A q \in Runs : RunInv(q)'
    <2> SUFFICES ASSUME NEW q \in Runs, q # r PROVE RunInv(q)'
      OBVIOUS
    <2>1. RunInv(q)
      BY RunHas
    <2>2. /\ record'[q] = record[q] /\ written'[q] = written[q]
          /\ seen'[q] = seen[q] /\ rows'[q] = rows[q]
          /\ owners'[q] = owners[q] /\ active'[q] = active[q]
          /\ pc'[q] = pc[q]
      BY <1>1 DEF FrameOf
    <2> QED
      BY <2>1, <2>2
      DEF RunInv, RunProgress, RunWindow, TruthfulRecord, HasWrites,
          ActiveProjects, admin
  <1>3. TypeOK'
    <2>1. /\ status' \in [Projects -> Statuses]
          /\ archivedAt' \in [Projects -> BOOLEAN]
          /\ owner' \in [Datasets -> Projects \cup {Null}]
          /\ task' \in [Admins -> Tasks]
          /\ \A a \in Admins : pc'[a] \in AdminLabels
          /\ \A a \in Admins : task'[a] \in TasksAt(pc'[a])
      BY <1>1 DEF IInv, TypeOK, admin
    <2>2. \A q \in Runs : pc'[q] \in {"readStatus", "record"} => seen'[q] \in Projects
      BY <1>2 DEF RunInv
    <2> QED BY <1>1, <2>1, <2>2 DEF TypeOK, FrameOf
  <1> QED
    BY <1>1, <1>2, <1>3
    DEF IInv, Progress, WindowOpen, RecordTruthful, RunInv

LEMMA StartRunStep ==
  ASSUME IInv, NEW r \in Runs, StartRun(r)
  PROVE  IInv'
  <1>1. FrameOf(r) /\ UNCHANGED <<admin, task>>
    <2>1. seen' \in [Runs -> Projects \cup {Null}] /\ \A q \in Runs \ {r} : seen'[q] = seen[q]
      BY RunHas DEF StartRun
    <2> QED BY <2>1, RunHas DEF FrameOf, StartRun, runs, window
  <1>2. CASE Goto(r, "done")
    <2>1. "done" \in RunLabels
      BY DEF RunLabels
    <2>2. pc'[r] = "done"
      BY <1>2, <2>1, <1>1, RunFrame
    <2>3. /\ seen'[r] = owner[DatasetOf[r]]
          /\ record'[r] = record[r]
          /\ written'[r] = written[r]
          /\ rows'[r] = rows[r]
          /\ owners'[r] = owners[r]
          /\ active'[r] = active[r]
      BY <1>2, RunHas DEF StartRun, runs, window
    <2>4. RunInv(r)'
      BY <2>2, <2>3, <1>2, RunHas DEF StartRun, RunInv, RunProgress,
         RunWindow, TruthfulRecord, HasWrites, runs, window
    <2> QED BY <1>1, <1>2, <2>1, <2>4, RunStep
  <1>3. CASE Goto(r, "readStatus") /\ owner[DatasetOf[r]] # Null
    <2>1. "readStatus" \in RunLabels
      BY DEF RunLabels
    <2>2. pc'[r] = "readStatus"
      BY <1>3, <2>1, <1>1, RunFrame
    <2>3. /\ seen'[r] = owner[DatasetOf[r]]
          /\ record'[r] = record[r]
          /\ written'[r] = written[r]
          /\ rows'[r] = rows[r]
          /\ owners'[r] = owners[r]
          /\ active'[r] = active[r]
      BY <1>3, RunHas DEF StartRun, runs, window
    <2>4. RunInv(r)'
      BY <2>2, <2>3, <1>3, RunHas DEF StartRun, RunInv, RunProgress,
         RunWindow, TruthfulRecord, HasWrites, runs, window
    <2> QED BY <1>1, <1>3, <2>1, <2>4, RunStep
  <1> QED BY <1>2, <1>3 DEF StartRun, Goto

LEMMA ReadStatusStep ==
  ASSUME IInv, NEW r \in Runs, ReadStatus(r)
  PROVE  IInv'
  <1>1. FrameOf(r) /\ UNCHANGED <<admin, task>>
    <2> QED BY RunHas DEF FrameOf, ReadStatus, runs, window
  <1>2. CASE Goto(r, "record")
    <2>1. "record" \in RunLabels
      BY DEF RunLabels
    <2>2. pc'[r] = "record"
      BY <1>2, <2>1, <1>1, RunFrame
    <2>3. /\ record'[r] = record[r]
          /\ written'[r] = written[r]
          /\ seen'[r] = seen[r]
          /\ rows'[r] = rows[r]
          /\ owners'[r] = owners[r]
          /\ active'[r] = active[r]
      BY <1>2, RunHas DEF ReadStatus, runs, window
    <2>4. RunInv(r)'
      BY <2>2, <2>3, <1>2, RunHas DEF ReadStatus, RunInv, RunProgress,
         RunWindow, TruthfulRecord, HasWrites, runs, window
    <2> QED BY <1>1, <1>2, <2>1, <2>4, RunStep
  <1>3. CASE Goto(r, "done")
    <2>1. "done" \in RunLabels
      BY DEF RunLabels
    <2>2. pc'[r] = "done"
      BY <1>3, <2>1, <1>1, RunFrame
    <2>3. /\ record'[r] = record[r]
          /\ written'[r] = written[r]
          /\ seen'[r] = seen[r]
          /\ rows'[r] = rows[r]
          /\ owners'[r] = owners[r]
          /\ active'[r] = active[r]
      BY <1>3, RunHas DEF ReadStatus, runs, window
    <2>4. RunInv(r)'
      BY <2>2, <2>3, <1>3, RunHas DEF ReadStatus, RunInv, RunProgress,
         RunWindow, TruthfulRecord, HasWrites, runs, window
    <2> QED BY <1>1, <1>3, <2>1, <2>4, RunStep
  <1> QED BY <1>2, <1>3 DEF ReadStatus, Goto

LEMMA RecordRunStep ==
  ASSUME IInv, NEW r \in Runs, RecordRun(r)
  PROVE  IInv'
  <1>1. FrameOf(r) /\ UNCHANGED <<admin, task>>
    <2>1. Started \in Records
      BY RunHas DEF Started, Records
    <2>2. record' \in [Runs -> Records] /\ \A q \in Runs \ {r} : record'[q] = record[q]
      BY <2>1, RunHas DEF RecordRun
    <2>3. faults' \in 0 .. MaxFaults
      BY RunHas, ConstantsAssumption DEF RecordRun
    <2> QED BY <2>2, <2>3, RunHas DEF FrameOf, RecordRun, runs, window
  <1>2. CASE Goto(r, "process") /\ record' = [record EXCEPT ![r] = Started]
    <2>1. "process" \in RunLabels
      BY DEF RunLabels
    <2>2. pc'[r] = "process"
      BY <1>2, <2>1, <1>1, RunFrame
    <2>3. /\ record'[r] = Started
          /\ written'[r] = written[r]
          /\ seen'[r] = seen[r]
          /\ rows'[r] = rows[r]
          /\ owners'[r] = owners[r]
          /\ active'[r] = active[r]
      BY <1>2, RunHas DEF RecordRun, runs, window, Started, NoRecord
    <2>4. RunInv(r)'
      BY <2>2, <2>3, <1>2, RunHas DEF RecordRun, RunInv, RunProgress,
         RunWindow, TruthfulRecord, HasWrites, runs, window, Started, NoRecord
    <2> QED BY <1>1, <1>2, <2>1, <2>4, RunStep
  <1>3. CASE Goto(r, "done") /\ UNCHANGED record
    <2>1. "done" \in RunLabels
      BY DEF RunLabels
    <2>2. pc'[r] = "done"
      BY <1>3, <2>1, <1>1, RunFrame
    <2>3. /\ record'[r] = record[r]
          /\ written'[r] = written[r]
          /\ seen'[r] = seen[r]
          /\ rows'[r] = rows[r]
          /\ owners'[r] = owners[r]
          /\ active'[r] = active[r]
      BY <1>3, RunHas DEF RecordRun, runs, window, NoRecord
    <2>4. RunInv(r)'
      BY <2>2, <2>3, <1>3, RunHas DEF RecordRun, RunInv, RunProgress,
         RunWindow, TruthfulRecord, HasWrites, runs, window, NoRecord
    <2> QED BY <1>1, <1>3, <2>1, <2>4, RunStep
  <1>4. CASE Goto(r, "crashed") /\ record' = [record EXCEPT ![r] = Started]
    <2>1. "crashed" \in RunLabels
      BY DEF RunLabels
    <2>2. pc'[r] = "crashed"
      BY <1>4, <2>1, <1>1, RunFrame
    <2>3. /\ record'[r] = Started
          /\ written'[r] = written[r]
          /\ seen'[r] = seen[r]
          /\ rows'[r] = rows[r]
          /\ owners'[r] = owners[r]
          /\ active'[r] = active[r]
      BY <1>4, RunHas DEF RecordRun, runs, window, Started, NoRecord
    <2>4. RunInv(r)'
      BY <2>2, <2>3, <1>4, RunHas DEF RecordRun, RunInv, RunProgress,
         RunWindow, TruthfulRecord, HasWrites, runs, window, Started, NoRecord
    <2> QED BY <1>1, <1>4, <2>1, <2>4, RunStep
  <1> QED BY <1>2, <1>3, <1>4 DEF RecordRun

LEMMA ProcessRowsStep ==
  ASSUME IInv, NEW r \in Runs, ProcessRows(r)
  PROVE  IInv'
  <1>1. FrameOf(r) /\ UNCHANGED <<admin, task>>
    <2>1. rows' \in [Runs -> FileRows] /\ \A q \in Runs \ {r} : rows'[q] = rows[q]
      BY RunHas, ConstantsAssumption DEF ProcessRows, FileRows, Kinds
    <2> QED BY <2>1, RunHas DEF FrameOf, ProcessRows, runs, window
  <1>2. CASE Goto(r, "recheck")
    <2>1. "recheck" \in RunLabels
      BY DEF RunLabels
    <2>2. pc'[r] = "recheck"
      BY <1>2, <2>1, <1>1, RunFrame
    <2>3. /\ record'[r] = record[r]
          /\ written'[r] = written[r]
          /\ seen'[r] = seen[r]
          /\ owners'[r] = owners[r]
          /\ active'[r] = active[r]
      BY <1>2, RunHas DEF ProcessRows, runs, window, Started
    <2>4. RunInv(r)'
      BY <2>2, <2>3, <1>2, RunHas DEF ProcessRows, RunInv, RunProgress,
         RunWindow, TruthfulRecord, HasWrites, runs, window, Started
    <2> QED BY <1>1, <1>2, <2>1, <2>4, RunStep
  <1>3. CASE Goto(r, "fail") /\ UNCHANGED rows
    <2>1. "fail" \in RunLabels
      BY DEF RunLabels
    <2>2. pc'[r] = "fail"
      BY <1>3, <2>1, <1>1, RunFrame
    <2>3. /\ record'[r] = record[r]
          /\ written'[r] = written[r]
          /\ seen'[r] = seen[r]
          /\ rows'[r] = rows[r]
          /\ owners'[r] = owners[r]
          /\ active'[r] = active[r]
      BY <1>3, RunHas DEF ProcessRows, runs, window, Started
    <2>4. RunInv(r)'
      BY <2>2, <2>3, <1>3, RunHas DEF ProcessRows, RunInv, RunProgress,
         RunWindow, TruthfulRecord, HasWrites, runs, window, Started
    <2> QED BY <1>1, <1>3, <2>1, <2>4, RunStep
  <1> QED BY <1>2, <1>3 DEF ProcessRows, Goto

LEMMA RecheckOwnerStep ==
  ASSUME IInv, NEW r \in Runs, RecheckOwner(r)
  PROVE  IInv'
  <1>1. FrameOf(r) /\ UNCHANGED <<admin, task>>
    <2>1. seen' \in [Runs -> Projects \cup {Null}] /\ \A q \in Runs \ {r} : seen'[q] = seen[q]
      BY RunHas DEF RecheckOwner
    <2>2. owners' \in [Runs -> SUBSET (Projects \cup {Null})] /\ \A q \in Runs \ {r} : owners'[q] = owners[q]
      BY RunHas DEF RecheckOwner, OpenWindow
    <2>3. active' \in [Runs -> SUBSET Projects] /\ \A q \in Runs \ {r} : active'[q] = active[q]
      BY RunHas DEF RecheckOwner, OpenWindow, ActiveProjects
    <2> QED BY <2>1, <2>2, <2>3, RunHas DEF FrameOf, RecheckOwner, runs, window
  <1>2. CASE Goto(r, "fail")
    <2>1. "fail" \in RunLabels
      BY DEF RunLabels
    <2>2. pc'[r] = "fail"
      BY <1>2, <2>1, <1>1, RunFrame
    <2>3. /\ seen'[r] = owner[DatasetOf[r]]
          /\ owners'[r] = {owner[DatasetOf[r]]}
          /\ active'[r] = ActiveProjects
          /\ ActiveProjects' = ActiveProjects
          /\ record'[r] = record[r]
          /\ written'[r] = written[r]
          /\ rows'[r] = rows[r]
      BY <1>2, RunHas DEF RecheckOwner, runs, window, OpenWindow, Started,
         admin, ActiveProjects
    <2>4. RunInv(r)'
      BY <2>2, <2>3, <1>2, RunHas DEF RecheckOwner, RunInv, RunProgress,
         RunWindow, TruthfulRecord, HasWrites, runs, window, Started
    <2> QED BY <1>1, <1>2, <2>1, <2>4, RunStep
  <1>3. CASE Goto(r, "recheckStatus") /\ owner[DatasetOf[r]] # Null
    <2>1. "recheckStatus" \in RunLabels
      BY DEF RunLabels
    <2>2. pc'[r] = "recheckStatus"
      BY <1>3, <2>1, <1>1, RunFrame
    <2>3. /\ seen'[r] = owner[DatasetOf[r]]
          /\ owners'[r] = {owner[DatasetOf[r]]}
          /\ active'[r] = ActiveProjects
          /\ ActiveProjects' = ActiveProjects
          /\ record'[r] = record[r]
          /\ written'[r] = written[r]
          /\ rows'[r] = rows[r]
      BY <1>3, RunHas DEF RecheckOwner, runs, window, OpenWindow, Started,
         admin, ActiveProjects
    <2>4. RunInv(r)'
      BY <2>2, <2>3, <1>3, RunHas DEF RecheckOwner, RunInv, RunProgress,
         RunWindow, TruthfulRecord, HasWrites, runs, window, Started
    <2> QED BY <1>1, <1>3, <2>1, <2>4, RunStep
  <1> QED BY <1>2, <1>3 DEF RecheckOwner, Goto

LEMMA RecheckStatusStep ==
  ASSUME IInv, NEW r \in Runs, RecheckStatus(r)
  PROVE  IInv'
  <1>1. FrameOf(r) /\ UNCHANGED <<admin, task>>
    <2>1. seen' \in [Runs -> Projects \cup {Null}] /\ \A q \in Runs \ {r} : seen'[q] = seen[q]
      BY RunHas DEF RecheckStatus
    <2> QED BY <2>1, RunHas DEF FrameOf, RecheckStatus, runs, window
  <1>2. CASE Goto(r, "write") /\ seen[r] \in ActiveProjects /\ HasWrites(r)
    <2>1. "write" \in RunLabels
      BY DEF RunLabels
    <2>2. pc'[r] = "write"
      BY <1>2, <2>1, <1>1, RunFrame
    <2>3. /\ record'[r] = record[r]
          /\ written'[r] = written[r]
          /\ rows'[r] = rows[r]
          /\ owners'[r] = owners[r]
          /\ active'[r] = active[r]
          /\ owners'[r] \cap active'[r] # {}
      BY <1>2, RunHas DEF RecheckStatus, runs, window, Started, RunInv,
         RunWindow, ActiveProjects, HasWrites
    <2>4. RunInv(r)'
      BY <2>2, <2>3, <1>2, RunHas DEF RecheckStatus, RunInv, RunProgress,
         RunWindow, TruthfulRecord, HasWrites, runs, window, Started
    <2> QED BY <1>1, <1>2, <2>1, <2>4, RunStep
  <1>3. CASE Goto(r, "finish") /\ seen[r] \in ActiveProjects /\ ~HasWrites(r)
    <2>1. "finish" \in RunLabels
      BY DEF RunLabels
    <2>2. pc'[r] = "finish"
      BY <1>3, <2>1, <1>1, RunFrame
    <2>3. /\ record'[r] = record[r]
          /\ written'[r] = written[r]
          /\ rows'[r] = rows[r]
          /\ owners'[r] = owners[r]
          /\ active'[r] = active[r]
      BY <1>3, RunHas DEF RecheckStatus, runs, window, Started, RunInv,
         RunWindow, ActiveProjects, HasWrites
    <2>4. RunInv(r)'
      BY <2>2, <2>3, <1>3, RunHas DEF RecheckStatus, RunInv, RunProgress,
         RunWindow, TruthfulRecord, HasWrites, runs, window, Started
    <2> QED BY <1>1, <1>3, <2>1, <2>4, RunStep
  <1>4. CASE Goto(r, "refuse") /\ seen[r] \notin ActiveProjects
    <2>1. "refuse" \in RunLabels
      BY DEF RunLabels
    <2>2. pc'[r] = "refuse"
      BY <1>4, <2>1, <1>1, RunFrame
    <2>3. /\ record'[r] = record[r]
          /\ written'[r] = written[r]
          /\ rows'[r] = rows[r]
          /\ owners'[r] = owners[r]
          /\ active'[r] = active[r]
      BY <1>4, RunHas DEF RecheckStatus, runs, window, Started, RunInv,
         RunWindow, ActiveProjects, HasWrites
    <2>4. RunInv(r)'
      BY <2>2, <2>3, <1>4, RunHas DEF RecheckStatus, RunInv, RunProgress,
         RunWindow, TruthfulRecord, HasWrites, runs, window, Started
    <2> QED BY <1>1, <1>4, <2>1, <2>4, RunStep
  <1>5. CASE Goto(r, "fail")
    <2>1. "fail" \in RunLabels
      BY DEF RunLabels
    <2>2. pc'[r] = "fail"
      BY <1>5, <2>1, <1>1, RunFrame
    <2>3. /\ record'[r] = record[r]
          /\ written'[r] = written[r]
          /\ rows'[r] = rows[r]
          /\ owners'[r] = owners[r]
          /\ active'[r] = active[r]
      BY <1>5, RunHas DEF RecheckStatus, runs, window
    <2>4. RunInv(r)'
      BY <2>2, <2>3, <1>5, RunHas DEF RecheckStatus, RunInv, RunProgress,
         RunWindow, TruthfulRecord, HasWrites, runs, window, Started
    <2> QED BY <1>1, <1>5, <2>1, <2>4, RunStep
  <1> QED BY <1>2, <1>3, <1>4, <1>5 DEF RecheckStatus, Goto

LEMMA RefuseStep ==
  ASSUME IInv, NEW r \in Runs, Refuse(r)
  PROVE  IInv'
  <1>1. FrameOf(r) /\ UNCHANGED <<admin, task>>
    <2>1. Failed("policy") \in Records
      BY RunHas DEF Failed, Records
    <2>2. record' \in [Runs -> Records] /\ \A q \in Runs \ {r} : record'[q] = record[q]
      BY <2>1, RunHas DEF Refuse
    <2>3. owners' \in [Runs -> SUBSET (Projects \cup {Null})] /\ \A q \in Runs \ {r} : owners'[q] = owners[q]
      BY RunHas DEF Refuse, CloseWindow
    <2>4. active' \in [Runs -> SUBSET Projects] /\ \A q \in Runs \ {r} : active'[q] = active[q]
      BY RunHas DEF Refuse, CloseWindow
    <2> QED BY <2>2, <2>3, <2>4, RunHas DEF FrameOf, Refuse, runs, window
  <1>2. CASE Goto(r, "done") /\ record' = [record EXCEPT ![r] = Failed("policy")]
    <2>1. "done" \in RunLabels
      BY DEF RunLabels
    <2>2. pc'[r] = "done"
      BY <1>2, <2>1, <1>1, RunFrame
    <2>3. /\ record'[r] = Failed("policy")
          /\ written'[r] = written[r]
          /\ seen'[r] = seen[r]
          /\ rows'[r] = rows[r]
      BY <1>2, RunHas DEF Refuse, runs, window, Started, Failed
    <2>4. RunInv(r)'
      BY <2>2, <2>3, <1>2, RunHas DEF Refuse, RunInv, RunProgress, RunWindow,
         TruthfulRecord, HasWrites, runs, window, Started, Failed
    <2> QED BY <1>1, <1>2, <2>1, <2>4, RunStep
  <1>3. CASE Goto(r, "fail") /\ record' = [record EXCEPT ![r] = Failed("policy")]
    <2>1. "fail" \in RunLabels
      BY DEF RunLabels
    <2>2. pc'[r] = "fail"
      BY <1>3, <2>1, <1>1, RunFrame
    <2>3. /\ record'[r] = Failed("policy")
          /\ written'[r] = written[r]
          /\ seen'[r] = seen[r]
          /\ rows'[r] = rows[r]
      BY <1>3, RunHas DEF Refuse, runs, window, Started, Failed
    <2>4. RunInv(r)'
      BY <2>2, <2>3, <1>3, RunHas DEF Refuse, RunInv, RunProgress, RunWindow,
         TruthfulRecord, HasWrites, runs, window, Started, Failed
    <2> QED BY <1>1, <1>3, <2>1, <2>4, RunStep
  <1>4. CASE Goto(r, "fail") /\ UNCHANGED record
    <2>1. "fail" \in RunLabels
      BY DEF RunLabels
    <2>2. pc'[r] = "fail"
      BY <1>4, <2>1, <1>1, RunFrame
    <2>3. /\ record'[r] = record[r]
          /\ written'[r] = written[r]
          /\ seen'[r] = seen[r]
          /\ rows'[r] = rows[r]
      BY <1>4, RunHas DEF Refuse, runs, window, Started, Failed
    <2>4. RunInv(r)'
      BY <2>2, <2>3, <1>4, RunHas DEF Refuse, RunInv, RunProgress, RunWindow,
         TruthfulRecord, HasWrites, runs, window, Started, Failed
    <2> QED BY <1>1, <1>4, <2>1, <2>4, RunStep
  <1> QED BY <1>2, <1>3, <1>4 DEF Refuse, Goto

LEMMA WriteStep ==
  ASSUME IInv, NEW r \in Runs, Write(r)
  PROVE  IInv'
  <1>1. FrameOf(r) /\ UNCHANGED <<admin, task>>
    <2>1. written' \in [Runs -> SUBSET Kinds] /\ \A q \in Runs \ {r} : written'[q] = written[q]
      BY RunHas DEF Write, Wrote, Kinds, FileRows
    <2> QED BY <2>1, RunHas DEF FrameOf, Write, runs, window
  <1>2. CASE Goto(r, "finish") /\ Wrote(r, rows[r].valid)
    <2>1. "finish" \in RunLabels
      BY DEF RunLabels
    <2>2. pc'[r] = "finish"
      BY <1>2, <2>1, <1>1, RunFrame
    <2>3. /\ written'[r] = written[r] \cup rows[r].valid
          /\ record'[r] = record[r]
          /\ seen'[r] = seen[r]
          /\ rows'[r] = rows[r]
          /\ owners'[r] = owners[r]
          /\ active'[r] = active[r]
      BY <1>2, RunHas DEF Write, runs, window, Wrote, Started, Kinds, FileRows
    <2>4. RunInv(r)'
      BY <2>2, <2>3, <1>2, RunHas DEF Write, RunInv, RunProgress, RunWindow,
         TruthfulRecord, HasWrites, runs, window, Started, Kinds, FileRows
    <2> QED BY <1>1, <1>2, <2>1, <2>4, RunStep
  <1>3. CASE Goto(r, "fail") /\ Wrote(r, rows[r].valid)
    <2>1. "fail" \in RunLabels
      BY DEF RunLabels
    <2>2. pc'[r] = "fail"
      BY <1>3, <2>1, <1>1, RunFrame
    <2>3. /\ written'[r] = written[r] \cup rows[r].valid
          /\ record'[r] = record[r]
          /\ seen'[r] = seen[r]
          /\ rows'[r] = rows[r]
          /\ owners'[r] = owners[r]
          /\ active'[r] = active[r]
      BY <1>3, RunHas DEF Write, runs, window, Wrote, Started, Kinds, FileRows
    <2>4. RunInv(r)'
      BY <2>2, <2>3, <1>3, RunHas DEF Write, RunInv, RunProgress, RunWindow,
         TruthfulRecord, HasWrites, runs, window, Started, Kinds, FileRows
    <2> QED BY <1>1, <1>3, <2>1, <2>4, RunStep
  <1>4. CASE Goto(r, "writeNew") /\ Wrote(r, rows[r].valid \cap {"matched"}) /\ "new" \in rows[r].valid
    <2>1. "writeNew" \in RunLabels
      BY DEF RunLabels
    <2>2. pc'[r] = "writeNew"
      BY <1>4, <2>1, <1>1, RunFrame
    <2>3. /\ written'[r] = written[r] \cup (rows[r].valid \cap {"matched"})
          /\ record'[r] = record[r]
          /\ seen'[r] = seen[r]
          /\ rows'[r] = rows[r]
          /\ owners'[r] = owners[r]
          /\ active'[r] = active[r]
      BY <1>4, RunHas DEF Write, runs, window, Wrote, Started, Kinds, FileRows
    <2>4. RunInv(r)'
      BY <2>2, <2>3, <1>4, RunHas DEF Write, RunInv, RunProgress, RunWindow,
         TruthfulRecord, HasWrites, runs, window, Started, Kinds, FileRows
    <2> QED BY <1>1, <1>4, <2>1, <2>4, RunStep
  <1>5. CASE Goto(r, "finish") /\ Wrote(r, rows[r].valid \cap {"matched"}) /\ "new" \notin rows[r].valid
    <2>1. "finish" \in RunLabels
      BY DEF RunLabels
    <2>2. pc'[r] = "finish"
      BY <1>5, <2>1, <1>1, RunFrame
    <2>3. /\ written'[r] = written[r] \cup (rows[r].valid \cap {"matched"})
          /\ record'[r] = record[r]
          /\ seen'[r] = seen[r]
          /\ rows'[r] = rows[r]
          /\ owners'[r] = owners[r]
          /\ active'[r] = active[r]
      BY <1>5, RunHas DEF Write, runs, window, Wrote, Started, Kinds, FileRows
    <2>4. RunInv(r)'
      BY <2>2, <2>3, <1>5, RunHas DEF Write, RunInv, RunProgress, RunWindow,
         TruthfulRecord, HasWrites, runs, window, Started, Kinds, FileRows
    <2> QED BY <1>1, <1>5, <2>1, <2>4, RunStep
  <1>6. CASE Goto(r, "fail") /\ UNCHANGED written
    <2>1. "fail" \in RunLabels
      BY DEF RunLabels
    <2>2. pc'[r] = "fail"
      BY <1>6, <2>1, <1>1, RunFrame
    <2>3. /\ record'[r] = record[r]
          /\ written'[r] = written[r]
          /\ seen'[r] = seen[r]
          /\ rows'[r] = rows[r]
          /\ owners'[r] = owners[r]
          /\ active'[r] = active[r]
      BY <1>6, RunHas DEF Write, runs, window, Started
    <2>4. RunInv(r)'
      BY <2>2, <2>3, <1>6, RunHas DEF Write, RunInv, RunProgress, RunWindow,
         TruthfulRecord, HasWrites, runs, window, Started
    <2> QED BY <1>1, <1>6, <2>1, <2>4, RunStep
  <1> QED BY <1>2, <1>3, <1>4, <1>5, <1>6 DEF Write, Goto

LEMMA WriteNewStep ==
  ASSUME IInv, NEW r \in Runs, WriteNew(r)
  PROVE  IInv'
  <1>1. FrameOf(r) /\ UNCHANGED <<admin, task>>
    <2>1. written' \in [Runs -> SUBSET Kinds] /\ \A q \in Runs \ {r} : written'[q] = written[q]
      BY RunHas DEF WriteNew, Wrote, Kinds, FileRows
    <2> QED BY <2>1, RunHas DEF FrameOf, WriteNew, runs, window
  <1>2. CASE Goto(r, "finish") /\ Wrote(r, {"new"})
    <2>1. "finish" \in RunLabels
      BY DEF RunLabels
    <2>2. pc'[r] = "finish"
      BY <1>2, <2>1, <1>1, RunFrame
    <2>3. /\ written'[r] = written[r] \cup {"new"}
          /\ record'[r] = record[r]
          /\ seen'[r] = seen[r]
          /\ rows'[r] = rows[r]
          /\ owners'[r] = owners[r]
          /\ active'[r] = active[r]
      BY <1>2, RunHas DEF WriteNew, runs, window, Wrote, Started, Kinds,
         FileRows
    <2>4. RunInv(r)'
      BY <2>2, <2>3, <1>2, RunHas DEF WriteNew, RunInv, RunProgress,
         RunWindow, TruthfulRecord, HasWrites, runs, window, Started, Kinds,
         FileRows
    <2> QED BY <1>1, <1>2, <2>1, <2>4, RunStep
  <1>3. CASE Goto(r, "fail") /\ Wrote(r, {"new"})
    <2>1. "fail" \in RunLabels
      BY DEF RunLabels
    <2>2. pc'[r] = "fail"
      BY <1>3, <2>1, <1>1, RunFrame
    <2>3. /\ written'[r] = written[r] \cup {"new"}
          /\ record'[r] = record[r]
          /\ seen'[r] = seen[r]
          /\ rows'[r] = rows[r]
          /\ owners'[r] = owners[r]
          /\ active'[r] = active[r]
      BY <1>3, RunHas DEF WriteNew, runs, window, Wrote, Started, Kinds,
         FileRows
    <2>4. RunInv(r)'
      BY <2>2, <2>3, <1>3, RunHas DEF WriteNew, RunInv, RunProgress,
         RunWindow, TruthfulRecord, HasWrites, runs, window, Started, Kinds,
         FileRows
    <2> QED BY <1>1, <1>3, <2>1, <2>4, RunStep
  <1>4. CASE Goto(r, "fail") /\ UNCHANGED written
    <2>1. "fail" \in RunLabels
      BY DEF RunLabels
    <2>2. pc'[r] = "fail"
      BY <1>4, <2>1, <1>1, RunFrame
    <2>3. /\ record'[r] = record[r]
          /\ written'[r] = written[r]
          /\ seen'[r] = seen[r]
          /\ rows'[r] = rows[r]
          /\ owners'[r] = owners[r]
          /\ active'[r] = active[r]
      BY <1>4, RunHas DEF WriteNew, runs, window, Started
    <2>4. RunInv(r)'
      BY <2>2, <2>3, <1>4, RunHas DEF WriteNew, RunInv, RunProgress,
         RunWindow, TruthfulRecord, HasWrites, runs, window, Started
    <2> QED BY <1>1, <1>4, <2>1, <2>4, RunStep
  <1> QED BY <1>2, <1>3, <1>4 DEF WriteNew, Goto

LEMMA FinishRunStep ==
  ASSUME IInv, NEW r \in Runs, FinishRun(r)
  PROVE  IInv'
  <1>1. FrameOf(r) /\ UNCHANGED <<admin, task>>
    <2>1. Outcome(rows[r]) \in Records
      BY RunHas DEF Outcome, Records, FileRows
    <2>2. record' \in [Runs -> Records] /\ \A q \in Runs \ {r} : record'[q] = record[q]
      BY <2>1, RunHas DEF FinishRun
    <2>3. owners' \in [Runs -> SUBSET (Projects \cup {Null})] /\ \A q \in Runs \ {r} : owners'[q] = owners[q]
      BY RunHas DEF FinishRun, CloseWindow
    <2>4. active' \in [Runs -> SUBSET Projects] /\ \A q \in Runs \ {r} : active'[q] = active[q]
      BY RunHas DEF FinishRun, CloseWindow
    <2> QED BY <2>2, <2>3, <2>4, RunHas DEF FrameOf, FinishRun, runs, window
  <1>2. CASE Goto(r, "done") /\ record' = [record EXCEPT ![r] = Outcome(rows[r])]
    <2>1. "done" \in RunLabels
      BY DEF RunLabels
    <2>2. pc'[r] = "done"
      BY <1>2, <2>1, <1>1, RunFrame
    <2>3. /\ record'[r] = Outcome(rows[r])
          /\ written'[r] = written[r]
          /\ seen'[r] = seen[r]
          /\ rows'[r] = rows[r]
      BY <1>2, RunHas DEF FinishRun, runs, window, Outcome, Started
    <2>4. RunInv(r)'
      BY <2>2, <2>3, <1>2, RunHas DEF FinishRun, RunInv, RunProgress,
         RunWindow, TruthfulRecord, HasWrites, runs, window, Outcome, Started
    <2> QED BY <1>1, <1>2, <2>1, <2>4, RunStep
  <1>3. CASE Goto(r, "fail") /\ record' = [record EXCEPT ![r] = Outcome(rows[r])]
    <2>1. "fail" \in RunLabels
      BY DEF RunLabels
    <2>2. pc'[r] = "fail"
      BY <1>3, <2>1, <1>1, RunFrame
    <2>3. /\ record'[r] = Outcome(rows[r])
          /\ written'[r] = written[r]
          /\ seen'[r] = seen[r]
          /\ rows'[r] = rows[r]
      BY <1>3, RunHas DEF FinishRun, runs, window, Outcome, Started
    <2>4. RunInv(r)'
      BY <2>2, <2>3, <1>3, RunHas DEF FinishRun, RunInv, RunProgress,
         RunWindow, TruthfulRecord, HasWrites, runs, window, Outcome, Started
    <2> QED BY <1>1, <1>3, <2>1, <2>4, RunStep
  <1>4. CASE Goto(r, "fail") /\ UNCHANGED record
    <2>1. "fail" \in RunLabels
      BY DEF RunLabels
    <2>2. pc'[r] = "fail"
      BY <1>4, <2>1, <1>1, RunFrame
    <2>3. /\ record'[r] = record[r]
          /\ written'[r] = written[r]
          /\ seen'[r] = seen[r]
          /\ rows'[r] = rows[r]
      BY <1>4, RunHas DEF FinishRun, runs, window, Outcome, Started
    <2>4. RunInv(r)'
      BY <2>2, <2>3, <1>4, RunHas DEF FinishRun, RunInv, RunProgress,
         RunWindow, TruthfulRecord, HasWrites, runs, window, Outcome, Started
    <2> QED BY <1>1, <1>4, <2>1, <2>4, RunStep
  <1> QED BY <1>2, <1>3, <1>4 DEF FinishRun, Goto

LEMMA FailRunStep ==
  ASSUME IInv, NEW r \in Runs, FailRun(r)
  PROVE  IInv'
  <1>1. FrameOf(r) /\ UNCHANGED <<admin, task>>
    <2>1. [record[r] EXCEPT !.status = "failed", !.why = "error"] \in Records
      BY RunHas DEF Records
    <2>2. record' \in [Runs -> Records] /\ \A q \in Runs \ {r} : record'[q] = record[q]
      BY <2>1, RunHas DEF FailRun
    <2>3. owners' \in [Runs -> SUBSET (Projects \cup {Null})] /\ \A q \in Runs \ {r} : owners'[q] = owners[q]
      BY RunHas DEF FailRun, CloseWindow
    <2>4. active' \in [Runs -> SUBSET Projects] /\ \A q \in Runs \ {r} : active'[q] = active[q]
      BY RunHas DEF FailRun, CloseWindow
    <2> QED BY <2>2, <2>3, <2>4, RunHas DEF FrameOf, FailRun, runs, window
  <1>2. CASE Goto(r, "done")
    <2>1. "done" \in RunLabels
      BY DEF RunLabels
    <2>2. pc'[r] = "done"
      BY <1>2, <2>1, <1>1, RunFrame
    <2>3. /\ record'[r].status = "failed"
          /\ record'[r].why = "error"
          /\ written'[r] = written[r]
          /\ seen'[r] = seen[r]
          /\ rows'[r] = rows[r]
      BY <1>2, RunHas DEF FailRun, runs, window, Records
    <2>4. RunInv(r)'
      BY <2>2, <2>3, <1>2, RunHas DEF FailRun, RunInv, RunProgress, RunWindow,
         TruthfulRecord, HasWrites, runs, window, Records
    <2> QED BY <1>1, <1>2, <2>1, <2>4, RunStep
  <1> QED BY <1>2 DEF FailRun, Goto

LEMMA CrashStep ==
  ASSUME IInv, NEW r \in Runs, Crash(r)
  PROVE  IInv'
  <1>1. FrameOf(r) /\ UNCHANGED <<admin, task>>
    <2>1. faults' \in 0 .. MaxFaults
      BY RunHas, ConstantsAssumption DEF Crash
    <2>2. owners' \in [Runs -> SUBSET (Projects \cup {Null})] /\ \A q \in Runs \ {r} : owners'[q] = owners[q]
      BY RunHas DEF Crash, CloseWindow
    <2>3. active' \in [Runs -> SUBSET Projects] /\ \A q \in Runs \ {r} : active'[q] = active[q]
      BY RunHas DEF Crash, CloseWindow
    <2> QED BY <2>1, <2>2, <2>3, RunHas DEF FrameOf, Crash, runs, window
  <1>2. CASE Goto(r, "crashed")
    <2>1. "crashed" \in RunLabels
      BY DEF RunLabels
    <2>2. pc'[r] = "crashed"
      BY <1>2, <2>1, <1>1, RunFrame
    <2>3. /\ record'[r] = record[r]
          /\ written'[r] = written[r]
          /\ seen'[r] = seen[r]
          /\ rows'[r] = rows[r]
      BY <1>2, RunHas DEF Crash, runs, window
    <2>4. RunInv(r)'
      BY <2>2, <2>3, <1>2, RunHas DEF Crash, RunInv, RunProgress, RunWindow,
         TruthfulRecord, HasWrites, runs, window
    <2> QED BY <1>1, <1>2, <2>1, <2>4, RunStep
  <1> QED BY <1>2 DEF Crash, Goto

LEMMA ImportStep ==
  ASSUME IInv, NEW r \in Runs, Import(r) \/ Crash(r)
  PROVE  IInv'
  BY StartRunStep, ReadStatusStep, RecordRunStep, ProcessRowsStep,
     RecheckOwnerStep, RecheckStatusStep, RefuseStep, WriteStep, WriteNewStep,
     FinishRunStep, FailRunStep, CrashStep DEF Import

-----------------------------------------------------------------------------
(* The theorems                                                             *)

LEMMA Initially ==
  ASSUME Init
  PROVE  IInv
  <1>1. TypeOK
    BY ConstantsAssumption
    DEF Init, TypeOK, TasksAt, Tasks, Records, NoRecord, FileRows, Kinds,
        RunLabels, AdminLabels
  <1>2. \A r \in Runs : pc[r] = "new"
    BY DEF Init
  <1>3. \A a \in Admins : pc[a] = "idle"
    BY ConstantsAssumption DEF Init
  <1>4. Progress
    BY <1>2 DEF Init, Progress, RunProgress
  <1>5. StatusRead
    BY <1>3 DEF StatusRead
  <1>6. WindowOpen
    BY <1>2 DEF WindowOpen, RunWindow
  <1>7. RecordTruthful
    BY DEF Init, RecordTruthful, TruthfulRecord, NoRecord
  <1>8. ArchivedAtConsistent
    BY DEF Init, ArchivedAtConsistent
  <1> QED BY <1>1, <1>4, <1>5, <1>6, <1>7, <1>8 DEF IInv

LEMMA Stutters ==
  ASSUME IInv, UNCHANGED vars
  PROVE  IInv'
  <1>1. UNCHANGED <<status, archivedAt, owner, record, written, seen, rows,
                    faults, owners, active, pc, task>>
    BY DEF vars, admin, runs, window
  <1> QED
    BY <1>1
    DEF IInv, TypeOK, Progress, RunProgress, HasWrites, StatusRead,
        CheckedTransition, WindowOpen, RunWindow, ActiveProjects,
        RecordTruthful, TruthfulRecord, ArchivedAtConsistent

(* The invariant on which the others rest: what is recorded and written at  *)
(* each point of runImport, and what the window of its second check has     *)
(* seen, hold whatever the administrators do meanwhile.                     *)
THEOREM Invariance == Spec => []IInv
  <1>1. Init => IInv
    BY Initially
  <1>2. IInv /\ [Next]_vars => IInv'
    BY AdministerStep, ImportStep, Stutters DEF Next
  <1> QED BY <1>1, <1>2, PTL DEF Spec

(* Every variable keeps its type, and a handler holds what its label says.  *)
THEOREM TypeCorrect == Spec => []TypeOK
  <1>1. IInv => TypeOK
    BY DEF IInv
  <1> QED BY <1>1, Invariance, PTL

(* The record of a run never claims rows that were not written, nor hides   *)
(* rows written by a refused or dry run (engine.ts 228-262).                *)
THEOREM RecordsAreTruthful == Spec => []RecordTruthful
  <1>1. IInv => RecordTruthful
    BY DEF IInv
  <1> QED BY <1>1, Invariance, PTL

(* archivedAt is set exactly while a project is archived, however many      *)
(* changes of status overlap (project/service.ts 121-159).                  *)
THEOREM ArchivalIsConsistent == Spec => []ArchivedAtConsistent
  <1>1. IInv => ArchivedAtConsistent
    BY DEF IInv
  <1> QED BY <1>1, Invariance, PTL

(* Rows are written only into a dataset that, within the window of the      *)
(* run's second check, belonged to a project that was active within it      *)
(* (engine.ts 199-244).                                                     *)
THEOREM PolicyIsHeld == Spec => PolicyHolds
  <1>1. IInv /\ [Next]_vars
          => \A r \in Runs : written'[r] # written[r] => owners[r] \cap active[r] # {}
    <2> SUFFICES ASSUME IInv, [Next]_vars, NEW r \in Runs, written'[r] # written[r]
                 PROVE  owners[r] \cap active[r] # {}
      OBVIOUS
    <2>1. PICK q \in Runs : Write(q) \/ WriteNew(q)
      BY DEF Next, vars, runs, Administer, StartSetStatus, WriteStatus, StartCreate,
             StartReassign, StartDatasetTask, LookUpForCreate, LookUpForReassign,
             LookUp, CreateDataset, ReassignDataset, SetOwner, Import, StartRun,
             ReadStatus, RecordRun, ProcessRows, RecheckOwner, RecheckStatus,
             Refuse, FinishRun, FailRun, Crash
    <2>2. q = r
      BY <2>1 DEF Write, WriteNew, Wrote, IInv, TypeOK
    <2> QED BY <2>1, <2>2 DEF Write, WriteNew, IInv, WindowOpen, RunWindow
  <1> QED BY <1>1, Invariance, PTL DEF Spec, PolicyHolds

(* A record that has ended is at most marked failed afterwards, never       *)
(* reopened or improved (engine.ts 204-224, 293-317).                       *)
THEOREM EndedRecordsStay == Spec => EndedStays
  <1> DEFINE Kept(r) == \/ record'[r] = record[r]
                        \/ record'[r].status = "failed" /\ record'[r].why = "error"
  <1>1. IInv /\ [Next]_vars
          => \A r \in Runs : record[r].status \in Terminal => Kept(r)
    <2> SUFFICES ASSUME IInv, [Next]_vars, NEW r \in Runs,
                        record[r].status \in Terminal, record'[r] # record[r]
                 PROVE  record'[r].status = "failed" /\ record'[r].why = "error"
      OBVIOUS
    <2>1. PICK q \in Runs : RecordRun(q) \/ Refuse(q) \/ FinishRun(q) \/ FailRun(q)
      BY DEF Next, vars, runs, Administer, StartSetStatus, WriteStatus, StartCreate,
             StartReassign, StartDatasetTask, LookUpForCreate, LookUpForReassign,
             LookUp, CreateDataset, ReassignDataset, SetOwner, Import, StartRun,
             ReadStatus, ProcessRows, RecheckOwner, RecheckStatus,
             Write, WriteNew, Crash
    <2>2. q = r
      BY <2>1 DEF RecordRun, Refuse, FinishRun, FailRun, IInv, TypeOK
    <2>3. pc[r] \notin {"record", "refuse", "finish"}
      BY DEF IInv, Progress, RunProgress, Terminal, NoRecord, Started
    <2>4. FailRun(r)
      BY <2>1, <2>2, <2>3 DEF RecordRun, Refuse, FinishRun
    <2> QED BY <2>4, RunHas DEF FailRun, Records
  <1> QED BY <1>1, Invariance, PTL DEF Spec, EndedStays

(* A dataset changes hands only by a reassignment (postgres.ts 324-334).    *)
THEOREM OwnersAreKept == Spec => OwnersKept
  <1> DEFINE Moved(d) ==
        \E a \in Admins : /\ pc[a] = "reassignWrite" /\ pc'[a] = "idle"
                          /\ task[a] = [project |-> owner'[d], dataset |-> d]
  <1>1. IInv /\ [Next]_vars
          => \A d \in Datasets : owner[d] # Null /\ owner'[d] # owner[d] => Moved(d)
    <2> SUFFICES ASSUME IInv, [Next]_vars, NEW d \in Datasets,
                        owner[d] # Null, owner'[d] # owner[d]
                 PROVE  Moved(d)
      OBVIOUS
    <2>1. PICK a \in Admins : CreateDataset(a) \/ ReassignDataset(a)
      BY DEF Next, vars, admin, Administer, StartSetStatus, WriteStatus, StartCreate,
             StartReassign, StartDatasetTask, LookUpForCreate, LookUpForReassign,
             LookUp, Import, StartRun, ReadStatus, RecordRun, ProcessRows,
             RecheckOwner, RecheckStatus, Refuse, Write, WriteNew, FinishRun,
             FailRun, Crash
    <2>2. task[a] \in DatasetTasks /\ pc \in [Runs \cup Admins -> RunLabels \cup AdminLabels]
      BY <2>1 DEF IInv, TypeOK, CreateDataset, ReassignDataset, TasksAt
    <2>3. CASE CreateDataset(a)
      <3>1. owner'[d] = owner[d]
        BY <2>2, <2>3 DEF CreateDataset, SetOwner, InsertedOwner, DatasetTasks,
                          IInv, TypeOK
      <3> QED BY <3>1
    <2>4. CASE ReassignDataset(a)
      <3>1. d = task[a].dataset /\ owner'[d] = task[a].project
        BY <2>2, <2>4 DEF ReassignDataset, SetOwner, DatasetTasks, IInv, TypeOK
      <3>2. pc[a] = "reassignWrite" /\ pc'[a] = "idle"
        BY <2>2, <2>4 DEF ReassignDataset, SetOwner, Goto
      <3>3. task[a] = [project |-> task[a].project, dataset |-> task[a].dataset]
        BY <2>2 DEF DatasetTasks
      <3> QED BY <3>1, <3>2, <3>3
    <2> QED BY <2>1, <2>3, <2>4
  <1> QED BY <1>1, Invariance, PTL DEF Spec, OwnersKept
=============================================================================
