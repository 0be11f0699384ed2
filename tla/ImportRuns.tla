----------------------------- MODULE ImportRuns -----------------------------
(***************************************************************************)
(* Import runs under the project write policy: projects with a status,     *)
(* datasets with an owning project, and runImport, which writes entities   *)
(* only into datasets of active projects and keeps a record of each run    *)
(* (packages/core/src/import/engine.ts, project/ and dataset/).            *)
(*                                                                         *)
(* Administrators change a project's status, create datasets and move them *)
(* to another project while imports run. A step is what runs from one      *)
(* await to the next.                                                      *)
(***************************************************************************)
EXTENDS Integers, FiniteSets

CONSTANTS
  Projects,
  Datasets,
  Runs,        \* calls of runImport
  DatasetOf,   \* Runs -> the dataset it imports into
  Admins,      \* handlers of administrative requests
  Files,       \* what processing a file may yield, see FileRows
  Null,
  MaxFaults    \* bound: runs that die on the way

ASSUME ConstantsAssumption ==
  /\ DatasetOf \in [Runs -> Datasets]
  /\ Files \subseteq [dry : BOOLEAN, valid : SUBSET {"matched", "new"}, bad : BOOLEAN]
  /\ Null \notin Projects
  /\ Runs \cap Admins = {}
  /\ MaxFaults \in Nat

VARIABLES
  status,      \* of each project
  archivedAt,  \* is the project's archivedAt set?
  owner,       \* the project of each dataset, or Null if it does not exist
  record,      \* the stored record of each run
  written,     \* history: the rows of each run that are in the entity store
  pc,          \* where each run and each administrator's handler is
  seen,        \* the owning project a run has read
  rows,        \* what processing the file of a run has yielded
  task,        \* what an administrator's handler is doing
  owners,      \* history: projects that owned the dataset since the re-check began
  active,      \* history: projects that were active since the re-check began
  faults       \* faults so far

admin == <<status, archivedAt, owner>>
runs == <<record, written, seen, rows, faults>>
window == <<owners, active>>
vars == <<admin, runs, window, pc, task>>

-----------------------------------------------------------------------------
(* Types *)

Statuses == {"active", "inactive", "archived"}

(* Rows of a file, as the upsert tells them apart                           *)
Kinds == {"matched", "new"}

(* dry: a dry run; valid: the rows that passed the pipeline; bad: some did not *)
FileRows == [dry : BOOLEAN, valid : SUBSET Kinds, bad : BOOLEAN]

Records == [status : {"none", "running", "completed", "partial", "failed"},
            imported : BOOLEAN, why : {"none", "policy", "error"}]

NoRecord == [status |-> "none", imported |-> FALSE, why |-> "none"]

Started == [status |-> "running", imported |-> FALSE, why |-> "none"]

Failed(why) == [status |-> "failed", imported |-> FALSE, why |-> why]

(* A status change holds the project as read (from, had) and the new status *)
StatusTasks == [project : Projects, from : Statuses, had : BOOLEAN, to : Statuses]

DatasetTasks == [project : Projects, dataset : Datasets]

Tasks == StatusTasks \cup DatasetTasks \cup {Null}

RunLabels == {"new", "readStatus", "record", "process", "recheck", "recheckStatus",
              "refuse", "write", "writeNew", "finish", "fail", "done", "crashed"}

AdminLabels == {"idle", "setStatus", "createLook", "createWrite",
                "reassignLook", "reassignWrite"}

(* What a handler holds at each of its labels                               *)
TasksAt(label) ==
  CASE label = "idle" -> {Null}
    [] label = "setStatus" -> StatusTasks
    [] OTHER -> DatasetTasks

(* One type invariant                                                       *)
TypeOK ==
  /\ status \in [Projects -> Statuses]
  /\ archivedAt \in [Projects -> BOOLEAN]
  /\ owner \in [Datasets -> Projects \cup {Null}]
  /\ record \in [Runs -> Records]
  /\ written \in [Runs -> SUBSET Kinds]
  /\ pc \in [Runs \cup Admins -> RunLabels \cup AdminLabels]
  /\ \A r \in Runs : pc[r] \in RunLabels
  /\ \A a \in Admins : pc[a] \in AdminLabels
  /\ seen \in [Runs -> Projects \cup {Null}]
  /\ rows \in [Runs -> FileRows]
  /\ task \in [Admins -> Tasks]
  /\ \A r \in Runs : pc[r] \in {"readStatus", "record"} => seen[r] \in Projects
  /\ \A a \in Admins : task[a] \in TasksAt(pc[a])
  /\ owners \in [Runs -> SUBSET (Projects \cup {Null})]
  /\ active \in [Runs -> SUBSET Projects]
  /\ faults \in 0 .. MaxFaults

-----------------------------------------------------------------------------
(* Helpers *)

Goto(p, label) == pc' = [pc EXCEPT ![p] = label]

(* assertProjectWritable                                                    *)
ActiveProjects == {p \in Projects : status[p] = "active"}

Terminal == {"completed", "partial", "failed"}

(* Between its re-check and its last write a run's window is open: what the *)
(* dataset's owner and the active projects were meanwhile is remembered.    *)
Watching == {r \in Runs : pc[r] \in {"recheckStatus", "write", "writeNew"}}

Observe ==
  /\ owners' = [r \in Runs |-> IF r \in Watching
                               THEN owners[r] \cup {owner'[DatasetOf[r]]}
                               ELSE owners[r]]
  /\ active' = [r \in Runs |-> IF r \in Watching
                               THEN active[r] \cup {p \in Projects : status'[p] = "active"}
                               ELSE active[r]]

CloseWindow(r) ==
  /\ owners' = [owners EXCEPT ![r] = {}]
  /\ active' = [active EXCEPT ![r] = {}]

-----------------------------------------------------------------------------
(* ProjectService.setProjectStatus                                          *)

AllowedTransitions ==
  [active |-> {"active", "inactive", "archived"},
   inactive |-> {"inactive", "active", "archived"},
   archived |-> {"archived", "active"}]

(* The transition is checked against the status read; the same status again *)
(* is answered at once.                                                     *)
StartSetStatus(a) ==
  /\ pc[a] = "idle"
  /\ \E p \in Projects : \E next \in AllowedTransitions[status[p]] \ {status[p]} :
       task' = [task EXCEPT ![a] = [project |-> p, from |-> status[p],
                                    had |-> archivedAt[p], to |-> next]]
  /\ Goto(a, "setStatus")
  /\ UNCHANGED <<admin, runs, window>>

(* A bug: archivedAt is not cleared on reactivation.                        *)
KeptArchivedAt(t) == t.to = "archived" \/ t.had

(* archivedAt stays as it was read, unless the project is archived, or      *)
(* reactivated from there.                                                  *)
NewArchivedAt(t) ==
  \/ t.to = "archived"
  \/ t.had /\ ~(t.from = "archived" /\ t.to = "active")

WriteStatus(a) ==
  /\ pc[a] = "setStatus"
  /\ LET t == task[a]
     IN  /\ status' = [status EXCEPT ![t.project] = t.to]
         /\ archivedAt' = [archivedAt EXCEPT ![t.project] = NewArchivedAt(t)]
  /\ UNCHANGED owner
  /\ Observe
  /\ Goto(a, "idle")
  /\ task' = [task EXCEPT ![a] = Null]
  /\ UNCHANGED runs

-----------------------------------------------------------------------------
(* DatasetService.createDataset and reassignDatasetProject                  *)

(* requireWritableProject, and with it the arrival of the request           *)
StartDatasetTask(a, label) ==
  /\ pc[a] = "idle"
  /\ \E p \in ActiveProjects, d \in Datasets :
       task' = [task EXCEPT ![a] = [project |-> p, dataset |-> d]]
  /\ Goto(a, label)
  /\ UNCHANGED <<admin, runs, window>>

StartCreate(a) == StartDatasetTask(a, "createLook")

StartReassign(a) == StartDatasetTask(a, "reassignLook")

(* getDataset: a creation needs it absent, a reassignment present.          *)
LookUp(a, label, found, next) ==
  /\ pc[a] = label
  /\ \/ /\ found
        /\ Goto(a, next)
        /\ UNCHANGED task
     \/ /\ ~found
        /\ Goto(a, "idle")
        /\ task' = [task EXCEPT ![a] = Null]
  /\ UNCHANGED <<admin, runs, window>>

LookUpForCreate(a) ==
  LookUp(a, "createLook", owner[task[a].dataset] = Null, "createWrite")

LookUpForReassign(a) ==
  LookUp(a, "reassignLook", owner[task[a].dataset] # Null, "reassignWrite")

(* A bug: the upsert of a dataset sets its project as well.                 *)
UpsertedOwner(t) == t.project

(* INSERT ... ON CONFLICT (id) DO UPDATE SET name, description              *)
InsertedOwner(t) == IF owner[t.dataset] = Null THEN t.project ELSE owner[t.dataset]

SetOwner(a, p) ==
  /\ owner' = [owner EXCEPT ![task[a].dataset] = p]
  /\ UNCHANGED <<status, archivedAt>>
  /\ Observe
  /\ Goto(a, "idle")
  /\ task' = [task EXCEPT ![a] = Null]
  /\ UNCHANGED runs

CreateDataset(a) ==
  /\ pc[a] = "createWrite"
  /\ SetOwner(a, InsertedOwner(task[a]))

ReassignDataset(a) ==
  /\ pc[a] = "reassignWrite"
  /\ SetOwner(a, task[a].project)

-----------------------------------------------------------------------------
(* runImport, up to the processing of the file                              *)

(* A bug: a dataset that does not exist is not noticed.                     *)
StartUnresolved(r) ==
  /\ pc[r] = "new"
  /\ seen' = [seen EXCEPT ![r] = owner[DatasetOf[r]]]
  /\ Goto(r, "readStatus")
  /\ UNCHANGED <<admin, window, task, record, written, rows, faults>>

(* resolveDatasetProject: the dataset, then its project. Any statement may  *)
(* throw; outside the try block that ends the run.                          *)
StartRun(r) ==
  /\ pc[r] = "new"
  /\ seen' = [seen EXCEPT ![r] = owner[DatasetOf[r]]]
  /\ \/ owner[DatasetOf[r]] # Null /\ Goto(r, "readStatus")
     \/ Goto(r, "done")
  /\ UNCHANGED <<admin, window, task, record, written, rows, faults>>

(* assertProjectWritable: a refusal here leaves no record.                  *)
ReadStatus(r) ==
  /\ pc[r] = "readStatus"
  /\ \/ seen[r] \in ActiveProjects /\ Goto(r, "record")
     \/ Goto(r, "done")
  /\ UNCHANGED <<admin, runs, window, task>>

(* getSchema and recordImportRun: without the schema there is no record. An *)
(* insertion that took effect and was answered with an error leaves one.    *)
RecordRun(r) ==
  /\ pc[r] = "record"
  /\ \/ /\ record' = [record EXCEPT ![r] = Started]
        /\ \/ Goto(r, "process") /\ UNCHANGED faults
           \/ faults < MaxFaults /\ Goto(r, "crashed") /\ faults' = faults + 1
     \/ /\ Goto(r, "done")
        /\ UNCHANGED <<record, faults>>
  /\ UNCHANGED <<admin, window, task, written, seen, rows>>

(* loadRows, the pipeline and the reference checks; any of it may throw.    *)
ProcessRows(r) ==
  /\ pc[r] = "process"
  /\ \/ /\ \E file \in Files : rows' = [rows EXCEPT ![r] = file]
        /\ Goto(r, "recheck")
     \/ /\ Goto(r, "fail")
        /\ UNCHANGED rows
  /\ UNCHANGED <<admin, window, task, record, written, seen, faults>>

-----------------------------------------------------------------------------
(* runImport: the second check of the write policy                          *)

OpenWindow(r) ==
  /\ owners' = [owners EXCEPT ![r] = {owner[DatasetOf[r]]}]
  /\ active' = [active EXCEPT ![r] = ActiveProjects]

(* A bug: the second check goes by the project read at the start.           *)
RecheckSeen(r) ==
  /\ pc[r] = "recheck"
  /\ OpenWindow(r)
  /\ Goto(r, "recheckStatus")
  /\ UNCHANGED <<admin, runs, task>>

RecheckOwner(r) ==
  /\ pc[r] = "recheck"
  /\ OpenWindow(r)
  /\ seen' = [seen EXCEPT ![r] = owner[DatasetOf[r]]]
  /\ \/ owner[DatasetOf[r]] # Null /\ Goto(r, "recheckStatus")
     \/ Goto(r, "fail")
  /\ UNCHANGED <<admin, task, record, written, rows, faults>>

HasWrites(r) == ~rows[r].dry /\ rows[r].valid # {}

RecheckStatus(r) ==
  /\ pc[r] = "recheckStatus"
  /\ \/ /\ seen[r] \in ActiveProjects
        /\ Goto(r, IF HasWrites(r) THEN "write" ELSE "finish")
     \/ /\ seen[r] \notin ActiveProjects
        /\ Goto(r, "refuse")
     \/ Goto(r, "fail")
  /\ seen' = [seen EXCEPT ![r] = Null]
  /\ UNCHANGED <<admin, window, task, record, written, rows, faults>>

(* A bug: the error of the refusal is not thrown again.                     *)
RefuseAndGoOn(r) ==
  /\ pc[r] = "refuse"
  /\ record' = [record EXCEPT ![r] = Failed("policy")]
  /\ Goto(r, "finish")
  /\ UNCHANGED <<admin, window, task, written, seen, rows, faults>>

(* failImportRun; when the update throws, the outer catch deals with it.    *)
Refuse(r) ==
  /\ pc[r] = "refuse"
  /\ CloseWindow(r)
  /\ \/ /\ record' = [record EXCEPT ![r] = Failed("policy")]
        /\ pc' \in {[pc EXCEPT ![r] = "done"], [pc EXCEPT ![r] = "fail"]}
     \/ /\ Goto(r, "fail")
        /\ UNCHANGED record
  /\ UNCHANGED <<admin, task, written, seen, rows, faults>>

-----------------------------------------------------------------------------
(* runImport: the writes and the outcome                                    *)

Wrote(r, kinds) == written' = [written EXCEPT ![r] = @ \cup kinds]

(* insertEntities of everything, or the updates of upsertEntitiesByField;   *)
(* each is one transaction, and may fail as a whole.                        *)
(* The snapshots that follow an insertion may fail when it has succeeded.   *)
Write(r) ==
  /\ pc[r] = "write"
  /\ \/ /\ Wrote(r, rows[r].valid)
        /\ pc' \in {[pc EXCEPT ![r] = "finish"], [pc EXCEPT ![r] = "fail"]}
     \/ /\ Wrote(r, rows[r].valid \cap {"matched"})
        /\ Goto(r, IF "new" \in rows[r].valid THEN "writeNew" ELSE "finish")
     \/ /\ Goto(r, "fail")
        /\ UNCHANGED written
  /\ UNCHANGED <<admin, window, task, record, seen, rows, faults>>

(* A bug: the upsert does not wait for its insertions.                      *)
SkipNew(r) ==
  /\ pc[r] = "writeNew"
  /\ Goto(r, "finish")
  /\ UNCHANGED <<admin, runs, window, task>>

(* The insertions of upsertEntitiesByField                                  *)
WriteNew(r) ==
  /\ pc[r] = "writeNew"
  /\ \/ /\ Wrote(r, {"new"})
        /\ pc' \in {[pc EXCEPT ![r] = "finish"], [pc EXCEPT ![r] = "fail"]}
     \/ /\ Goto(r, "fail")
        /\ UNCHANGED written
  /\ UNCHANGED <<admin, window, task, record, seen, rows, faults>>

Outcome(file) ==
  [status |-> IF file.bad
              THEN IF file.valid = {} THEN "failed" ELSE "partial"
              ELSE "completed",
   imported |-> file.valid # {}, why |-> "none"]

(* The update may throw before or after it took effect.                     *)
FinishRun(r) ==
  /\ pc[r] = "finish"
  /\ CloseWindow(r)
  /\ \/ /\ record' = [record EXCEPT ![r] = Outcome(rows[r])]
        /\ pc' \in {[pc EXCEPT ![r] = "done"], [pc EXCEPT ![r] = "fail"]}
     \/ /\ Goto(r, "fail")
        /\ UNCHANGED record
  /\ UNCHANGED <<admin, task, written, seen, rows, faults>>

(* A bug: the outer catch rethrows without recording the failure.           *)
Rethrow(r) ==
  /\ pc[r] = "fail"
  /\ CloseWindow(r)
  /\ Goto(r, "done")
  /\ UNCHANGED <<admin, runs, task>>

(* The outer catch: the counts stay as they are.                            *)
FailRun(r) ==
  /\ pc[r] = "fail"
  /\ CloseWindow(r)
  /\ record' = [record EXCEPT ![r].status = "failed", ![r].why = "error"]
  /\ Goto(r, "done")
  /\ UNCHANGED <<admin, task, written, seen, rows, faults>>

(* The process dies, or the update of the outer catch throws as well.       *)
Crash(r) ==
  /\ pc[r] \notin {"new", "done", "crashed"}
  /\ faults < MaxFaults
  /\ faults' = faults + 1
  /\ CloseWindow(r)
  /\ Goto(r, "crashed")
  /\ UNCHANGED <<admin, task, record, written, seen, rows>>

-----------------------------------------------------------------------------
(* Specification *)

Init ==
  /\ status \in [Projects -> Statuses]
  /\ archivedAt = [p \in Projects |-> status[p] = "archived"]
  /\ owner \in [Datasets -> Projects \cup {Null}]
  /\ record = [r \in Runs |-> NoRecord]
  /\ written = [r \in Runs |-> {}]
  /\ pc = [p \in Runs \cup Admins |-> IF p \in Runs THEN "new" ELSE "idle"]
  /\ seen = [r \in Runs |-> Null]
  /\ rows = [r \in Runs |-> [dry |-> FALSE, valid |-> {}, bad |-> FALSE]]
  /\ task = [a \in Admins |-> Null]
  /\ owners = [r \in Runs |-> {}]
  /\ active = [r \in Runs |-> {}]
  /\ faults = 0

Administer(a) ==
  \/ StartSetStatus(a) \/ WriteStatus(a)
  \/ StartCreate(a) \/ LookUpForCreate(a) \/ CreateDataset(a)
  \/ StartReassign(a) \/ LookUpForReassign(a) \/ ReassignDataset(a)

Import(r) ==
  \/ StartRun(r) \/ ReadStatus(r) \/ RecordRun(r) \/ ProcessRows(r)
  \/ RecheckOwner(r) \/ RecheckStatus(r) \/ Refuse(r)
  \/ Write(r) \/ WriteNew(r) \/ FinishRun(r) \/ FailRun(r)

Next ==
  \/ \E a \in Admins : Administer(a)
  \/ \E r \in Runs : Import(r) \/ Crash(r)

Spec == Init /\ [][Next]_vars

(* A promise settles: a run that can go on does.                            *)
FairSpec == Spec /\ \A r \in Runs : WF_vars(Import(r))

-----------------------------------------------------------------------------
(* Properties *)

(* What a run's record says of the entity store                             *)
TruthfulRecord(r) ==
  /\ record[r].status \in {"completed", "partial"} /\ ~rows[r].dry
       => written[r] = rows[r].valid
  /\ record[r].status = "completed" => ~rows[r].bad
  /\ record[r].why = "policy" \/ rows[r].dry => written[r] = {}
  /\ record[r].status = "failed" /\ record[r].why = "none" => written[r] = {}

(* What the record of a run says of the entity store is so. A run that      *)
(* ended completed or partial has written every row that passed; a dry run, *)
(* a run refused at its second check and one without a valid row have       *)
(* written nothing. Failures between the two transactions of an upsert are  *)
(* what could break it (engine.ts 228-262).                                 *)
RecordTruthful == \A r \in Runs : TruthfulRecord(r)

(* A project has a time of archival exactly while it is archived, whatever  *)
(* changes of its status overlap (project/service.ts 121-159).              *)
ArchivedAtConsistent ==
  \A p \in Projects : archivedAt[p] <=> status[p] = "archived"

(* Rows reach a dataset only if, since the run's second check began, a      *)
(* project that owned the dataset was active: the check, the change of a    *)
(* status and the move of a dataset may interleave (ADR-0013, engine.ts     *)
(* 199-244).                                                                *)
PolicyHolds ==
  [][\A r \in Runs : written'[r] # written[r] => owners[r] \cap active[r] # {}]_vars

(* A record that has ended does not end again with a better outcome: it     *)
(* stays, or the catch block marks it failed (engine.ts 204-224, 293-317).  *)
EndedStays ==
  [][\A r \in Runs : record[r].status \in Terminal =>
       \/ record'[r] = record[r]
       \/ record'[r].status = "failed" /\ record'[r].why = "error"]_vars

(* A dataset changes project only by a reassignment, to the project that    *)
(* asked for it: two creations of one id do not steal it                    *)
(* (postgres.ts 324-334, dataset/service.ts 42-62).                         *)
OwnersKept ==
  [][\A d \in Datasets : owner[d] # Null /\ owner'[d] # owner[d] =>
       \E a \in Admins : /\ pc[a] = "reassignWrite" /\ pc'[a] = "idle"
                         /\ task[a] = [project |-> owner'[d], dataset |-> d]]_vars

(* A run that is recorded as running ends: every way out of runImport's try *)
(* block updates the record (engine.ts 124-317). Excepted are the death of  *)
(* the process and, outside that block, an insertion of the record that was *)
(* answered with an error (99) and an update of the catch block that throws *)
(* (301): both leave the record running for good.                           *)
RunEnds ==
  \A r \in Runs :
    record[r].status = "running" ~> record[r].status # "running" \/ pc[r] = "crashed"

-----------------------------------------------------------------------------
(* The inductive invariant: what holds of a run at each of its labels       *)

(* Nothing is recorded or written early, the outcome follows the writes.    *)
RunProgress(r) ==
  /\ pc[r] \in {"new", "readStatus", "record"} => record[r] = NoRecord
  /\ pc[r] \in {"process", "recheck", "recheckStatus", "refuse", "write",
               "writeNew", "finish"} => record[r] = Started
  /\ pc[r] \in {"new", "readStatus", "record", "process", "recheck",
               "recheckStatus", "refuse", "write"} => written[r] = {}
  /\ pc[r] \in {"write", "writeNew"} => HasWrites(r)
  /\ pc[r] = "writeNew" => /\ written[r] = rows[r].valid \ {"new"}
                          /\ "new" \in rows[r].valid
  /\ pc[r] = "finish" => written[r] = IF rows[r].dry THEN {} ELSE rows[r].valid

Progress == \A r \in Runs : RunProgress(r)

(* A project's status and its time of archival are read together, and the   *)
(* transition is checked against them.                                      *)
CheckedTransition(t) ==
  /\ t.had <=> t.from = "archived"
  /\ t.to \in AllowedTransitions[t.from]

StatusRead ==
  \A a \in Admins : pc[a] = "setStatus" => CheckedTransition(task[a])

(* The project a run has re-read owned the dataset within the window; a run *)
(* that passed its second check found it active there.                      *)
RunWindow(r) ==
  /\ pc[r] = "recheckStatus" =>
       seen[r] \in owners[r] /\ ActiveProjects \subseteq active[r]
  /\ pc[r] \in {"write", "writeNew"} => owners[r] \cap active[r] # {}

WindowOpen == \A r \in Runs : RunWindow(r)

IInv ==
  /\ TypeOK /\ Progress /\ StatusRead /\ WindowOpen
  /\ RecordTruthful /\ ArchivedAtConsistent

(* A project changes status only along an allowed transition; docs/         *)
(* PROJECTS.md 32-37 lists them, and leaves an archived project only the    *)
(* way back to active.                                                      *)
TransitionsAllowed ==
  [][\A p \in Projects : status'[p] \in AllowedTransitions[status[p]]]_vars
=============================================================================
