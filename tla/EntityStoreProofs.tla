------------------------- MODULE EntityStoreProofs -------------------------
(***************************************************************************)
(* Proofs about EntityStore, for any number of requests, entities,         *)
(* payloads and schema versions.                                           *)
(***************************************************************************)
EXTENDS EntityStore, TLAPS

(* The rows of one commit: one per entity, each the entity's next revision. *)
NextRevisions(new) ==
  /\ new \subseteq Row
  /\ \A r, s \in new : r.id = s.id => r = s
  /\ \A r \in new : \/ entities[r.id] = Absent /\ r.rev = 1
                    \/ entities[r.id] # Absent /\ r.rev = entities[r.id].rev + 1

(* No entity disappears, and none goes back to an earlier revision.         *)
RevisionsGrow ==
  \A i \in Ids : entities[i] # Absent =>
    entities'[i] # Absent /\ entities'[i].rev >= entities[i].rev

-----------------------------------------------------------------------------
(* Commits *)

(* After a commit each written entity holds its new row, the others theirs. *)
LEMMA WriteRowsEffect ==
  ASSUME TypeOK, NEW new, NextRevisions(new), WriteRows(new)
  PROVE  /\ entities' \in [Ids -> Row \cup {Absent}]
         /\ \A r \in new : r.id \in Ids /\ entities'[r.id] = r
         /\ \A i \in Ids : (\A r \in new : r.id # i) => entities'[i] = entities[i]
<1> USE DEF NextRevisions
<1>1. \A r \in new : r \in Row /\ r.id \in Ids
  BY DEF Row
<1>2. ASSUME NEW i \in Ids, NEW r \in new, r.id = i
      PROVE  entities'[i] = r
  <2>1. (CHOOSE s \in new : s.id = i) = r
    BY <1>2
  <2> QED
    BY <2>1, <1>2 DEF WriteRows
<1>3. ASSUME NEW i \in Ids, \A r \in new : r.id # i
      PROVE  entities'[i] = entities[i]
  BY <1>3 DEF WriteRows
<1>4. ASSUME NEW i \in Ids
      PROVE  entities'[i] \in Row \cup {Absent}
  BY <1>1, <1>2, <1>3 DEF TypeOK
<1>5. entities' \in [Ids -> Row \cup {Absent}]
  <2>1. entities' = [i \in Ids |-> entities'[i]]
    BY DEF WriteRows
  <2> QED BY <2>1, <1>4
<1> QED
  BY <1>1, <1>2, <1>3, <1>5

(* A commit takes every written entity one revision on.                     *)
LEMMA WriteRowsGrow ==
  ASSUME TypeOK, NEW new, NextRevisions(new), WriteRows(new)
  PROVE  RevisionsGrow
<1> SUFFICES ASSUME NEW i \in Ids, entities[i] # Absent
             PROVE  entities'[i] # Absent /\ entities'[i].rev >= entities[i].rev
  BY DEF RevisionsGrow
<1>1. entities[i] \in Row /\ entities[i].rev \in Nat
  BY DEF TypeOK, Row
<1>2. CASE \A r \in new : r.id # i
  BY <1>1, <1>2, WriteRowsEffect
<1>3. CASE \E r \in new : r.id = i
  <2>1. PICK r \in new : r.id = i
    BY <1>3
  <2>2. entities'[i] = r /\ r \in Row /\ r.rev = entities[i].rev + 1
    BY <2>1, WriteRowsEffect DEF NextRevisions
  <2>3. r # Absent
    BY <2>2, ConstantsAssumption DEF Row
  <2> QED
    BY <2>2, <2>3, <1>1
<1> QED
  BY <1>2, <1>3

(* The committed rows stay one sequence per entity, ending in the live row. *)
LEMMA WriteRowsLatest ==
  ASSUME TypeOK, LiveIsLatest, NEW new, NextRevisions(new), WriteRows(new)
  PROVE  LiveIsLatest'
<1>1. committed' = committed \cup new
  BY DEF WriteRows
<1>2. \A r \in new : r \in Row /\ r # Absent /\ r.id \in Ids /\ r.rev \in Nat
  BY ConstantsAssumption DEF NextRevisions, Row
<1>3. \A w \in committed : w \in Row /\ w.id \in Ids /\ w.rev \in Nat
  BY DEF TypeOK, Row
<1>4. \A i \in Ids : entities[i] # Absent => entities[i] \in Row /\ entities[i].rev \in Nat
  BY DEF TypeOK, Row
<1>5. ASSUME NEW i \in Ids, entities'[i] # Absent
      PROVE  entities'[i] \in committed'
  <2>1. CASE \E r \in new : r.id = i
    BY <2>1, <1>1, WriteRowsEffect
  <2>2. CASE \A r \in new : r.id # i
    BY <2>2, <1>5, <1>1, WriteRowsEffect DEF LiveIsLatest, Live
  <2> QED BY <2>1, <2>2
<1>6. ASSUME NEW w \in committed'
      PROVE  entities'[w.id] # Absent /\ w.rev <= entities'[w.id].rev
  <2>1. CASE w \in new
    BY <2>1, <1>2, WriteRowsEffect
  <2>2. CASE w \in committed
    <3>1. w.id \in Ids /\ entities[w.id] # Absent /\ w.rev <= entities[w.id].rev
      BY <2>2, <1>3 DEF LiveIsLatest
    <3>2. /\ entities'[w.id] # Absent
          /\ entities'[w.id].rev >= entities[w.id].rev
      BY <3>1, WriteRowsGrow DEF RevisionsGrow
    <3>3. entities'[w.id] \in Row
      BY <3>1, <3>2, WriteRowsEffect
    <3>4. entities'[w.id].rev \in Nat /\ entities[w.id].rev \in Nat /\ w.rev \in Nat
      BY <3>1, <3>3, <2>2, <1>3, <1>4 DEF Row
    <3> QED BY <3>1, <3>2, <3>4
  <2> QED BY <2>1, <2>2, <1>1
<1>7. ASSUME NEW r \in new, NEW w \in committed
      PROVE  ~SameRevision(r, w)
  <2>1. CASE entities[r.id] = Absent
    BY <2>1 DEF LiveIsLatest, SameRevision
  <2>2. CASE entities[r.id] # Absent
    <3>1. r.rev = entities[r.id].rev + 1
      BY <2>2 DEF NextRevisions
    <3>2. w.id = r.id => w.rev <= entities[r.id].rev
      BY DEF LiveIsLatest
    <3> QED BY <3>1, <3>2, <2>2, <1>2, <1>3, <1>4 DEF SameRevision
  <2> QED BY <2>1, <2>2
<1>8. ASSUME NEW x \in committed', NEW y \in committed', SameRevision(x, y)
      PROVE  x = y
  <2>1. CASE x \in committed /\ y \in committed
    BY <2>1, <1>8 DEF LiveIsLatest
  <2>2. CASE x \in new /\ y \in new
    BY <2>2, <1>8 DEF NextRevisions, SameRevision
  <2>3. CASE (x \in new /\ y \in committed) \/ (x \in committed /\ y \in new)
    BY <2>3, <1>8, <1>7 DEF SameRevision
  <2> QED BY <2>1, <2>2, <2>3, <1>1
<1> QED
  BY <1>5, <1>6, <1>8 DEF LiveIsLatest, Live, SameRevision

(* What a commit adds follows the history of RevisionHistory.               *)
LEMMA WriteRowsFollow ==
  ASSUME TypeOK, LiveIsLatest, NEW new, NextRevisions(new), WriteRows(new)
  PROVE  /\ \A r \in new : History!Follows(r)
         /\ committed' \subseteq Row
<1>1. \A w \in committed : w \in Row /\ w.id \in Ids /\ w.rev \in Nat /\ w.rev >= 1
  BY DEF TypeOK, Row
<1>2. ASSUME NEW r \in new
      PROVE  History!Follows(r)
  <2>1. r \in Row /\ r.id \in Ids /\ r.rev \in Nat
    BY DEF NextRevisions, Row
  <2>2. CASE entities[r.id] = Absent
    <3>1. r.rev = 1
      BY <2>2 DEF NextRevisions
    <3>2. \A w \in committed : w.id # r.id
      BY <2>2, <2>1, <1>1 DEF LiveIsLatest
    <3> QED BY <3>1, <3>2 DEF History!Follows
  <2>3. CASE entities[r.id] # Absent
    <3> DEFINE p == entities[r.id]
    <3>1. p \in Row /\ p.id = r.id /\ p \in committed /\ p.rev \in Nat /\ p.rev >= 1
      BY <2>1, <2>3 DEF TypeOK, Row, LiveIsLatest, Live
    <3>2. r.rev = p.rev + 1
      BY <2>3 DEF NextRevisions
    <3>3. \A w \in committed : w.id = r.id => w.rev <= p.rev
      BY DEF LiveIsLatest
    <3>4. p.rev = r.rev - 1 /\ r.rev >= 1
      BY <3>1, <3>2
    <3>5. \A w \in committed : w.id = r.id => w.rev < r.rev
      BY <3>1, <3>2, <3>3, <1>1
    <3> HIDE DEF p
    <3> QED BY <3>1, <3>4, <3>5 DEF History!Follows
  <2> QED BY <2>2, <2>3
<1> QED
  BY <1>2 DEF WriteRows, NextRevisions, TypeOK

(* No revision number is skipped.                                           *)
LEMMA WriteRowsNoGaps ==
  ASSUME TypeOK, LiveIsLatest, NoGaps, NEW new, NextRevisions(new), WriteRows(new)
  PROVE  NoGaps'
<1>1. \A r \in new : History!Follows(r)
  BY WriteRowsFollow
<1>2. committed' = committed \cup new
  BY DEF WriteRows
<1>3. ASSUME NEW w \in committed', w.rev > 1
      PROVE  \E p \in committed' : p.id = w.id /\ p.rev = w.rev - 1
  <2>1. CASE w \in committed
    BY <2>1, <1>2, <1>3 DEF NoGaps, History!NoGaps
  <2>2. CASE w \in new
    BY <2>2, <1>1, <1>2, <1>3 DEF History!Follows
  <2> QED BY <2>1, <2>2, <1>2
<1> QED
  BY <1>3 DEF NoGaps, History!NoGaps

-----------------------------------------------------------------------------
(* What each writing action commits *)

LEMMA StampedVersionType ==
  \A v \in Versions \cup {Unset} : StampedVersion(v) \in Versions
BY ConstantsAssumption DEF StampedVersion

(* The compare-and-write commits the next revision of its target.           *)
LEMMA CompareAndWriteNext ==
  ASSUME TypeOK, KindsMatchLabels, NEW q \in Requests, pc[q] = "cas",
         RevisionMatches(args[q].target, args[q].expected)
  PROVE  NextRevisions({UpdatedRow(args[q].target, args[q])})
<1> DEFINE i == args[q].target
           r == UpdatedRow(i, args[q])
<1>1. i \in Ids /\ args[q] \in Args /\ args[q].kind = "update"
  BY DEF KindsMatchLabels, TypeOK
<1>2. args[q].batch \in Seq(Data) /\ Len(args[q].batch) = 1
  BY <1>1 DEF TypeOK, Args
<1>3. args[q].batch[1] \in Data
  BY <1>2
<1>4. entities[i] \in Row /\ entities[i].rev = args[q].expected
  BY <1>1 DEF TypeOK, RevisionMatches
<1>5. args[q].state \in States \cup {Keep} /\ args[q].expected \in Nat
        /\ args[q].version \in Versions \cup {Unset}
  BY <1>1 DEF Args
<1>6. r.id = i /\ r.rev = entities[i].rev + 1
  BY <1>4 DEF UpdatedRow
<1>7. r \in Row
  BY <1>1, <1>3, <1>4, <1>5, StampedVersionType DEF UpdatedRow, Row
<1> HIDE DEF r
<1>8. entities[i] # Absent
  BY DEF RevisionMatches
<1> QED
  BY <1>6, <1>7, <1>8 DEF NextRevisions, r

(* So does the upsert's transaction for each row it matched.                *)
LEMMA UpdateMatchedNext ==
  ASSUME TypeOK, NEW q \in Requests, NoUpsertConflict(q)
  PROVE  NextRevisions({UpsertedRow(q, n) : n \in ToUpdate(q)})
<1>1. args[q] \in Args /\ args[q].batch \in Seq(Data)
        /\ args[q].version \in Versions \cup {Unset}
  BY DEF TypeOK, Args
<1>2. ASSUME NEW n \in ToUpdate(q)
      PROVE  /\ MatchOf(q, n).id \in Ids
             /\ entities[MatchOf(q, n).id] # Absent
             /\ UpsertedRow(q, n) \in Row
             /\ UpsertedRow(q, n).id = MatchOf(q, n).id
             /\ UpsertedRow(q, n).rev = entities[MatchOf(q, n).id].rev + 1
  <2>1. MatchOf(q, n) \in Matches(q, n)
    BY DEF MatchOf, ToUpdate
  <2>2. MatchOf(q, n) \in Row
    BY <2>1 DEF Matches, TypeOK
  <2>3. MatchOf(q, n).id \in Ids
    BY <2>2 DEF Row
  <2>4. entities[MatchOf(q, n).id] # Absent
    BY DEF NoUpsertConflict, RevisionMatches
  <2>5. entities[MatchOf(q, n).id] \in Row
    BY <2>3, <2>4 DEF TypeOK
  <2>6. args[q].batch[n] \in Data
    BY <1>1 DEF ToUpdate
  <2>7. /\ entities[MatchOf(q, n).id].state \in States
        /\ entities[MatchOf(q, n).id].rev + 1 \in Nat \ {0}
    BY <2>5 DEF Row
  <2>8. StampedVersion(args[q].version) \in Versions
    BY <1>1, StampedVersionType
  <2>9. UpsertedRow(q, n) \in Row
    BY <2>3, <2>6, <2>7, <2>8 DEF UpsertedRow, Row
  <2> QED
    BY <2>3, <2>4, <2>9 DEF UpsertedRow
<1>3. \A m, n \in ToUpdate(q) : MatchOf(q, m).id = MatchOf(q, n).id => m = n
  BY DEF NoUpsertConflict
<1> QED
  BY <1>2, <1>3 DEF NextRevisions

(* An insert commits first revisions, under ids no row has.                 *)
LEMMA InsertRowsNext ==
  ASSUME TypeOK, KindsMatchLabels, NEW q \in Requests, pc[q] = "insert",
         NEW uuid \in [ToInsert(q) -> Ids \ Live],
         \A m, n \in ToInsert(q) : uuid[m] = uuid[n] => m = n
  PROVE  NextRevisions({InsertedRow(q, n, uuid[n]) : n \in ToInsert(q)})
<1>1. args[q] \in Args /\ args[q].batch \in Seq(Data)
        /\ args[q].version \in Versions \cup {Unset}
  BY DEF TypeOK, Args
<1>2. args[q].state \in States
  BY DEF KindsMatchLabels, TypeOK, Args
<1>3. ASSUME NEW n \in ToInsert(q)
      PROVE  /\ InsertedRow(q, n, uuid[n]) \in Row
             /\ InsertedRow(q, n, uuid[n]).id = uuid[n]
             /\ InsertedRow(q, n, uuid[n]).rev = 1
             /\ entities[uuid[n]] = Absent
  <2>1. args[q].batch[n] \in Data
    BY <1>1 DEF ToInsert
  <2>2. uuid[n] \in Ids /\ entities[uuid[n]] = Absent
    BY DEF Live
  <2>3. StampedVersion(args[q].version) \in Versions
    BY <1>1, StampedVersionType
  <2>4. InsertedRow(q, n, uuid[n]) \in Row
    BY <2>1, <2>2, <2>3, <1>2 DEF InsertedRow, Row
  <2> QED
    BY <2>2, <2>4 DEF InsertedRow
<1> QED
  BY <1>3 DEF NextRevisions

-----------------------------------------------------------------------------
(* Type correctness *)

(* A commit leaves both tables well typed.                                  *)
LEMMA WriteRowsType ==
  ASSUME TypeOK, NEW new, NextRevisions(new), WriteRows(new)
  PROVE  /\ entities' \in [Ids -> Row \cup {Absent}]
         /\ \A i \in Ids : entities'[i] # Absent => entities'[i].id = i
         /\ committed' \subseteq Row
<1>1. ASSUME NEW i \in Ids, entities'[i] # Absent
      PROVE  entities'[i].id = i
  <2>1. CASE \E r \in new : r.id = i
    BY <2>1, WriteRowsEffect
  <2>2. CASE \A r \in new : r.id # i
    BY <2>2, <1>1, WriteRowsEffect DEF TypeOK
  <2> QED BY <2>1, <2>2
<1>2. committed' \subseteq Row
  BY DEF WriteRows, TypeOK, NextRevisions
<1> QED
  BY <1>1, <1>2, WriteRowsEffect

LEMMA RecordSnapshotsType ==
  ASSUME NEW table, table \subseteq Row, NEW new, new \subseteq Row
  PROVE  RecordSnapshots(table, new) \subseteq Row
BY DEF RecordSnapshots

(* The locals of the requests, apart from the tables                        *)
LocalsOK ==
  /\ pc \in [Requests -> Labels]
  /\ args \in [Requests -> Args]
  /\ found \in [Requests -> SUBSET Row]
  /\ rows \in [Requests -> SUBSET Row]
  /\ answer \in [Requests -> Answer]
  /\ \A q \in Requests : args[q].kind = "update" => Len(args[q].batch) = 1

LEMMA NoArgsType == NoArgs \in Args /\ NoArgs.kind = "none"
BY DEF NoArgs, RowsOf, Args

(* An answer clears the request's locals.                                   *)
LEMMA FinishType ==
  ASSUME TypeOK, NEW q \in Requests, NEW status \in {"ok", "conflict", "failed"},
         NEW rev \in Nat, Finish(q, status, rev)
  PROVE  LocalsOK'
<1>1. args[q] \in Args /\ args[q].target \in Ids \cup {Absent} /\ args[q].expected \in Nat
  BY DEF TypeOK, Args
<1>2. [status |-> status, target |-> args[q].target,
       expected |-> args[q].expected, rev |-> rev] \in Answer
  BY <1>1 DEF Answer
<1>3. answer' \in [Requests -> Answer]
  BY <1>2 DEF Finish, TypeOK
<1>4. args' \in [Requests -> Args]
  BY NoArgsType DEF Finish, TypeOK
<1>5. ASSUME NEW p \in Requests, args'[p].kind = "update"
      PROVE  Len(args'[p].batch) = 1
  BY <1>5, NoArgsType DEF Finish, TypeOK
<1>6. pc' \in [Requests -> Labels] /\ found' \in [Requests -> SUBSET Row]
        /\ rows' \in [Requests -> SUBSET Row]
  BY DEF Finish, TypeOK, Labels
<1> QED
  BY <1>3, <1>4, <1>5, <1>6 DEF LocalsOK

(* A request that goes on keeps its locals well typed if its arguments are. *)
LEMMA GotoType ==
  ASSUME TypeOK, NEW q \in Requests, NEW label \in Labels, Goto(q, label),
         NEW a \in Args, args' = [args EXCEPT ![q] = a],
         a.kind = "update" => Len(a.batch) = 1,
         found' \in [Requests -> SUBSET Row], rows' \in [Requests -> SUBSET Row]
  PROVE  LocalsOK'
<1>1. pc' \in [Requests -> Labels] /\ answer' \in [Requests -> Answer]
  BY DEF Goto, TypeOK
<1>2. args' \in [Requests -> Args]
  BY DEF TypeOK
<1>3. ASSUME NEW p \in Requests, args'[p].kind = "update"
      PROVE  Len(args'[p].batch) = 1
  BY <1>3 DEF TypeOK
<1> QED
  BY <1>1, <1>2, <1>3 DEF LocalsOK

(* The window a request's stamp may come from                               *)
LEMMA WindowType ==
  ASSUME TypeOK, [Next]_vars
  PROVE  window' \in [Requests -> SUBSET Versions]
<1>1. CASE UNCHANGED window
  BY <1>1 DEF TypeOK
<1>2. ASSUME NEW q \in Requests, NEW v \in Versions \cup {Unset}, OpenWindow(q, v)
      PROVE  window' \in [Requests -> SUBSET Versions]
  <2>1. StampedVersion(IF v = Unset THEN schemaVersion ELSE v) \in Versions
    BY StampedVersionType DEF TypeOK
  <2> QED BY <1>2, <2>1 DEF OpenWindow, TypeOK
<1>3. ASSUME NEW q \in Requests, CloseWindow(q)
      PROVE  window' \in [Requests -> SUBSET Versions]
  BY <1>3 DEF CloseWindow, TypeOK
<1>4. ASSUME NEW v \in Versions \cup {Unset}, WidenWindows(v)
      PROVE  window' \in [Requests -> SUBSET Versions]
  BY <1>4, StampedVersionType DEF WidenWindows, TypeOK
<1>5. CASE RegisterSchema \/ DeleteSchema
  BY <1>4, <1>5 DEF RegisterSchema, DeleteSchema
<1>6. ASSUME NEW q \in Requests, StartUpdate(q) \/ StartCreate(q)
      PROVE  window' \in [Requests -> SUBSET Versions]
  BY <1>2, <1>6 DEF StartUpdate, StartCreate
<1>7. ASSUME NEW q \in Requests, CompareAndWrite(q) \/ InsertRows(q) \/ Crash(q)
      PROVE  window' \in [Requests -> SUBSET Versions]
  BY <1>3, <1>7 DEF CompareAndWrite, InsertRows, Crash
<1>8. ASSUME NEW q \in Requests,
             \/ StartImport(q) \/ StartAppend(q) \/ ResolveVersion(q) \/ ReportConflict(q)
             \/ ScanExisting(q) \/ UpdateMatched(q) \/ RereadRows(q) \/ WriteSnapshots(q)
      PROVE  window' \in [Requests -> SUBSET Versions]
  BY <1>1, <1>8 DEF StartImport, StartAppend, ResolveVersion, ReportConflict, ScanExisting,
     UpdateMatched, RereadRows, WriteSnapshots
<1> QED
  BY <1>1, <1>5, <1>6, <1>7, <1>8 DEF Next, Arrive, Step, vars

(* The labels say what the requests hold, and every step keeps the types.   *)
LEMMA TypeOKStep ==
  ASSUME TypeOK, KindsMatchLabels, ExpectedIsReached, SnapshotsGenuine, LiveIsLatest,
         [Next]_vars
  PROVE  TypeOK'
<1>0. window' \in [Requests -> SUBSET Versions]
  BY WindowType
<1>1. CASE UNCHANGED vars
  BY <1>1 DEF vars, TypeOK
<1>2. CASE RegisterSchema \/ DeleteSchema
  BY <1>0, <1>2 DEF RegisterSchema, DeleteSchema, TypeOK
<1>3. ASSUME NEW q \in Requests, StartUpdate(q)
      PROVE  TypeOK'
  <2>1. PICK i \in Live, d \in Data, s \in States \cup {Keep}, v \in Versions \cup {Unset} :
               \E expected \in 1 .. entities[i].rev :
                 /\ args' = [args EXCEPT ![q] =
                      [kind |-> "update", target |-> i, expected |-> expected,
                       batch |-> <<d>>, state |-> s, version |-> v]]
                 /\ Goto(q, IF v = Unset THEN "resolve" ELSE "cas")
    BY <1>3 DEF StartUpdate
  <2>2. PICK expected \in 1 .. entities[i].rev :
           /\ args' = [args EXCEPT ![q] =
                [kind |-> "update", target |-> i, expected |-> expected,
                 batch |-> <<d>>, state |-> s, version |-> v]]
           /\ Goto(q, IF v = Unset THEN "resolve" ELSE "cas")
    BY <2>1
  <2> DEFINE a == [kind |-> "update", target |-> i, expected |-> expected,
                   batch |-> <<d>>, state |-> s, version |-> v]
  <2>3. i \in Ids /\ v \in Versions \cup {Unset} /\ <<d>> \in Seq(Data) /\ Len(<<d>>) = 1
    BY DEF Live, TypeOK
  <2>4. expected \in Nat
    OBVIOUS
  <2>5. a \in Args /\ Len(a.batch) = 1
    BY <2>3, <2>4 DEF Args
  <2>6. (IF v = Unset THEN "resolve" ELSE "cas") \in Labels
    BY DEF Labels
  <2>7. /\ found' \in [Requests -> SUBSET Row] /\ rows' \in [Requests -> SUBSET Row]
        /\ UNCHANGED <<entities, revisions, schemaVersion, committed>>
    BY <1>3 DEF StartUpdate, TypeOK
  <2> HIDE DEF a
  <2>8. LocalsOK'
    BY <2>2, <2>5, <2>6, <2>7, GotoType DEF a
  <2> QED
    BY <1>0, <2>7, <2>8 DEF TypeOK, LocalsOK
<1>4. ASSUME NEW q \in Requests, StartCreate(q)
      PROVE  TypeOK'
  <2>1. PICK d \in Data, s \in States :
          args' = [args EXCEPT ![q] = RowsOf("create", <<d>>, s)]
    BY <1>4 DEF StartCreate
  <2> DEFINE a == RowsOf("create", <<d>>, s)
  <2>2. <<d>> \in Seq(Data) /\ s \in States
    OBVIOUS
  <2>3. a \in Args /\ a.kind # "update"
    BY <2>2 DEF RowsOf, Args
  <2>4. args' = [args EXCEPT ![q] = a]
    BY <2>1
  <2> HIDE DEF a
  <2>5. /\ found' \in [Requests -> SUBSET Row] /\ rows' \in [Requests -> SUBSET Row]
        /\ UNCHANGED <<entities, revisions, schemaVersion, committed>>
        /\ Goto(q, "resolve") /\ "resolve" \in Labels
    BY <1>4 DEF StartCreate, TypeOK, Labels
  <2>6. LocalsOK'
    BY <2>3, <2>4, <2>5, GotoType
  <2> QED
    BY <1>0, <2>5, <2>6 DEF TypeOK, LocalsOK
<1>5. ASSUME NEW q \in Requests, StartImport(q) \/ StartAppend(q)
      PROVE  TypeOK'
  <2>1. PICK b \in Batches :
          args' = [args EXCEPT ![q] = RowsOf("import", b, Active)]
    BY <1>5 DEF StartImport, StartAppend
  <2> DEFINE a == RowsOf("import", b, Active)
  <2>2. b \in Seq(Data) /\ Active \in States
    BY ConstantsAssumption
  <2>3. a \in Args /\ a.kind # "update"
    BY <2>2 DEF RowsOf, Args
  <2>4. args' = [args EXCEPT ![q] = a]
    BY <2>1
  <2> HIDE DEF a
  <2>5. /\ found' \in [Requests -> SUBSET Row] /\ rows' \in [Requests -> SUBSET Row]
        /\ UNCHANGED <<entities, revisions, schemaVersion, committed>>
        /\ Goto(q, "scan") \/ Goto(q, "insert")
        /\ {"scan", "insert"} \subseteq Labels
    BY <1>5 DEF StartImport, StartAppend, TypeOK, Labels
  <2>6. LocalsOK'
    BY <2>3, <2>4, <2>5, GotoType
  <2> QED
    BY <1>0, <2>5, <2>6 DEF TypeOK, LocalsOK
<1>6. ASSUME NEW q \in Requests, ResolveVersion(q)
      PROVE  TypeOK'
  <2> DEFINE a == [args[q] EXCEPT !.version = StampedVersion(schemaVersion)]
  <2>1. a \in Args /\ (a.kind = "update" => Len(a.batch) = 1)
    BY StampedVersionType DEF TypeOK, Args
  <2>2. args' = [args EXCEPT ![q] = a]
    BY <1>6 DEF ResolveVersion
  <2>3. /\ found' \in [Requests -> SUBSET Row] /\ rows' \in [Requests -> SUBSET Row]
        /\ UNCHANGED <<entities, revisions, schemaVersion, committed>>
        /\ Goto(q, IF args[q].kind = "update" THEN "cas" ELSE "insert")
        /\ (IF args[q].kind = "update" THEN "cas" ELSE "insert") \in Labels
    BY <1>6 DEF ResolveVersion, TypeOK, Labels
  <2> HIDE DEF a
  <2>4. LocalsOK'
    BY <2>1, <2>2, <2>3, GotoType
  <2> QED
    BY <1>0, <2>3, <2>4 DEF TypeOK, LocalsOK
<1>7. ASSUME NEW q \in Requests, CompareAndWrite(q)
      PROVE  TypeOK'
  <2> DEFINE new == UpdatedRow(args[q].target, args[q])
  <2>1. /\ UNCHANGED <<revisions, schemaVersion, args, found>> /\ pc[q] = "cas"
        /\ args' = [args EXCEPT ![q] = args[q]] /\ args[q] \in Args
        /\ found' \in [Requests -> SUBSET Row]
        /\ args[q].kind = "update" => Len(args[q].batch) = 1
    BY <1>7 DEF CompareAndWrite, TypeOK
  <2>2. CASE RevisionMatches(args[q].target, args[q].expected)
    <3>1. WriteRows({new}) /\ rows' = [rows EXCEPT ![q] = {new}] /\ Goto(q, "snapshot")
      BY <1>7, <2>2 DEF CompareAndWrite
    <3>2. NextRevisions({new})
      BY <2>1, <2>2, CompareAndWriteNext
    <3> HIDE DEF new
    <3>3. rows' \in [Requests -> SUBSET Row]
      BY <3>1, <3>2 DEF NextRevisions, TypeOK
    <3>4. LocalsOK'
      BY <3>1, <3>3, <2>1, GotoType DEF Labels
    <3> QED
      BY <1>0, <3>1, <3>2, <3>4, <2>1, WriteRowsType DEF TypeOK, LocalsOK
  <2>3. CASE ~RevisionMatches(args[q].target, args[q].expected)
    <3>1. Goto(q, "reportConflict") /\ UNCHANGED <<entities, committed, rows>>
      BY <1>7, <2>3 DEF CompareAndWrite
    <3>2. LocalsOK'
      BY <3>1, <2>1, GotoType DEF Labels, TypeOK
    <3> QED
      BY <1>0, <3>1, <3>2, <2>1 DEF TypeOK, LocalsOK
  <2> QED BY <2>2, <2>3
<1>8. ASSUME NEW q \in Requests, ReportConflict(q)
      PROVE  TypeOK'
  <2>1. pc[q] = "reportConflict" /\ Finish(q, "conflict", CurrentRevision(q))
          /\ UNCHANGED <<entities, revisions, schemaVersion, committed>>
    BY <1>8 DEF ReportConflict
  <2>2. CurrentRevision(q) \in Nat
    BY <2>1 DEF KindsMatchLabels, ExpectedIsReached, TypeOK, Row, CurrentRevision
  <2>3. LocalsOK'
    BY <2>1, <2>2, FinishType
  <2> QED
    BY <1>0, <2>1, <2>3 DEF TypeOK, LocalsOK
<1>9. ASSUME NEW q \in Requests, ScanExisting(q)
      PROVE  TypeOK'
  <2>1. PICK map \in SUBSET {entities[i] : i \in Live} :
          found' = [found EXCEPT ![q] = map]
    BY <1>9 DEF ScanExisting
  <2>2. map \subseteq Row
    BY DEF Live, TypeOK
  <2>3. /\ Goto(q, "updateMatched") /\ args' = [args EXCEPT ![q] = args[q]]
        /\ args[q] \in Args /\ (args[q].kind = "update" => Len(args[q].batch) = 1)
        /\ UNCHANGED <<entities, revisions, schemaVersion, rows, committed>>
    BY <1>9 DEF ScanExisting, TypeOK
  <2>4. found' \in [Requests -> SUBSET Row] /\ rows' \in [Requests -> SUBSET Row]
    BY <2>1, <2>2, <2>3 DEF TypeOK
  <2>5. LocalsOK'
    BY <2>3, <2>4, GotoType DEF Labels
  <2> QED
    BY <1>0, <2>3, <2>5 DEF TypeOK, LocalsOK
<1>10. ASSUME NEW q \in Requests, UpdateMatched(q)
       PROVE  TypeOK'
  <2> DEFINE new == {UpsertedRow(q, n) : n \in ToUpdate(q)}
  <2>1. schemaVersion' = schemaVersion
    BY <1>10 DEF UpdateMatched
  <2>2. CASE NoUpsertConflict(q)
    <3>1. /\ WriteRows(new) /\ revisions' = RecordSnapshots(revisions, new)
          /\ \/ Finish(q, "ok", 0)
             \/ Goto(q, "insert") /\ UNCHANGED <<args, found, rows>>
      BY <1>10, <2>2 DEF UpdateMatched
    <3>2. NextRevisions(new)
      BY <2>2, UpdateMatchedNext
    <3> HIDE DEF new
    <3>3. revisions' \subseteq Row
      BY <3>1, <3>2, RecordSnapshotsType DEF NextRevisions, TypeOK
    <3>4. LocalsOK'
      <4>1. CASE Finish(q, "ok", 0)
        BY <4>1, FinishType
      <4>2. CASE Goto(q, "insert") /\ UNCHANGED <<args, found, rows>>
        BY <4>2 DEF Goto, TypeOK, LocalsOK, Labels
      <4> QED BY <3>1, <4>1, <4>2
    <3> QED
      BY <1>0, <2>1, <3>1, <3>2, <3>3, <3>4, WriteRowsType DEF TypeOK, LocalsOK
  <2>3. CASE ~NoUpsertConflict(q)
    <3>1. Finish(q, "failed", 0) /\ UNCHANGED <<entities, committed, revisions>>
      BY <1>10, <2>3 DEF UpdateMatched
    <3>2. LocalsOK'
      BY <3>1, FinishType
    <3> QED
      BY <1>0, <2>1, <3>1, <3>2 DEF TypeOK, LocalsOK
  <2> QED BY <2>2, <2>3
<1>11. ASSUME NEW q \in Requests, InsertRows(q)
       PROVE  TypeOK'
  <2>1. /\ pc[q] = "insert" /\ Goto(q, "reread")
        /\ UNCHANGED <<revisions, schemaVersion, args, found>>
    BY <1>11 DEF InsertRows
  <2>2. PICK uuid \in [ToInsert(q) -> Ids \ Live] :
          /\ \A m, n \in ToInsert(q) : uuid[m] = uuid[n] => m = n
          /\ LET new == {InsertedRow(q, n, uuid[n]) : n \in ToInsert(q)}
             IN  WriteRows(new) /\ rows' = [rows EXCEPT ![q] = new]
    BY <1>11 DEF InsertRows
  <2> DEFINE new == {InsertedRow(q, n, uuid[n]) : n \in ToInsert(q)}
  <2>3. NextRevisions(new)
    BY <2>1, <2>2, InsertRowsNext
  <2>4. WriteRows(new) /\ rows' = [rows EXCEPT ![q] = new]
    BY <2>2
  <2> HIDE DEF new
  <2>5. rows' \in [Requests -> SUBSET Row]
    BY <2>3, <2>4 DEF NextRevisions, TypeOK
  <2>6. LocalsOK'
    BY <2>1, <2>5 DEF Goto, TypeOK, LocalsOK, Labels
  <2> QED
    BY <1>0, <2>1, <2>3, <2>4, <2>6, WriteRowsType DEF TypeOK, LocalsOK
<1>12. ASSUME NEW q \in Requests, RereadRows(q)
       PROVE  TypeOK'
  <2>1. /\ rows' = [rows EXCEPT ![q] = {RereadRow(r) : r \in rows[q]}]
        /\ Goto(q, "snapshot") /\ pc[q] = "reread"
        /\ UNCHANGED <<entities, revisions, schemaVersion, args, found, committed>>
    BY <1>12 DEF RereadRows
  <2>2. {RereadRow(r) : r \in rows[q]} \subseteq Row
    <3> SUFFICES ASSUME NEW r \in rows[q]
                 PROVE  RereadRow(r) \in Row
      OBVIOUS
    <3>1. r \in committed /\ r.id \in Ids
      BY DEF SnapshotsGenuine, TypeOK, Row
    <3> QED
      BY <3>1 DEF LiveIsLatest, TypeOK, RereadRow
  <2>3. rows' \in [Requests -> SUBSET Row]
    BY <2>1, <2>2 DEF TypeOK
  <2>4. LocalsOK'
    BY <2>1, <2>3 DEF Goto, TypeOK, LocalsOK, Labels
  <2> QED
    BY <1>0, <2>1, <2>4 DEF TypeOK, LocalsOK
<1>13. ASSUME NEW q \in Requests, WriteSnapshots(q)
       PROVE  TypeOK'
  <2> DEFINE rev == IF args[q].kind = "update" THEN args[q].expected + 1 ELSE 0
  <2>1. /\ revisions' = RecordSnapshots(revisions, rows[q]) /\ Finish(q, "ok", rev)
        /\ UNCHANGED <<entities, schemaVersion, committed>>
    BY <1>13 DEF WriteSnapshots
  <2>2. rev \in Nat
    BY DEF TypeOK, Args
  <2>3. revisions' \subseteq Row
    BY <2>1, RecordSnapshotsType DEF TypeOK
  <2> HIDE DEF rev
  <2>4. LocalsOK'
    BY <2>1, <2>2, FinishType
  <2> QED
    BY <1>0, <2>1, <2>3, <2>4 DEF TypeOK, LocalsOK
<1>14. ASSUME NEW q \in Requests, Crash(q)
       PROVE  TypeOK'
  <2>1. /\ args' = [args EXCEPT ![q] = NoArgs] /\ Goto(q, "crashed")
        /\ found' = [found EXCEPT ![q] = {}]
        /\ UNCHANGED <<entities, revisions, schemaVersion, rows, committed>>
    BY <1>14 DEF Crash
  <2>2. found' \in [Requests -> SUBSET Row] /\ rows' \in [Requests -> SUBSET Row]
    BY <2>1 DEF TypeOK
  <2>3. LocalsOK'
    BY <2>1, <2>2, NoArgsType, GotoType DEF Labels
  <2> QED
    BY <1>0, <2>1, <2>3 DEF TypeOK, LocalsOK
<1> QED
  BY <1>1, <1>2, <1>3, <1>4, <1>5, <1>6, <1>7, <1>8, <1>9, <1>10, <1>11, <1>12,
     <1>13, <1>14 DEF Next, Arrive, Step

-----------------------------------------------------------------------------
(* What a step does to the tables *)

LEMMA NothingCommitted ==
  ASSUME TypeOK, UNCHANGED <<entities, committed>>
  PROVE  \E new : NextRevisions(new) /\ WriteRows(new)
<1>1. NextRevisions({})
  BY DEF NextRevisions
<1>2. entities = [i \in Ids |-> entities[i]]
  BY DEF TypeOK
<1>3. WriteRows({})
  BY <1>2 DEF WriteRows
<1> QED
  BY <1>1, <1>3

(* Every step is one commit of next revisions, mostly of none.              *)
LEMMA StepCommits ==
  ASSUME TypeOK, KindsMatchLabels, [Next]_vars
  PROVE  \E new : NextRevisions(new) /\ WriteRows(new)
<1>1. CASE UNCHANGED <<entities, committed>>
  BY <1>1, NothingCommitted
<1>2. ASSUME NEW q \in Requests, CompareAndWrite(q)
      PROVE  \E new : NextRevisions(new) /\ WriteRows(new)
  <2>1. CASE RevisionMatches(args[q].target, args[q].expected)
    BY <2>1, <1>2, CompareAndWriteNext DEF CompareAndWrite
  <2>2. CASE ~RevisionMatches(args[q].target, args[q].expected)
    BY <2>2, <1>1, <1>2 DEF CompareAndWrite
  <2> QED BY <2>1, <2>2
<1>3. ASSUME NEW q \in Requests, UpdateMatched(q)
      PROVE  \E new : NextRevisions(new) /\ WriteRows(new)
  <2>1. CASE NoUpsertConflict(q)
    <3>1. WriteRows({UpsertedRow(q, n) : n \in ToUpdate(q)})
      BY <2>1, <1>3 DEF UpdateMatched
    <3> QED BY <2>1, <3>1, UpdateMatchedNext
  <2>2. CASE ~NoUpsertConflict(q)
    BY <2>2, <1>1, <1>3 DEF UpdateMatched
  <2> QED BY <2>1, <2>2
<1>4. ASSUME NEW q \in Requests, InsertRows(q)
      PROVE  \E new : NextRevisions(new) /\ WriteRows(new)
  <2>1. PICK uuid \in [ToInsert(q) -> Ids \ Live] :
          /\ \A m, n \in ToInsert(q) : uuid[m] = uuid[n] => m = n
          /\ LET new == {InsertedRow(q, n, uuid[n]) : n \in ToInsert(q)}
             IN  WriteRows(new) /\ rows' = [rows EXCEPT ![q] = new]
    BY <1>4 DEF InsertRows
  <2>2. NextRevisions({InsertedRow(q, n, uuid[n]) : n \in ToInsert(q)})
    BY <2>1, <1>4, InsertRowsNext DEF InsertRows
  <2> QED BY <2>1, <2>2
<1>5. ASSUME NEW q \in Requests,
             \/ StartUpdate(q) \/ StartCreate(q) \/ StartImport(q) \/ StartAppend(q)
             \/ ResolveVersion(q)
             \/ ReportConflict(q) \/ ScanExisting(q) \/ RereadRows(q)
             \/ WriteSnapshots(q) \/ Crash(q)
      PROVE  UNCHANGED <<entities, committed>>
  BY <1>5 DEF StartUpdate, StartCreate, StartImport, StartAppend, ResolveVersion, ReportConflict,
     ScanExisting, RereadRows, WriteSnapshots, Crash
<1>6. CASE RegisterSchema \/ DeleteSchema \/ UNCHANGED vars
  BY <1>6, <1>1 DEF RegisterSchema, DeleteSchema, vars
<1> QED
  BY <1>1, <1>2, <1>3, <1>4, <1>5, <1>6 DEF Next, Arrive, Step

LEMMA RevisionsGrowStep ==
  ASSUME TypeOK, KindsMatchLabels, [Next]_vars
  PROVE  RevisionsGrow
BY StepCommits, WriteRowsGrow

(* Every step records a set of committed rows in the snapshot table, mostly *)
(* the empty one.                                                           *)
LEMMA StepSnapshots ==
  ASSUME TypeOK, KindsMatchLabels, SnapshotsGenuine, LiveIsLatest, [Next]_vars
  PROVE  /\ committed \subseteq committed'
         /\ \E new \in SUBSET committed' : revisions' = RecordSnapshots(revisions, new)
         /\ \A q \in Requests : rows'[q] \subseteq committed'
<1>1. committed \subseteq committed'
  BY StepCommits DEF WriteRows
<1>2. RecordSnapshots(revisions, {}) = revisions
  BY DEF RecordSnapshots
<1>3. ASSUME UNCHANGED revisions
      PROVE  \E new \in SUBSET committed' : revisions' = RecordSnapshots(revisions, new)
  BY <1>3, <1>2
<1>4. ASSUME UNCHANGED rows
      PROVE  \A q \in Requests : rows'[q] \subseteq committed'
  BY <1>4, <1>1 DEF SnapshotsGenuine
<1>5. ASSUME NEW q \in Requests, NEW new \in SUBSET committed',
             rows' = [rows EXCEPT ![q] = new]
      PROVE  \A p \in Requests : rows'[p] \subseteq committed'
  BY <1>5, <1>1 DEF SnapshotsGenuine, TypeOK
<1>6. ASSUME NEW q \in Requests,
             \/ StartUpdate(q) \/ StartCreate(q) \/ StartImport(q) \/ StartAppend(q)
             \/ ResolveVersion(q)
             \/ ScanExisting(q) \/ Crash(q)
      PROVE  UNCHANGED <<revisions, rows>>
  BY <1>6 DEF StartUpdate, StartCreate, StartImport, StartAppend, ResolveVersion, ScanExisting, Crash
<1>7. CASE RegisterSchema \/ DeleteSchema \/ UNCHANGED vars
  BY <1>7, <1>1, <1>3, <1>4 DEF RegisterSchema, DeleteSchema, vars
<1>8. ASSUME NEW q \in Requests, CompareAndWrite(q)
      PROVE  /\ UNCHANGED revisions
             /\ \A p \in Requests : rows'[p] \subseteq committed'
  <2> DEFINE new == {UpdatedRow(args[q].target, args[q])}
  <2>1. CASE RevisionMatches(args[q].target, args[q].expected)
    <3>1. rows' = [rows EXCEPT ![q] = new] /\ committed' = committed \cup new
      BY <2>1, <1>8 DEF CompareAndWrite, WriteRows
    <3> HIDE DEF new
    <3> QED BY <3>1, <1>5, <1>8 DEF CompareAndWrite
  <2>2. CASE ~RevisionMatches(args[q].target, args[q].expected)
    BY <2>2, <1>4, <1>8 DEF CompareAndWrite
  <2> QED BY <2>1, <2>2
<1>9. ASSUME NEW q \in Requests, InsertRows(q)
      PROVE  /\ UNCHANGED revisions
             /\ \A p \in Requests : rows'[p] \subseteq committed'
  <2>1. PICK new : WriteRows(new) /\ rows' = [rows EXCEPT ![q] = new]
    BY <1>9 DEF InsertRows
  <2>2. new \in SUBSET committed'
    BY <2>1 DEF WriteRows
  <2> QED BY <2>1, <2>2, <1>5, <1>9 DEF InsertRows
<1>10. ASSUME NEW q \in Requests, RereadRows(q)
       PROVE  /\ UNCHANGED revisions
              /\ \A p \in Requests : rows'[p] \subseteq committed'
  <2>1. rows' = [rows EXCEPT ![q] = {RereadRow(r) : r \in rows[q]}]
          /\ UNCHANGED <<revisions, committed>>
    BY <1>10 DEF RereadRows
  <2>2. ASSUME NEW r \in rows[q]
        PROVE  RereadRow(r) \in committed
    <3>1. r \in committed /\ r.id \in Ids
      BY DEF SnapshotsGenuine, TypeOK, Row
    <3> QED BY <3>1 DEF LiveIsLatest, Live, RereadRow
  <2>3. {RereadRow(r) : r \in rows[q]} \in SUBSET committed'
    BY <2>1, <2>2
  <2> HIDE DEF RereadRow
  <2> QED BY <2>1, <2>3, <1>5
<1>11. ASSUME NEW q \in Requests, NEW status, NEW rev, Finish(q, status, rev)
       PROVE  \A p \in Requests : rows'[p] \subseteq committed'
  BY <1>11, <1>5 DEF Finish
<1>12. ASSUME NEW q \in Requests, ReportConflict(q) \/ WriteSnapshots(q)
       PROVE  /\ \E new \in SUBSET committed' : revisions' = RecordSnapshots(revisions, new)
              /\ \A p \in Requests : rows'[p] \subseteq committed'
  <2>1. CASE ReportConflict(q)
    BY <2>1, <1>3, <1>11 DEF ReportConflict
  <2>2. CASE WriteSnapshots(q)
    <3>1. rows[q] \in SUBSET committed'
      BY <1>1 DEF SnapshotsGenuine
    <3> QED BY <2>2, <3>1, <1>11 DEF WriteSnapshots
  <2> QED BY <1>12, <2>1, <2>2
<1>13. ASSUME NEW q \in Requests, UpdateMatched(q)
       PROVE  /\ \E new \in SUBSET committed' : revisions' = RecordSnapshots(revisions, new)
              /\ \A p \in Requests : rows'[p] \subseteq committed'
  <2>1. CASE NoUpsertConflict(q)
    <3> DEFINE new == {UpsertedRow(q, n) : n \in ToUpdate(q)}
    <3>1. /\ revisions' = RecordSnapshots(revisions, new) /\ committed' = committed \cup new
          /\ Finish(q, "ok", 0) \/ UNCHANGED rows
      BY <2>1, <1>13 DEF UpdateMatched, WriteRows
    <3> HIDE DEF new
    <3> QED BY <3>1, <1>4, <1>11
  <2>2. CASE ~NoUpsertConflict(q)
    BY <2>2, <1>3, <1>11, <1>13 DEF UpdateMatched
  <2> QED BY <2>1, <2>2
<1> QED
  BY <1>1, <1>3, <1>4, <1>6, <1>7, <1>8, <1>9, <1>10, <1>12, <1>13 DEF Next, Arrive, Step

LEMMA SnapshotsGenuineStep ==
  ASSUME TypeOK, KindsMatchLabels, SnapshotsGenuine, LiveIsLatest, [Next]_vars
  PROVE  SnapshotsGenuine'
BY StepSnapshots DEF SnapshotsGenuine, RecordSnapshots

-----------------------------------------------------------------------------
(* What a step does to the requests *)

(* A request that is answered holds nothing any more.                       *)
LEMMA FinishKinds ==
  ASSUME TypeOK, KindsMatchLabels, NEW q \in Requests, NEW status, NEW rev,
         Finish(q, status, rev)
  PROVE  KindsMatchLabels'
<1>1. Absent \notin Ids
  BY ConstantsAssumption
<1>2. pc'[q] = "done" /\ args'[q] = NoArgs
  BY DEF Finish, TypeOK
<1>3. \A p \in Requests : p # q => pc'[p] = pc[p] /\ args'[p] = args[p]
  BY DEF Finish, TypeOK
<1> QED
  BY <1>1, <1>2, <1>3 DEF KindsMatchLabels, NoArgs, RowsOf

(* A request that goes on to a label of its handler keeps what it asks for. *)
LEMMA GotoKinds ==
  ASSUME TypeOK, KindsMatchLabels, NEW q \in Requests, NEW label,
         Goto(q, label), UNCHANGED args,
         label \in {"cas", "reportConflict"} => args[q].kind = "update",
         label \in {"updateMatched"} => args[q].kind = "import",
         label \in {"insert", "reread"} => args[q].kind \in {"create", "import"},
         label \notin {"resolve", "scan"}
  PROVE  KindsMatchLabels'
<1>1. pc'[q] = label /\ \A p \in Requests : p # q => pc'[p] = pc[p]
  BY DEF Goto, TypeOK
<1> QED
  BY <1>1 DEF KindsMatchLabels

LEMMA KindsMatchLabelsStep ==
  ASSUME TypeOK, KindsMatchLabels, [Next]_vars
  PROVE  KindsMatchLabels'
<1>1. CASE UNCHANGED vars \/ RegisterSchema \/ DeleteSchema
  BY <1>1 DEF vars, RegisterSchema, DeleteSchema, KindsMatchLabels
<1> DEFINE OtherKinds(q) ==
             \A p \in Requests : p # q => pc'[p] = pc[p] /\ args'[p] = args[p]
<1>2. ASSUME NEW q \in Requests, NEW a, NEW label, Goto(q, label),
             args' = [args EXCEPT ![q] = a]
      PROVE  OtherKinds(q) /\ pc'[q] = label /\ args'[q] = a
  BY <1>2 DEF Goto, TypeOK
<1>3. ASSUME NEW q \in Requests, StartUpdate(q)
      PROVE  KindsMatchLabels'
  <2>1. PICK i \in Live, d \in Data, s \in States \cup {Keep}, v \in Versions \cup {Unset} :
          \E expected \in 1 .. entities[i].rev :
            /\ args' = [args EXCEPT ![q] =
                 [kind |-> "update", target |-> i, expected |-> expected,
                  batch |-> <<d>>, state |-> s, version |-> v]]
            /\ Goto(q, IF v = Unset THEN "resolve" ELSE "cas")
    BY <1>3 DEF StartUpdate
  <2>2. PICK expected :
          /\ args' = [args EXCEPT ![q] =
               [kind |-> "update", target |-> i, expected |-> expected,
                batch |-> <<d>>, state |-> s, version |-> v]]
          /\ Goto(q, IF v = Unset THEN "resolve" ELSE "cas")
    BY <2>1
  <2> DEFINE a == [kind |-> "update", target |-> i, expected |-> expected,
                   batch |-> <<d>>, state |-> s, version |-> v]
             label == IF v = Unset THEN "resolve" ELSE "cas"
  <2>3. a.kind = "update" /\ a.target \in Ids /\ label \in {"resolve", "cas"}
    BY DEF Live
  <2>4. Goto(q, label) /\ args' = [args EXCEPT ![q] = a]
    BY <2>2
  <2> HIDE DEF a, label
  <2>5. OtherKinds(q) /\ pc'[q] = label /\ args'[q] = a
    BY <2>4, <1>2
  <2> QED BY <2>3, <2>5 DEF KindsMatchLabels
<1>4. ASSUME NEW q \in Requests, StartCreate(q)
      PROVE  KindsMatchLabels'
  <2>1. PICK d \in Data, s \in States :
          args' = [args EXCEPT ![q] = RowsOf("create", <<d>>, s)]
    BY <1>4 DEF StartCreate
  <2>2. OtherKinds(q) /\ pc'[q] = "resolve" /\ args'[q] = RowsOf("create", <<d>>, s)
    BY <2>1, <1>2, <1>4 DEF StartCreate
  <2> QED BY <2>2, ConstantsAssumption DEF KindsMatchLabels, RowsOf
<1>5. ASSUME NEW q \in Requests, StartImport(q) \/ StartAppend(q)
      PROVE  KindsMatchLabels'
  <2>1. PICK b \in Batches :
          args' = [args EXCEPT ![q] = RowsOf("import", b, Active)]
    BY <1>5 DEF StartImport, StartAppend
  <2>2. OtherKinds(q) /\ pc'[q] \in {"scan", "insert"}
          /\ args'[q] = RowsOf("import", b, Active)
    BY <2>1, <1>2, <1>5 DEF StartImport, StartAppend
  <2> QED BY <2>2, ConstantsAssumption DEF KindsMatchLabels, RowsOf
<1>6. ASSUME NEW q \in Requests, ResolveVersion(q)
      PROVE  KindsMatchLabels'
  <2>1. /\ args' = [args EXCEPT ![q] = [args[q] EXCEPT !.version = StampedVersion(schemaVersion)]]
        /\ Goto(q, IF args[q].kind = "update" THEN "cas" ELSE "insert")
        /\ pc[q] = "resolve"
    BY <1>6 DEF ResolveVersion
  <2>2. /\ OtherKinds(q) /\ pc'[q] = IF args[q].kind = "update" THEN "cas" ELSE "insert"
        /\ args'[q] = [args[q] EXCEPT !.version = StampedVersion(schemaVersion)]
    BY <2>1, <1>2
  <2>3. args[q] \in Args
    BY DEF TypeOK
  <2>4. args'[q].kind = args[q].kind /\ args'[q].target = args[q].target
          /\ args'[q].state = args[q].state
    BY <2>2, <2>3 DEF Args
  <2> QED BY <2>1, <2>2, <2>4 DEF KindsMatchLabels
<1>7. ASSUME NEW q \in Requests, CompareAndWrite(q)
      PROVE  KindsMatchLabels'
  <2>1. (Goto(q, "snapshot") \/ Goto(q, "reportConflict")) /\ UNCHANGED args
          /\ args[q].kind = "update"
    BY <1>7 DEF CompareAndWrite, KindsMatchLabels
  <2> QED BY <2>1, GotoKinds
<1>8. ASSUME NEW q \in Requests, ReportConflict(q) \/ WriteSnapshots(q)
      PROVE  KindsMatchLabels'
  <2>1. \E status, rev : Finish(q, status, rev)
    BY <1>8 DEF ReportConflict, WriteSnapshots
  <2> QED BY <2>1, FinishKinds
<1>9. ASSUME NEW q \in Requests, ScanExisting(q)
      PROVE  KindsMatchLabels'
  <2>1. Goto(q, "updateMatched") /\ UNCHANGED args /\ args[q].kind = "import"
    BY <1>9 DEF ScanExisting, KindsMatchLabels
  <2> QED BY <2>1, GotoKinds
<1>10. ASSUME NEW q \in Requests, UpdateMatched(q)
       PROVE  KindsMatchLabels'
  <2>1. args[q].kind = "import"
    BY <1>10 DEF UpdateMatched, KindsMatchLabels
  <2>2. \/ \E status, rev : Finish(q, status, rev)
        \/ Goto(q, "insert") /\ UNCHANGED args
    BY <1>10 DEF UpdateMatched
  <2> QED BY <2>1, <2>2, FinishKinds, GotoKinds
<1>11. ASSUME NEW q \in Requests, InsertRows(q) \/ RereadRows(q)
       PROVE  KindsMatchLabels'
  <2>1. UNCHANGED args /\ args[q].kind \in {"create", "import"}
          /\ (Goto(q, "reread") \/ Goto(q, "snapshot"))
    BY <1>11 DEF InsertRows, RereadRows, KindsMatchLabels
  <2> QED BY <2>1, GotoKinds
<1>12. ASSUME NEW q \in Requests, Crash(q)
       PROVE  KindsMatchLabels'
  <2>1. OtherKinds(q) /\ pc'[q] = "crashed" /\ args'[q] = NoArgs
    BY <1>12, <1>2 DEF Crash
  <2> QED BY <2>1, ConstantsAssumption DEF KindsMatchLabels, NoArgs, RowsOf
<1> QED
  BY <1>1, <1>3, <1>4, <1>5, <1>6, <1>7, <1>8, <1>9, <1>10, <1>11, <1>12
  DEF Next, Arrive, Step

(* What ExpectedIsReached says of one request                               *)
Reached(q) ==
  /\ args[q].kind = "update" =>
       /\ entities[args[q].target] # Absent
       /\ args[q].expected <= entities[args[q].target].rev
  /\ args[q].kind = "update" /\ pc[q] \in {"reportConflict", "snapshot"} =>
       args[q].expected < entities[args[q].target].rev
  /\ answer[q].status = "ok" /\ answer[q].target \in Ids =>
       /\ entities[answer[q].target] # Absent
       /\ answer[q].expected < entities[answer[q].target].rev

(* A request that asks for nothing new has still been reached: revisions    *)
(* only grow.                                                               *)
LEMMA ReachedStays ==
  ASSUME TypeOK, TypeOK', KindsMatchLabels, RevisionsGrow,
         NEW q \in Requests, Reached(q), answer'[q] = answer[q],
         args'[q].kind = "update" =>
           /\ args[q].kind = "update"
           /\ args'[q].target = args[q].target
           /\ args'[q].expected = args[q].expected
           /\ pc'[q] \in {"reportConflict", "snapshot"} => pc'[q] = pc[q]
  PROVE  Reached(q)'
<1>1. \A i \in Ids : entities[i] # Absent =>
        /\ entities'[i] # Absent /\ entities'[i].rev >= entities[i].rev
        /\ entities[i].rev \in Nat /\ entities'[i].rev \in Nat
  BY DEF RevisionsGrow, TypeOK, Row
<1>2. args[q].expected \in Nat /\ answer[q].expected \in Nat
  BY DEF TypeOK, Args, Answer
<1>3. args[q].kind = "update" => args[q].target \in Ids
  BY DEF KindsMatchLabels
<1>4. ASSUME args'[q].kind = "update"
      PROVE  /\ entities'[args'[q].target] # Absent
             /\ args'[q].expected <= entities'[args'[q].target].rev
             /\ pc'[q] \in {"reportConflict", "snapshot"} =>
                  args'[q].expected < entities'[args'[q].target].rev
  BY <1>1, <1>2, <1>3, <1>4 DEF Reached
<1>5. ASSUME answer'[q].status = "ok", answer'[q].target \in Ids
      PROVE  /\ entities'[answer'[q].target] # Absent
             /\ answer'[q].expected < entities'[answer'[q].target].rev
  BY <1>1, <1>2, <1>5 DEF Reached
<1> QED
  BY <1>4, <1>5 DEF Reached

(* An answer repeats the precondition of a PUT that has been reached.       *)
LEMMA ReachedFinish ==
  ASSUME TypeOK, TypeOK', KindsMatchLabels, RevisionsGrow,
         NEW q \in Requests, Reached(q), NEW status, NEW rev, Finish(q, status, rev),
         status = "ok" /\ args[q].kind = "update" => pc[q] = "snapshot"
  PROVE  Reached(q)'
<1>1. /\ args'[q].kind = "none" /\ answer'[q].status = status
      /\ answer'[q].target = args[q].target /\ answer'[q].expected = args[q].expected
  BY DEF Finish, TypeOK, NoArgs, RowsOf
<1>2. ASSUME status = "ok", args[q].target \in Ids
      PROVE  /\ entities'[args[q].target] # Absent
             /\ args[q].expected < entities'[args[q].target].rev
  <2>1. args[q].kind = "update" /\ pc[q] = "snapshot"
    BY <1>2 DEF KindsMatchLabels
  <2>2. /\ entities[args[q].target] # Absent
        /\ args[q].expected < entities[args[q].target].rev
    BY <2>1 DEF Reached
  <2>3. /\ entities'[args[q].target] # Absent
        /\ entities'[args[q].target].rev >= entities[args[q].target].rev
    BY <1>2, <2>2 DEF RevisionsGrow
  <2>4. entities[args[q].target].rev \in Nat /\ entities'[args[q].target].rev \in Nat
          /\ args[q].expected \in Nat
    BY <1>2, <2>2, <2>3 DEF TypeOK, Row, Args
  <2> QED BY <2>2, <2>3, <2>4
<1> QED
  BY <1>1, <1>2 DEF Reached

LEMMA ExpectedIsReachedStep ==
  ASSUME TypeOK, TypeOK', KindsMatchLabels, ExpectedIsReached, [Next]_vars
  PROVE  ExpectedIsReached'
<1>1. RevisionsGrow
  BY RevisionsGrowStep
<1>2. \A q \in Requests : Reached(q)
  BY DEF ExpectedIsReached, Reached
<1>3. SUFFICES \A q \in Requests : Reached(q)'
  BY DEF ExpectedIsReached, Reached
<1>4. ASSUME NEW q \in Requests, pc'[q] = pc[q], args'[q] = args[q], answer'[q] = answer[q]
      PROVE  Reached(q)'
  BY <1>1, <1>2, <1>4, ReachedStays
<1>5. CASE UNCHANGED vars \/ RegisterSchema \/ DeleteSchema
  BY <1>4, <1>5 DEF vars, RegisterSchema, DeleteSchema
<1> DEFINE OthersStay(q) == \A p \in Requests : p # q =>
             pc'[p] = pc[p] /\ args'[p] = args[p] /\ answer'[p] = answer[p]
<1>6. ASSUME NEW q \in Requests, NEW label, NEW a, Goto(q, label),
             args' = [args EXCEPT ![q] = a]
      PROVE  OthersStay(q) /\ pc'[q] = label /\ args'[q] = a /\ answer'[q] = answer[q]
  BY <1>6 DEF Goto, TypeOK
<1>7. ASSUME NEW q \in Requests, NEW label, Goto(q, label), UNCHANGED args
      PROVE  OthersStay(q) /\ pc'[q] = label /\ args'[q] = args[q] /\ answer'[q] = answer[q]
  BY <1>7 DEF Goto, TypeOK
<1>8. ASSUME NEW q \in Requests, NEW status, NEW rev, Finish(q, status, rev)
      PROVE  OthersStay(q)
  BY <1>8 DEF Finish, TypeOK
<1>9. ASSUME NEW q \in Requests, OthersStay(q), Reached(q)'
      PROVE  \A p \in Requests : Reached(p)'
  BY <1>4, <1>9
<1> HIDE DEF OthersStay
<1>10. ASSUME NEW q \in Requests, StartUpdate(q)
       PROVE  OthersStay(q) /\ Reached(q)'
  <2>1. PICK i \in Live, d \in Data, s \in States \cup {Keep}, v \in Versions \cup {Unset} :
          \E expected \in 1 .. entities[i].rev :
            /\ args' = [args EXCEPT ![q] =
                 [kind |-> "update", target |-> i, expected |-> expected,
                  batch |-> <<d>>, state |-> s, version |-> v]]
            /\ Goto(q, IF v = Unset THEN "resolve" ELSE "cas")
    BY <1>10 DEF StartUpdate
  <2>2. PICK expected \in 1 .. entities[i].rev :
          /\ args' = [args EXCEPT ![q] =
               [kind |-> "update", target |-> i, expected |-> expected,
                batch |-> <<d>>, state |-> s, version |-> v]]
          /\ Goto(q, IF v = Unset THEN "resolve" ELSE "cas")
    BY <2>1
  <2> DEFINE a == [kind |-> "update", target |-> i, expected |-> expected,
                   batch |-> <<d>>, state |-> s, version |-> v]
             label == IF v = Unset THEN "resolve" ELSE "cas"
  <2>3. a.target = i /\ a.expected = expected /\ label \notin {"reportConflict", "snapshot"}
    OBVIOUS
  <2>4. Goto(q, label) /\ args' = [args EXCEPT ![q] = a]
    BY <2>2
  <2>5. entities' = entities
    BY <1>10 DEF StartUpdate
  <2>6. entities[i] # Absent /\ i \in Ids /\ entities[i].rev \in Nat /\ expected <= entities[i].rev
    BY DEF Live, TypeOK, Row
  <2> HIDE DEF a, label
  <2>7. OthersStay(q) /\ pc'[q] = label /\ args'[q] = a /\ answer'[q] = answer[q]
    BY <2>4, <1>6
  <2> QED BY <2>3, <2>5, <2>6, <2>7, <1>2 DEF Reached
<1>11. ASSUME NEW q \in Requests, NEW kind, kind # "update", NEW b, NEW s, NEW label,
              Goto(q, label), args' = [args EXCEPT ![q] = RowsOf(kind, b, s)]
       PROVE  OthersStay(q) /\ Reached(q)'
  <2>1. RowsOf(kind, b, s).kind = kind
    BY DEF RowsOf
  <2>2. OthersStay(q) /\ args'[q] = RowsOf(kind, b, s) /\ answer'[q] = answer[q]
    BY <1>6, <1>11
  <2> QED BY <2>1, <2>2, <1>1, <1>2, <1>11, ReachedStays
<1>12. ASSUME NEW q \in Requests, StartCreate(q) \/ StartImport(q) \/ StartAppend(q) \/ Crash(q)
       PROVE  OthersStay(q) /\ Reached(q)'
  BY <1>11, <1>12 DEF StartCreate, StartImport, StartAppend, Crash, NoArgs
<1>13. ASSUME NEW q \in Requests, ResolveVersion(q)
       PROVE  OthersStay(q) /\ Reached(q)'
  <2> DEFINE a == [args[q] EXCEPT !.version = StampedVersion(schemaVersion)]
  <2>1. args' = [args EXCEPT ![q] = a]
          /\ Goto(q, IF args[q].kind = "update" THEN "cas" ELSE "insert")
    BY <1>13 DEF ResolveVersion
  <2>2. args[q] \in Args
    BY DEF TypeOK
  <2>3. a.kind = args[q].kind /\ a.target = args[q].target /\ a.expected = args[q].expected
    BY <2>2 DEF Args
  <2> HIDE DEF a
  <2>4. OthersStay(q) /\ pc'[q] \in {"cas", "insert"} /\ args'[q] = a /\ answer'[q] = answer[q]
    BY <2>1, <1>6
  <2> QED BY <2>3, <2>4, <1>1, <1>2, ReachedStays
<1>14. ASSUME NEW q \in Requests, CompareAndWrite(q)
       PROVE  OthersStay(q) /\ Reached(q)'
  <2> DEFINE i == args[q].target
             new == UpdatedRow(i, args[q])
  <2>1. args[q].kind = "update" /\ i \in Ids /\ entities[i] # Absent
          /\ args[q].expected <= entities[i].rev /\ UNCHANGED args /\ pc[q] = "cas"
    BY <1>14, <1>2 DEF CompareAndWrite, KindsMatchLabels, Reached
  <2>2. entities[i] \in Row /\ entities[i].rev \in Nat /\ args[q].expected \in Nat
    BY <2>1 DEF TypeOK, Row, Args
  <2>3. \A label : Goto(q, label) =>
          OthersStay(q) /\ args'[q] = args[q] /\ answer'[q] = answer[q]
    BY <2>1, <1>7
  <2>4. CASE RevisionMatches(i, args[q].expected)
    <3>1. WriteRows({new}) /\ Goto(q, "snapshot")
      BY <2>4, <1>14 DEF CompareAndWrite
    <3>2. NextRevisions({new})
      BY <2>1, <2>4, CompareAndWriteNext
    <3>3. new.id = i /\ new.rev = args[q].expected + 1
      BY DEF UpdatedRow
    <3> HIDE DEF new
    <3>4. entities'[i] = new
      BY <3>1, <3>2, <3>3, WriteRowsEffect
    <3>5. new # Absent
      BY <3>2, ConstantsAssumption DEF NextRevisions, Row
    <3>6. answer'[q].status = "ok" /\ answer'[q].target \in Ids =>
            /\ entities'[answer'[q].target] # Absent
            /\ answer'[q].expected < entities'[answer'[q].target].rev
      <4> SUFFICES ASSUME answer[q].status = "ok", answer[q].target \in Ids
                   PROVE  /\ entities'[answer[q].target] # Absent
                          /\ answer[q].expected < entities'[answer[q].target].rev
        BY <2>3, <3>1
      <4> DEFINE j == answer[q].target
      <4>1. entities[j] # Absent /\ answer[q].expected < entities[j].rev
        BY <1>2 DEF Reached
      <4>2. entities'[j] # Absent /\ entities'[j].rev >= entities[j].rev
        BY <4>1, <1>1 DEF RevisionsGrow
      <4>3. entities[j].rev \in Nat /\ entities'[j].rev \in Nat /\ answer[q].expected \in Nat
        BY <4>1, <4>2 DEF TypeOK, Row, Answer
      <4> QED BY <4>1, <4>2, <4>3
    <3> QED BY <2>1, <2>2, <2>3, <3>1, <3>3, <3>4, <3>5, <3>6 DEF Reached
  <2>5. CASE ~RevisionMatches(i, args[q].expected)
    <3>1. Goto(q, "reportConflict") /\ UNCHANGED entities
      BY <2>5, <1>14 DEF CompareAndWrite
    <3>2. args[q].expected < entities[i].rev
      BY <2>1, <2>2, <2>5 DEF RevisionMatches
    <3> QED BY <2>1, <2>2, <2>3, <3>1, <3>2, <1>2 DEF Reached
  <2> QED BY <2>4, <2>5
<1>15. ASSUME NEW q \in Requests, ReportConflict(q) \/ WriteSnapshots(q)
       PROVE  OthersStay(q) /\ Reached(q)'
  BY <1>1, <1>2, <1>8, <1>15, ReachedFinish DEF ReportConflict, WriteSnapshots
<1>16. ASSUME NEW q \in Requests, NEW label, Goto(q, label), UNCHANGED args,
              args[q].kind # "update"
       PROVE  OthersStay(q) /\ Reached(q)'
  <2>1. OthersStay(q) /\ args'[q] = args[q] /\ answer'[q] = answer[q]
    BY <1>7, <1>16
  <2> QED BY <2>1, <1>1, <1>2, <1>16, ReachedStays
<1>17. ASSUME NEW q \in Requests, ScanExisting(q) \/ InsertRows(q) \/ RereadRows(q)
       PROVE  OthersStay(q) /\ Reached(q)'
  <2>1. args[q].kind # "update" /\ UNCHANGED args /\ \E label : Goto(q, label)
    BY <1>17 DEF ScanExisting, InsertRows, RereadRows, KindsMatchLabels
  <2> QED BY <2>1, <1>16
<1>18. ASSUME NEW q \in Requests, UpdateMatched(q)
       PROVE  OthersStay(q) /\ Reached(q)'
  <2>1. args[q].kind # "update"
    BY <1>18 DEF UpdateMatched, KindsMatchLabels
  <2>2. \/ \E status, rev : Finish(q, status, rev)
        \/ Goto(q, "insert") /\ UNCHANGED args
    BY <1>18 DEF UpdateMatched
  <2> QED BY <2>1, <2>2, <1>1, <1>2, <1>8, <1>16, ReachedFinish
<1> QED
  BY <1>5, <1>9, <1>10, <1>12, <1>13, <1>14, <1>15, <1>17, <1>18 DEF Next, Arrive, Step

-----------------------------------------------------------------------------
(* Lost updates *)

(* Only a compare-and-write makes a PUT win, and it wins the revision that  *)
(* is live until then.                                                      *)
LEMMA WonStep ==
  ASSUME TypeOK, KindsMatchLabels, [Next]_vars,
         NEW q \in Requests, NEW i \in Ids, NEW n, Won(q, i, n)'
  PROVE  Won(q, i, n) \/ (CompareAndWrite(q) /\ RevisionMatches(i, n))
<1>1. ASSUME pc'[q] = pc[q], args'[q] = args[q], answer'[q] = answer[q]
      PROVE  Won(q, i, n)
  BY <1>1 DEF Won
<1>2. ASSUME NEW label, Goto(q, label), label # "snapshot" \/ args'[q].kind # "update"
      PROVE  Won(q, i, n)
  <2>1. pc'[q] = label /\ answer'[q] = answer[q]
    BY <1>2 DEF Goto, TypeOK
  <2> QED BY <1>2, <2>1 DEF Won
<1>3. ASSUME NEW status, NEW rev, Finish(q, status, rev),
             status # "ok" \/ args[q].kind # "update" \/ pc[q] = "snapshot"
      PROVE  Won(q, i, n)
  <2>1. pc'[q] = "done" /\ answer'[q].status = status
          /\ answer'[q].target = args[q].target /\ answer'[q].expected = args[q].expected
    BY <1>3 DEF Finish, TypeOK
  <2>2. status = "ok" /\ args[q].target = i /\ args[q].expected = n
    BY <2>1 DEF Won
  <2>3. args[q].kind = "update"
    BY <2>2 DEF KindsMatchLabels
  <2> QED BY <1>3, <2>2, <2>3 DEF Won
<1>4. CASE UNCHANGED vars \/ RegisterSchema \/ DeleteSchema
  BY <1>1, <1>4 DEF vars, RegisterSchema, DeleteSchema
<1>5. ASSUME NEW p \in Requests, p # q, Arrive(p) \/ Step(p) \/ Crash(p)
      PROVE  Won(q, i, n)
  <2>1. \A label : Goto(p, label) => pc'[q] = pc[q] /\ answer'[q] = answer[q]
    BY <1>5 DEF Goto, TypeOK
  <2>2. \A a : args' = [args EXCEPT ![p] = a] => args'[q] = args[q]
    BY <1>5 DEF TypeOK
  <2>3. \A status, rev : Finish(p, status, rev) =>
          pc'[q] = pc[q] /\ args'[q] = args[q] /\ answer'[q] = answer[q]
    BY <1>5 DEF Finish, TypeOK
  <2>4. CASE Arrive(p)
    BY <2>1, <2>2, <2>4, <1>1 DEF Arrive, StartUpdate, StartCreate, StartImport,
       StartAppend
  <2>5. CASE Crash(p) \/ ResolveVersion(p)
    BY <2>1, <2>2, <2>5, <1>1 DEF Crash, ResolveVersion
  <2>6. CASE CompareAndWrite(p) \/ ScanExisting(p) \/ InsertRows(p) \/ RereadRows(p)
    BY <2>1, <2>6, <1>1 DEF CompareAndWrite, ScanExisting, InsertRows, RereadRows
  <2>7. CASE ReportConflict(p) \/ WriteSnapshots(p)
    BY <2>3, <2>7, <1>1 DEF ReportConflict, WriteSnapshots
  <2>8. CASE UpdateMatched(p)
    BY <2>1, <2>3, <2>8, <1>1 DEF UpdateMatched
  <2> QED BY <1>5, <2>4, <2>5, <2>6, <2>7, <2>8 DEF Step
<1>6. ASSUME Arrive(q) \/ Crash(q) \/ ResolveVersion(q) \/ ScanExisting(q)
      PROVE  Won(q, i, n)
  <2>1. \E label : Goto(q, label) /\ label # "snapshot"
    BY <1>6 DEF Arrive, StartUpdate, StartCreate, StartImport, StartAppend, Crash, ResolveVersion,
       ScanExisting
  <2> QED BY <2>1, <1>2
<1>7. ASSUME InsertRows(q) \/ RereadRows(q)
      PROVE  Won(q, i, n)
  <2>1. (\E label : Goto(q, label)) /\ UNCHANGED args /\ args[q].kind # "update"
    BY <1>7 DEF InsertRows, RereadRows, KindsMatchLabels
  <2> QED BY <2>1, <1>2
<1>8. ASSUME ReportConflict(q) \/ WriteSnapshots(q)
      PROVE  Won(q, i, n)
  BY <1>3, <1>8 DEF ReportConflict, WriteSnapshots
<1>9. ASSUME UpdateMatched(q)
      PROVE  Won(q, i, n)
  <2>1. args[q].kind # "update"
    BY <1>9 DEF UpdateMatched, KindsMatchLabels
  <2>2. \/ \E status, rev : Finish(q, status, rev)
        \/ Goto(q, "insert") /\ UNCHANGED args
    BY <1>9 DEF UpdateMatched
  <2> QED BY <2>1, <2>2, <1>2, <1>3
<1>10. ASSUME CompareAndWrite(q)
       PROVE  Won(q, i, n) \/ RevisionMatches(i, n)
  <2>1. CASE RevisionMatches(args[q].target, args[q].expected)
    <3>1. Goto(q, "snapshot") /\ UNCHANGED args
      BY <2>1, <1>10 DEF CompareAndWrite
    <3>2. answer'[q] = answer[q] /\ args'[q] = args[q]
      BY <3>1 DEF Goto
    <3> QED BY <2>1, <3>2 DEF Won
  <2>2. CASE ~RevisionMatches(args[q].target, args[q].expected)
    BY <2>2, <1>2, <1>10 DEF CompareAndWrite
  <2> QED BY <2>1, <2>2
<1> QED
  BY <1>4, <1>5, <1>6, <1>7, <1>8, <1>9, <1>10 DEF Next, Arrive, Step

LEMMA NoLostUpdateStep ==
  ASSUME TypeOK, KindsMatchLabels, ExpectedIsReached, NoLostUpdate, [Next]_vars
  PROVE  NoLostUpdate'
<1>1. SUFFICES ASSUME NEW p \in Requests, NEW q \in Requests, NEW i \in Ids, NEW n,
                      Won(p, i, n)', Won(q, i, n)', p # q
               PROVE  FALSE
  BY DEF NoLostUpdate
<1>2. ASSUME NEW r \in Requests, Won(r, i, n)
      PROVE  /\ n \in {answer[r].expected, args[r].expected}
             /\ ~RevisionMatches(i, n)
  <2>1. n \in {answer[r].expected, args[r].expected} /\ n \in Nat
    BY <1>2 DEF Won, TypeOK, Answer, Args
  <2>2. entities[i] # Absent /\ n < entities[i].rev
    BY <1>2 DEF ExpectedIsReached, Won
  <2> QED BY <2>1, <2>2 DEF RevisionMatches, TypeOK, Row
<1>3. ~(Won(p, i, n) /\ Won(q, i, n))
  BY <1>1, <1>2 DEF NoLostUpdate
<1>4. ~(CompareAndWrite(p) /\ CompareAndWrite(q))
  <2>1. ASSUME CompareAndWrite(p)
        PROVE  pc'[p] # "cas" /\ pc'[q] = pc[q]
    BY <2>1, <1>1 DEF CompareAndWrite, Goto, TypeOK
  <2>2. ASSUME CompareAndWrite(q)
        PROVE  pc[q] = "cas" /\ pc'[q] # "cas"
    BY <2>2 DEF CompareAndWrite, Goto, TypeOK
  <2> QED BY <2>1, <2>2
<1> QED
  BY <1>1, <1>2, <1>3, <1>4, WonStep

(* A 409 is answered only to a PUT whose revision has been replaced.        *)
LEMMA ConflictIsRealStep ==
  ASSUME TypeOK, KindsMatchLabels, ExpectedIsReached, ConflictIsReal, [Next]_vars
  PROVE  ConflictIsReal'
<1>1. ASSUME UNCHANGED answer
      PROVE  ConflictIsReal'
  BY <1>1 DEF ConflictIsReal
<1>2. ASSUME NEW q \in Requests, NEW status, NEW rev, Finish(q, status, rev),
             status = "conflict" => rev > args[q].expected
      PROVE  ConflictIsReal'
  <2>1. answer'[q].status = status /\ answer'[q].expected = args[q].expected
          /\ answer'[q].rev = rev
    BY <1>2 DEF Finish, TypeOK
  <2>2. \A p \in Requests : p # q => answer'[p] = answer[p]
    BY <1>2 DEF Finish, TypeOK
  <2> QED BY <1>2, <2>1, <2>2 DEF ConflictIsReal
<1>3. CASE UNCHANGED vars \/ RegisterSchema \/ DeleteSchema
  BY <1>1, <1>3 DEF vars, RegisterSchema, DeleteSchema
<1>4. ASSUME NEW q \in Requests,
             \/ StartUpdate(q) \/ StartCreate(q) \/ StartImport(q) \/ StartAppend(q)
             \/ ResolveVersion(q)
             \/ CompareAndWrite(q) \/ ScanExisting(q) \/ InsertRows(q) \/ RereadRows(q)
             \/ Crash(q)
      PROVE  UNCHANGED answer
  BY <1>4 DEF StartUpdate, StartCreate, StartImport, StartAppend, ResolveVersion, CompareAndWrite,
     ScanExisting, InsertRows, RereadRows, Crash, Goto
<1>5. ASSUME NEW q \in Requests, ReportConflict(q)
      PROVE  ConflictIsReal'
  <2>1. Finish(q, "conflict", CurrentRevision(q)) /\ pc[q] = "reportConflict"
    BY <1>5 DEF ReportConflict
  <2>2. args[q].kind = "update" /\ args[q].target \in Ids
    BY <2>1 DEF KindsMatchLabels
  <2>3. entities[args[q].target] # Absent /\ args[q].expected < entities[args[q].target].rev
    BY <2>1, <2>2 DEF ExpectedIsReached
  <2>4. args[q].expected \in Nat /\ entities[args[q].target].rev \in Nat
    BY <2>2, <2>3 DEF TypeOK, Row, Args
  <2>5. CurrentRevision(q) > args[q].expected
    BY <2>3, <2>4 DEF CurrentRevision
  <2> QED BY <2>1, <2>5, <1>2
<1>6. ASSUME NEW q \in Requests, WriteSnapshots(q)
      PROVE  ConflictIsReal'
  BY <1>2, <1>6 DEF WriteSnapshots
<1>7. ASSUME NEW q \in Requests, UpdateMatched(q)
      PROVE  ConflictIsReal'
  <2>1. Finish(q, "ok", 0) \/ Finish(q, "failed", 0) \/ Goto(q, "insert")
    BY <1>7 DEF UpdateMatched
  <2> QED BY <2>1, <1>1, <1>2 DEF Goto
<1> QED
  BY <1>1, <1>3, <1>4, <1>5, <1>6, <1>7 DEF Next, Arrive, Step

-----------------------------------------------------------------------------
(* The theorems *)

(* What the windows promise holds of every request after a step.            *)
LEMMA WindowsHoldStep ==
  ASSUME TypeOK, KindsMatchLabels, WindowsHold, [Next]_vars
  PROVE  WindowsHold'
<1> DEFINE Holds(p) ==
             /\ pc'[p] = "resolve" => StampedVersion(schemaVersion') \in window'[p]
             /\ args'[p].kind # "import" /\ pc'[p] \in {"cas", "insert"} =>
                  args'[p].version \in window'[p]
           Stays(p) == pc'[p] = pc[p] /\ args'[p] = args[p] /\ window'[p] = window[p]
           OthersStay(q) == schemaVersion' = schemaVersion /\ \A p \in Requests : p # q => Stays(p)
<1>1. ASSUME NEW p \in Requests, Stays(p), schemaVersion' = schemaVersion
      PROVE  Holds(p)
  BY <1>1 DEF WindowsHold
<1>2. ASSUME NEW q \in Requests, OthersStay(q), Holds(q)
      PROVE  WindowsHold'
  <2>1. \A p \in Requests : Holds(p)
    BY <1>1, <1>2
  <2> QED BY <2>1 DEF WindowsHold
<1>3. CASE UNCHANGED vars
  BY <1>3 DEF vars, WindowsHold, StampedVersion
<1>4. ASSUME NEW v, WidenWindows(v), schemaVersion' = v, UNCHANGED <<pc, args>>
      PROVE  WindowsHold'
  <2> SUFFICES ASSUME NEW p \in Requests
               PROVE  Holds(p)
    BY DEF WindowsHold
  <2>1. window'[p] = IF pc[p] = "resolve" THEN window[p] \cup {StampedVersion(v)} ELSE window[p]
    BY <1>4 DEF WidenWindows
  <2> QED BY <2>1, <1>4 DEF WindowsHold
<1>5. CASE RegisterSchema \/ DeleteSchema
  BY <1>4, <1>5 DEF RegisterSchema, DeleteSchema
<1>6. ASSUME NEW q \in Requests, StartUpdate(q)
      PROVE  WindowsHold'
  <2>1. PICK i \in Live, d \in Data, s \in States \cup {Keep}, v \in Versions \cup {Unset} :
          \E expected \in 1 .. entities[i].rev :
            /\ args' = [args EXCEPT ![q] =
                 [kind |-> "update", target |-> i, expected |-> expected,
                  batch |-> <<d>>, state |-> s, version |-> v]]
            /\ OpenWindow(q, v)
            /\ Goto(q, IF v = Unset THEN "resolve" ELSE "cas")
    BY <1>6 DEF StartUpdate
  <2>2. PICK expected :
          /\ args' = [args EXCEPT ![q] =
               [kind |-> "update", target |-> i, expected |-> expected,
                batch |-> <<d>>, state |-> s, version |-> v]]
          /\ OpenWindow(q, v)
          /\ Goto(q, IF v = Unset THEN "resolve" ELSE "cas")
    BY <2>1
  <2>3. schemaVersion' = schemaVersion
    BY <1>6 DEF StartUpdate
  <2>4. OthersStay(q)
    BY <2>2, <2>3 DEF Goto, OpenWindow, TypeOK
  <2>5. /\ args'[q].version = v /\ pc'[q] = IF v = Unset THEN "resolve" ELSE "cas"
        /\ window'[q] = {StampedVersion(IF v = Unset THEN schemaVersion ELSE v)}
    BY <2>2 DEF Goto, OpenWindow, TypeOK
  <2>6. v # Unset => StampedVersion(v) = v
    BY DEF StampedVersion
  <2>7. Holds(q)
    BY <2>3, <2>5, <2>6
  <2> QED BY <2>4, <2>7, <1>2
<1>7. ASSUME NEW q \in Requests, StartCreate(q)
      PROVE  WindowsHold'
  <2>1. schemaVersion' = schemaVersion /\ Goto(q, "resolve") /\ OpenWindow(q, Unset)
          /\ \E d, s : args' = [args EXCEPT ![q] = RowsOf("create", <<d>>, s)]
    BY <1>7 DEF StartCreate
  <2>2. OthersStay(q)
    BY <2>1 DEF Goto, OpenWindow, TypeOK
  <2>3. pc'[q] = "resolve" /\ window'[q] = {StampedVersion(schemaVersion)}
    BY <2>1 DEF Goto, OpenWindow, TypeOK
  <2> QED BY <2>1, <2>2, <2>3, <1>2
<1>8. ASSUME NEW q \in Requests, StartImport(q) \/ StartAppend(q)
      PROVE  WindowsHold'
  <2>1. schemaVersion' = schemaVersion /\ (Goto(q, "scan") \/ Goto(q, "insert")) /\ window' = window
          /\ \E b : args' = [args EXCEPT ![q] = RowsOf("import", b, Active)]
    BY <1>8 DEF StartImport, StartAppend
  <2>2. OthersStay(q)
    BY <2>1 DEF Goto, TypeOK
  <2>3. pc'[q] \in {"scan", "insert"} /\ args'[q].kind = "import"
    BY <2>1 DEF Goto, TypeOK, RowsOf
  <2> QED BY <2>2, <2>3, <1>2
<1>9. ASSUME NEW q \in Requests, ResolveVersion(q)
      PROVE  WindowsHold'
  <2>1. schemaVersion' = schemaVersion /\ pc[q] = "resolve" /\ window' = window
          /\ args' = [args EXCEPT ![q].version = StampedVersion(schemaVersion)]
          /\ \E label : label # "resolve" /\ Goto(q, label)
    BY <1>9 DEF ResolveVersion
  <2>2. OthersStay(q)
    BY <2>1 DEF Goto, TypeOK
  <2>3. pc'[q] # "resolve" /\ args'[q].version = StampedVersion(schemaVersion)
    BY <2>1 DEF Goto, TypeOK, Args
  <2>4. StampedVersion(schemaVersion) \in window[q]
    BY <2>1 DEF WindowsHold
  <2> QED BY <2>1, <2>2, <2>3, <2>4, <1>2
<1>10. ASSUME NEW q \in Requests, OthersStay(q), pc'[q] \notin {"resolve", "cas", "insert"}
       PROVE  WindowsHold'
  BY <1>2, <1>10
<1>11. ASSUME NEW q \in Requests, schemaVersion' = schemaVersion,
              CloseWindow(q) \/ window' = window,
              \/ UNCHANGED args \/ args' = [args EXCEPT ![q] = NoArgs],
              \E label : label \notin {"resolve", "cas", "insert"}
                           /\ pc' = [pc EXCEPT ![q] = label]
       PROVE  WindowsHold'
  <2>1. OthersStay(q)
    BY <1>11 DEF CloseWindow, TypeOK
  <2>2. pc'[q] \notin {"resolve", "cas", "insert"}
    BY <1>11 DEF TypeOK
  <2> QED BY <2>1, <2>2, <1>10
<1>12. ASSUME NEW q \in Requests,
              \/ CompareAndWrite(q) \/ ReportConflict(q) \/ ScanExisting(q) \/ InsertRows(q)
              \/ RereadRows(q) \/ WriteSnapshots(q) \/ Crash(q)
       PROVE  WindowsHold'
  <2>1. /\ schemaVersion' = schemaVersion
        /\ CloseWindow(q) \/ window' = window
        /\ UNCHANGED args \/ args' = [args EXCEPT ![q] = NoArgs]
    BY <1>12 DEF CompareAndWrite, ReportConflict, ScanExisting, InsertRows, RereadRows,
       WriteSnapshots, Crash, Finish
  <2>2. \E label : label \notin {"resolve", "cas", "insert"} /\ pc' = [pc EXCEPT ![q] = label]
    BY <1>12 DEF CompareAndWrite, ReportConflict, ScanExisting, InsertRows, RereadRows,
       WriteSnapshots, Crash, Finish, Goto
  <2> QED BY <2>1, <2>2, <1>11
<1>13. ASSUME NEW q \in Requests, UpdateMatched(q)
       PROVE  WindowsHold'
  <2>1. schemaVersion' = schemaVersion /\ window' = window /\ pc[q] = "updateMatched"
          /\ \/ \E status, rev : Finish(q, status, rev)
             \/ Goto(q, "insert") /\ UNCHANGED args
    BY <1>13 DEF UpdateMatched
  <2>2. CASE \E status, rev : Finish(q, status, rev)
    <3>1. args' = [args EXCEPT ![q] = NoArgs] /\ pc' = [pc EXCEPT ![q] = "done"]
      BY <2>2 DEF Finish
    <3> QED BY <2>1, <3>1, <1>11
  <2>3. CASE Goto(q, "insert") /\ UNCHANGED args
    <3>1. args[q].kind = "import"
      BY <2>1 DEF KindsMatchLabels
    <3>2. OthersStay(q) /\ pc'[q] = "insert" /\ args'[q].kind = "import"
      BY <2>1, <2>3, <3>1 DEF Goto, TypeOK
    <3> QED BY <3>2, <1>2
  <2> QED BY <2>1, <2>2, <2>3
<1> QED
  BY <1>3, <1>5, <1>6, <1>7, <1>8, <1>9, <1>12, <1>13 DEF Next, Arrive, Step

LEMMA InitIInv == Init => IInv
<1> SUFFICES ASSUME Init
             PROVE  IInv
  OBVIOUS
<1> USE DEF Init
<1>1. TypeOK
  <2>1. NoAnswer \in Answer
    BY DEF NoAnswer, Answer
  <2>2. \A q \in Requests : args[q].kind # "update"
    BY DEF NoArgs, RowsOf
  <2>3. args \in [Requests -> Args] /\ answer \in [Requests -> Answer]
    BY <2>1, NoArgsType
  <2> QED BY <2>2, <2>3 DEF TypeOK, Labels
<1>2. KindsMatchLabels
  BY ConstantsAssumption DEF KindsMatchLabels, NoArgs, RowsOf
<1>3. ExpectedIsReached
  BY DEF ExpectedIsReached, NoArgs, RowsOf, NoAnswer
<1>4. SnapshotsGenuine /\ WindowsHold
  BY DEF SnapshotsGenuine, WindowsHold
<1>5. LiveIsLatest /\ NoGaps
  BY DEF LiveIsLatest, Live, NoGaps, History!NoGaps
<1>6. NoLostUpdate
  BY DEF NoLostUpdate, Won, NoAnswer
<1>7. ConflictIsReal
  BY DEF ConflictIsReal, NoAnswer
<1> QED
  BY <1>1, <1>2, <1>3, <1>4, <1>5, <1>6, <1>7 DEF IInv

LEMMA IInvStep == IInv /\ [Next]_vars => IInv'
<1> SUFFICES ASSUME IInv, [Next]_vars
             PROVE  IInv'
  OBVIOUS
<1> USE DEF IInv
<1>1. TypeOK'
  BY TypeOKStep
<1>2. KindsMatchLabels'
  BY KindsMatchLabelsStep
<1>3. ExpectedIsReached'
  BY <1>1, ExpectedIsReachedStep
<1>4. SnapshotsGenuine' /\ WindowsHold'
  BY SnapshotsGenuineStep, WindowsHoldStep
<1>5. LiveIsLatest' /\ NoGaps'
  BY StepCommits, WriteRowsLatest, WriteRowsNoGaps
<1>6. NoLostUpdate'
  BY NoLostUpdateStep
<1>7. ConflictIsReal'
  BY ConflictIsRealStep
<1> QED
  BY <1>1, <1>2, <1>3, <1>4, <1>5, <1>6, <1>7

(* Every state the store can reach satisfies the inductive invariant.       *)
THEOREM Invariance == Spec => []IInv
BY InitIInv, IInvStep, PTL DEF Spec

(* The tables and the requests' locals always have their types.             *)
THEOREM TypeCorrect == Spec => []TypeOK
<1>1. IInv => TypeOK
  BY DEF IInv
<1> QED BY <1>1, Invariance, PTL

(* Of all PUTs that expected one revision at most one is ever accepted,     *)
(* for any number of concurrent PUTs, creates, imports and crashes.         *)
THEOREM LostUpdatesAreImpossible == Spec => []NoLostUpdate
<1>1. IInv => NoLostUpdate
  BY DEF IInv
<1> QED BY <1>1, Invariance, PTL

(* No two writers ever produce one revision of an entity, and the live row  *)
(* is the latest.                                                           *)
THEOREM LiveRowIsLatest == Spec => []LiveIsLatest
<1>1. IInv => LiveIsLatest
  BY DEF IInv
<1> QED BY <1>1, Invariance, PTL

(* A conflict answer always names a newer revision than the PUT expected.   *)
THEOREM ConflictsAreReal == Spec => []ConflictIsReal
<1>1. IInv => ConflictIsReal
  BY DEF IInv
<1> QED BY <1>1, Invariance, PTL

(* The DO UPDATE of a snapshot never meets another row: what is recorded    *)
(* under a revision is what was committed under it.                         *)
LEMMA SnapshotsStay ==
  ASSUME IInv, IInv', [Next]_vars
  PROVE  revisions \subseteq revisions'
<1>1. PICK new \in SUBSET committed' : revisions' = RecordSnapshots(revisions, new)
  BY StepSnapshots DEF IInv
<1>2. revisions \subseteq committed'
  BY StepSnapshots DEF IInv, SnapshotsGenuine
<1>3. \A s \in revisions, r \in new : SameRevision(s, r) => s = r
  BY <1>2 DEF IInv, LiveIsLatest, SameRevision
<1> QED
  BY <1>1, <1>3 DEF RecordSnapshots

(* A pinned revision, once readable, is never changed or removed.           *)
THEOREM PinnedIsImmutable == Spec => PinnedImmutable
<1>1. IInv /\ IInv' /\ [Next]_vars => [revisions \subseteq revisions']_revisions
  BY SnapshotsStay
<1> QED
  BY <1>1, Invariance, PTL DEF Spec, PinnedImmutable

(* Every step of the store is a step of RevisionHistory.                    *)
LEMMA HistoryStep ==
  ASSUME IInv, IInv', [Next]_vars
  PROVE  History!Advance
<1>1. PICK new : NextRevisions(new) /\ WriteRows(new)
  BY StepCommits DEF IInv
<1>2. committed' = committed \cup new
  BY <1>1 DEF WriteRows
<1>3. \A s \in committed' \ committed : History!Follows(s)
  BY <1>1, <1>2, WriteRowsFollow DEF IInv
<1>4. \A s, t \in committed' \ committed : s.id = t.id => s = t
  BY <1>1, <1>2 DEF NextRevisions
<1>5. committed' \subseteq Row /\ revisions' \subseteq committed'
  BY DEF IInv, TypeOK, SnapshotsGenuine
<1>6. revisions \subseteq revisions'
  BY SnapshotsStay
<1> QED
  BY <1>2, <1>3, <1>4, <1>5, <1>6 DEF History!Advance

(* The entity store implements RevisionHistory.                             *)
THEOREM KeepsHistoryTheorem == Spec => KeepsHistory
<1>1. Init => History!Init
  BY DEF Init, History!Init
<1>2. IInv /\ IInv' /\ [Next]_vars => [History!Advance]_<<committed, revisions>>
  BY HistoryStep
<1> QED
  BY <1>1, <1>2, Invariance, PTL DEF Spec, KeepsHistory, History!Spec

-----------------------------------------------------------------------------
(* Snapshots in flight *)

LEMMA InitSnapshotOwed == Init => SnapshotOwed
BY DEF Init, SnapshotOwed

(* A committed row leaves a request's hands only into the snapshot table.   *)
LEMMA SnapshotOwedStep ==
  ASSUME IInv, IInv', SnapshotOwed, [Next]_vars
  PROVE  SnapshotOwed'
<1> DEFINE Owed(q, w) == pc[q] \in {"snapshot", "crashed"} /\ w \in rows[q]
<1>1. SUFFICES ASSUME NEW w \in committed' \ revisions', w.rev # 1
               PROVE  \E q \in Requests : Owed(q, w)'
  BY DEF SnapshotOwed
<1>2. TypeOK /\ KindsMatchLabels
  BY DEF IInv
<1>3. ASSUME UNCHANGED <<committed, revisions>>
      PROVE  \E q \in Requests : Owed(q, w)
  BY <1>1, <1>3 DEF SnapshotOwed
<1>4. ASSUME w \in committed
      PROVE  \E q \in Requests : Owed(q, w)
  BY <1>1, <1>4, SnapshotsStay DEF SnapshotOwed
<1>5. ASSUME NEW p \in Requests, NEW q \in Requests, Owed(q, w),
             p # q, UNCHANGED rows \/ \E new : rows' = [rows EXCEPT ![p] = new],
             \E label : pc' = [pc EXCEPT ![p] = label]
      PROVE  Owed(q, w)'
  BY <1>2, <1>5 DEF TypeOK
<1>6. CASE UNCHANGED vars \/ RegisterSchema \/ DeleteSchema
  BY <1>3, <1>6 DEF vars, RegisterSchema, DeleteSchema
<1>7. ASSUME NEW p \in Requests, pc[p] \notin {"snapshot", "crashed"},
             UNCHANGED rows \/ (\E new : rows' = [rows EXCEPT ![p] = new]),
             \E label : pc' = [pc EXCEPT ![p] = label],
             w \in committed
      PROVE  \E q \in Requests : Owed(q, w)'
  <2>1. PICK q \in Requests : Owed(q, w)
    BY <1>4, <1>7
  <2>2. p # q
    BY <2>1, <1>7
  <2> QED BY <2>1, <2>2, <1>5, <1>7
<1>8. ASSUME NEW p \in Requests,
             \/ StartUpdate(p) \/ StartCreate(p) \/ StartImport(p) \/ StartAppend(p)
             \/ ResolveVersion(p)
             \/ ScanExisting(p) \/ RereadRows(p) \/ ReportConflict(p)
      PROVE  \E q \in Requests : Owed(q, w)'
  <2>1. pc[p] \notin {"snapshot", "crashed"} /\ UNCHANGED committed
    BY <1>8 DEF StartUpdate, StartCreate, StartImport, StartAppend, ResolveVersion, ScanExisting,
       RereadRows, ReportConflict
  <2>2. UNCHANGED rows \/ (\E new : rows' = [rows EXCEPT ![p] = new])
    BY <1>8 DEF StartUpdate, StartCreate, StartImport, StartAppend, ResolveVersion, ScanExisting,
       RereadRows, ReportConflict, Finish
  <2>3. \E label : pc' = [pc EXCEPT ![p] = label]
    BY <1>8 DEF StartUpdate, StartCreate, StartImport, StartAppend, ResolveVersion, ScanExisting,
       RereadRows, ReportConflict, Finish, Goto
  <2> QED BY <2>1, <2>2, <2>3, <1>1, <1>7
<1>9. ASSUME NEW p \in Requests, CompareAndWrite(p)
      PROVE  \E q \in Requests : Owed(q, w)'
  <2> DEFINE new == UpdatedRow(args[p].target, args[p])
  <2>1. /\ pc[p] = "cas" /\ \E label : pc' = [pc EXCEPT ![p] = label]
        /\ UNCHANGED rows \/ (\E x : rows' = [rows EXCEPT ![p] = x])
    BY <1>9 DEF CompareAndWrite, Goto
  <2>2. CASE w \in committed
    BY <2>1, <2>2, <1>7
  <2>3. CASE w \notin committed
    <3>1. RevisionMatches(args[p].target, args[p].expected)
      BY <2>3, <1>1, <1>9 DEF CompareAndWrite
    <3>2. committed' = committed \cup {new} /\ rows' = [rows EXCEPT ![p] = {new}]
            /\ pc' = [pc EXCEPT ![p] = "snapshot"]
      BY <3>1, <1>9 DEF CompareAndWrite, WriteRows, Goto
    <3> HIDE DEF new
    <3>3. w = new
      BY <3>2, <2>3, <1>1
    <3>4. pc'[p] = "snapshot" /\ rows'[p] = {new}
      BY <3>2, <1>2 DEF TypeOK
    <3> QED BY <3>3, <3>4
  <2> QED BY <2>2, <2>3
<1>10. ASSUME NEW p \in Requests, UpdateMatched(p)
       PROVE  \E q \in Requests : Owed(q, w)'
  <2>1. w \in committed
    <3>1. CASE NoUpsertConflict(p)
      <4> DEFINE new == {UpsertedRow(p, n) : n \in ToUpdate(p)}
      <4>1. committed' = committed \cup new /\ revisions' = RecordSnapshots(revisions, new)
        BY <3>1, <1>10 DEF UpdateMatched, WriteRows
      <4> HIDE DEF new
      <4> QED BY <4>1, <1>1 DEF RecordSnapshots
    <3>2. CASE ~NoUpsertConflict(p)
      BY <3>2, <1>1, <1>10 DEF UpdateMatched
    <3> QED BY <3>1, <3>2
  <2>2. /\ pc[p] = "updateMatched" /\ \E label : pc' = [pc EXCEPT ![p] = label]
        /\ UNCHANGED rows \/ (\E x : rows' = [rows EXCEPT ![p] = x])
    BY <1>10 DEF UpdateMatched, Goto, Finish
  <2> QED BY <2>1, <2>2, <1>7
<1>11. ASSUME NEW p \in Requests, InsertRows(p)
       PROVE  \E q \in Requests : Owed(q, w)'
  <2>1. PICK uuid \in [ToInsert(p) -> Ids \ Live] :
          LET new == {InsertedRow(p, n, uuid[n]) : n \in ToInsert(p)}
          IN  WriteRows(new) /\ rows' = [rows EXCEPT ![p] = new]
    BY <1>11 DEF InsertRows
  <2> DEFINE new == {InsertedRow(p, n, uuid[n]) : n \in ToInsert(p)}
  <2>2. \A r \in new : r.rev = 1
    BY DEF InsertedRow
  <2>3. committed' = committed \cup new /\ rows' = [rows EXCEPT ![p] = new]
    BY <2>1 DEF WriteRows
  <2> HIDE DEF new
  <2>4. w \in committed
    BY <2>2, <2>3, <1>1
  <2>5. pc[p] = "insert" /\ pc' = [pc EXCEPT ![p] = "reread"]
    BY <1>11 DEF InsertRows, Goto
  <2> QED BY <2>3, <2>4, <2>5, <1>7
<1>12. ASSUME NEW p \in Requests, WriteSnapshots(p)
       PROVE  \E q \in Requests : Owed(q, w)'
  <2>1. /\ revisions' = RecordSnapshots(revisions, rows[p]) /\ UNCHANGED committed
        /\ pc' = [pc EXCEPT ![p] = "done"] /\ rows' = [rows EXCEPT ![p] = {}]
    BY <1>12 DEF WriteSnapshots, Finish
  <2>2. w \in committed /\ w \notin rows[p]
    BY <2>1, <1>1 DEF RecordSnapshots
  <2>3. PICK q \in Requests : Owed(q, w)
    BY <2>2, <1>4
  <2>4. p # q
    BY <2>2, <2>3
  <2> QED BY <2>1, <2>3, <2>4, <1>5
<1>13. ASSUME NEW p \in Requests, Crash(p)
       PROVE  \E q \in Requests : Owed(q, w)'
  <2>1. pc' = [pc EXCEPT ![p] = "crashed"] /\ UNCHANGED <<rows, committed>>
    BY <1>13 DEF Crash, Goto
  <2>2. PICK q \in Requests : Owed(q, w)
    BY <2>1, <1>1, <1>4
  <2> QED BY <2>1, <2>2, <1>2 DEF TypeOK
<1> QED
  BY <1>3, <1>6, <1>8, <1>9, <1>10, <1>11, <1>12, <1>13, <1>1
  DEF Next, Arrive, Step, vars, RegisterSchema, DeleteSchema

(* A state that can never be pinned is a first state, or was lost in a crash. *)
THEOREM SnapshotsAreOwed == Spec => []SnapshotOwed
<1>1. IInv /\ IInv' /\ SnapshotOwed /\ [Next]_vars => SnapshotOwed'
  BY SnapshotOwedStep
<1> QED
  BY <1>1, InitSnapshotOwed, Invariance, PTL DEF Spec

-----------------------------------------------------------------------------
(* Schema versions *)

(* What a PUT or a create commits carries a version of its window: a lookup *)
(* that waits behind an await is no older than the request itself, whatever *)
(* is registered, lowered or deleted while it runs.                         *)
THEOREM StampsStayCurrent == Spec => StampsAreCurrent
<1> DEFINE Current == \A q \in Requests :
             CompareAndWrite(q) \/ (InsertRows(q) /\ args[q].kind = "create") =>
               \A w \in committed' \ committed : w.version \in window[q]
<1>1. ASSUME IInv
      PROVE  [Current]_vars
  <2>1. TypeOK /\ WindowsHold
    BY <1>1 DEF IInv
  <2>2. ASSUME NEW q \in Requests, pc[q] \in {"cas", "insert"}, args[q].kind # "import"
        PROVE  StampedVersion(args[q].version) \in window[q]
    <3>1. args[q].version \in window[q] /\ window[q] \subseteq Versions
      BY <2>1, <2>2 DEF WindowsHold, TypeOK
    <3>2. args[q].version # Unset
      BY <3>1, ConstantsAssumption
    <3> QED BY <3>1, <3>2 DEF StampedVersion
  <2>3. ASSUME NEW q \in Requests, CompareAndWrite(q), NEW w \in committed' \ committed
        PROVE  w.version \in window[q]
    <3>1. pc[q] = "cas" /\ args[q].kind # "import"
      BY <1>1, <2>3 DEF CompareAndWrite, IInv, KindsMatchLabels
    <3>2. WriteRows({UpdatedRow(args[q].target, args[q])}) \/ UNCHANGED committed
      BY <2>3 DEF CompareAndWrite
    <3>3. w = UpdatedRow(args[q].target, args[q])
      BY <2>3, <3>2 DEF WriteRows
    <3>4. w.version = StampedVersion(args[q].version)
      BY <3>3 DEF UpdatedRow
    <3> QED BY <3>1, <3>4, <2>2
  <2>4. ASSUME NEW q \in Requests, InsertRows(q), args[q].kind = "create",
               NEW w \in committed' \ committed
        PROVE  w.version \in window[q]
    <3>1. pc[q] = "insert"
            /\ \E uuid : WriteRows({InsertedRow(q, n, uuid[n]) : n \in ToInsert(q)})
      BY <2>4 DEF InsertRows
    <3>2. PICK uuid : WriteRows({InsertedRow(q, n, uuid[n]) : n \in ToInsert(q)})
      BY <3>1
    <3>3. PICK n \in ToInsert(q) : w = InsertedRow(q, n, uuid[n])
      BY <2>4, <3>2 DEF WriteRows
    <3>4. w.version = StampedVersion(args[q].version)
      BY <3>3 DEF InsertedRow
    <3> QED BY <3>1, <3>4, <2>2, <2>4
  <2> QED BY <2>3, <2>4
<1> QED
  BY <1>1, Invariance, PTL DEF StampsAreCurrent

-----------------------------------------------------------------------------
(* Imports that do not overlap *)

(* Of a data source that names its entities, a stored row and a row of a    *)
(* file meet in the upsert's map only under one and the same natural key.   *)
LEMMA MatchedKeys ==
  ASSUME KeysNameEntities, NEW d \in Data, NEW e \in Data, StoredKey(d) = InputKey(e)
  PROVE  KeyOf[d] = KeyOf[e] /\ KeyOf[e] # NoKey
BY DEF KeysNameEntities, StoredKey, InputKey

(* An update that leaves every entity its natural key leaves keys unique    *)
(* and free keys free.                                                      *)
LEMMA KeysStay ==
  ASSUME Live' = Live,
         \A i \in Live : KeyOf[entities'[i].data] = KeyOf[entities[i].data]
  PROVE  /\ UniqueNaturalKey => UniqueNaturalKey'
         /\ \A d : KeyIsFree(entities, d) => KeyIsFree(entities', d)
BY DEF UniqueNaturalKey, KeyIsFree, Live

LEMMA SerialIsNext == SerialNext => Next
BY DEF SerialNext, Next, Arrive

LEMMA InitSerialInv == Init => SerialInv
BY DEF Init, SerialInv, OneImport, UniqueNaturalKey, ImportSucceeds, Running, Live,
   NoArgs, RowsOf, NoAnswer

(* What an import that has just scanned knows of the entity an input is     *)
(* written over.                                                            *)
LEMMA SerialMatch ==
  ASSUME KeysNameEntities, TypeOK, OneImport, NEW q \in Requests, pc[q] = "updateMatched",
         NEW n \in ToUpdate(q)
  PROVE  LET r == MatchOf(q, n)
         IN  /\ r.id \in Live /\ entities[r.id] = r
             /\ KeyOf[r.data] = KeyOf[args[q].batch[n]]
             /\ KeyOf[args[q].batch[n]] # NoKey
             /\ args[q].batch[n] \in Data
<1> DEFINE r == MatchOf(q, n)
<1>1. r \in found[q] /\ StoredKey(r.data) = InputKey(args[q].batch[n])
  <2>1. r \in Matches(q, n)
    BY DEF MatchOf, ToUpdate
  <2> QED BY <2>1 DEF Matches
<1>2. PICK i \in Live : r = entities[i]
  BY <1>1 DEF OneImport
<1>3. r \in Row /\ r.id = i
  BY <1>2 DEF TypeOK, Live
<1>4. r.data \in Data
  BY <1>3 DEF Row
<1>5. args[q].batch[n] \in Data
  <2>1. args[q].batch \in Seq(Data)
    BY DEF TypeOK, Args
  <2> QED BY <2>1 DEF ToUpdate
<1> HIDE DEF r
<1>6. KeyOf[r.data] = KeyOf[args[q].batch[n]] /\ KeyOf[args[q].batch[n]] # NoKey
  BY <1>1, <1>4, <1>5, MatchedKeys
<1> QED
  BY <1>2, <1>3, <1>5, <1>6 DEF r

(* Its transaction is never rolled back ...                                 *)
LEMMA SerialNoConflict ==
  ASSUME KeysNameEntities, TypeOK, KindsMatchLabels, OneImport,
         NEW q \in Requests, pc[q] = "updateMatched"
  PROVE  NoUpsertConflict(q)
<1>1. ASSUME NEW n \in ToUpdate(q)
      PROVE  RevisionMatches(MatchOf(q, n).id, MatchOf(q, n).rev)
  BY SerialMatch DEF RevisionMatches, Live
<1>2. ASSUME NEW m \in ToUpdate(q), NEW n \in ToUpdate(q),
             MatchOf(q, m).id = MatchOf(q, n).id
      PROVE  m = n
  <2>1. MatchOf(q, m) = MatchOf(q, n)
    BY <1>2, SerialMatch
  <2>2. KeyOf[args[q].batch[m]] = KeyOf[args[q].batch[n]] /\ KeyOf[args[q].batch[m]] # NoKey
    BY <2>1, SerialMatch
  <2>3. args[q].batch \in Batches
    BY DEF OneImport, KindsMatchLabels
  <2> QED
    BY <2>2, <2>3 DEF KeysNameEntities, ToUpdate
<1> QED
  BY <1>1, <1>2 DEF NoUpsertConflict

(* ... and writes each entity a payload with the key it had.                *)
LEMMA SerialKeysStay ==
  ASSUME KeysNameEntities, TypeOK, KindsMatchLabels, OneImport,
         NEW q \in Requests, UpdateMatched(q)
  PROVE  /\ Live' = Live
         /\ \A i \in Live : KeyOf[entities'[i].data] = KeyOf[entities[i].data]
<1> DEFINE new == {UpsertedRow(q, n) : n \in ToUpdate(q)}
<1>1. pc[q] = "updateMatched" /\ NoUpsertConflict(q)
  BY SerialNoConflict DEF UpdateMatched
<1>2. NextRevisions(new) /\ WriteRows(new)
  BY <1>1, UpdateMatchedNext DEF UpdateMatched
<1>3. \A r \in new : /\ r.id \in Live /\ r # Absent
                     /\ KeyOf[r.data] = KeyOf[entities[r.id].data]
  <2> SUFFICES ASSUME NEW n \in ToUpdate(q)
               PROVE  LET r == UpsertedRow(q, n)
                      IN  /\ r.id \in Live /\ r # Absent
                          /\ KeyOf[r.data] = KeyOf[entities[r.id].data]
    OBVIOUS
  <2>1. UpsertedRow(q, n) \in Row
    BY <1>2 DEF NextRevisions
  <2>2. UpsertedRow(q, n) # Absent
    BY <2>1, ConstantsAssumption DEF Row
  <2>3. /\ UpsertedRow(q, n).id = MatchOf(q, n).id
        /\ UpsertedRow(q, n).data = args[q].batch[n]
    BY DEF UpsertedRow
  <2> QED BY <1>1, <2>2, <2>3, SerialMatch
<1> HIDE DEF new
<1>4. ASSUME NEW i \in Ids
      PROVE  \/ entities'[i] = entities[i]
             \/ /\ i \in Live /\ entities'[i] # Absent
                /\ KeyOf[entities'[i].data] = KeyOf[entities[i].data]
  <2>1. CASE \A r \in new : r.id # i
    BY <1>2, <2>1, WriteRowsEffect
  <2>2. CASE \E r \in new : r.id = i
    BY <1>2, <1>3, <2>2, WriteRowsEffect
  <2> QED BY <2>1, <2>2
<1> QED
  BY <1>4 DEF Live

(* A step of a request leaves what the others hold.                         *)
LEMMA SerialOthers ==
  ASSUME TypeOK, NEW q \in Requests, Step(q) \/ Crash(q) \/ StartImport(q)
  PROVE  \A p \in Requests : p # q =>
           /\ pc'[p] = pc[p] /\ args'[p] = args[p] /\ found'[p] = found[p]
           /\ answer'[p] = answer[p]
<1> USE DEF TypeOK, Goto, Finish
<1>1. CASE ResolveVersion(q) \/ CompareAndWrite(q) \/ ReportConflict(q)
  BY <1>1 DEF ResolveVersion, CompareAndWrite, ReportConflict
<1>2. CASE ScanExisting(q) \/ InsertRows(q) \/ RereadRows(q) \/ WriteSnapshots(q)
  BY <1>2 DEF ScanExisting, InsertRows, RereadRows, WriteSnapshots
<1>3. CASE UpdateMatched(q)
  BY <1>3 DEF UpdateMatched
<1>4. CASE Crash(q) \/ StartImport(q)
  BY <1>4 DEF Crash, StartImport
<1> QED
  BY <1>1, <1>2, <1>3, <1>4 DEF Step

(* What OneImport says of one request                                       *)
LEMMA OneImportFor ==
  ASSUME OneImport, TypeOK', NEW q \in Requests,
         \A p \in Requests : p # q =>
           /\ pc'[p] = pc[p] /\ args'[p] = args[p] /\ found'[p] = found[p],
         \A p \in Requests : p # q => ~Running(p),
         args'[q].kind \in {"none", "import"},
         args'[q].kind = "import" => args'[q].batch \in Batches,
         pc'[q] = "updateMatched" =>
           /\ found'[q] \subseteq {entities'[i] : i \in Live'}
           /\ \A i \in Live' : \E r \in found'[q] :
                StoredKey(r.data) = StoredKey(entities'[i].data)
           /\ \A r, s \in found'[q] : StoredKey(r.data) = StoredKey(s.data) => r = s,
         pc'[q] = "insert" => \A n \in ToInsert(q)' : KeyIsFree(entities', args'[q].batch[n])
  PROVE  OneImport'
<1>1. ASSUME NEW p \in Requests, p # q
      PROVE  ~Running(p)' /\ pc'[p] \notin {"updateMatched", "insert"}
  BY <1>1 DEF Running
<1>2. ASSUME NEW p \in Requests, p # q
      PROVE  /\ args'[p].kind \in {"none", "import"}
             /\ args'[p].kind = "import" => args'[p].batch \in Batches
  BY <1>2 DEF OneImport
<1> QED
  BY <1>1, <1>2 DEF OneImport, KeyIsFree

(* The scan of the one import under way is the table until it is written,   *)
(* and an insert adds keys that were free.                                  *)
LEMMA SerialInvStep ==
  ASSUME KeysNameEntities, IInv, IInv', SerialInv, [SerialNext]_vars
  PROVE  SerialInv'
<1>1. TypeOK /\ KindsMatchLabels /\ TypeOK' /\ KindsMatchLabels'
        /\ OneImport /\ UniqueNaturalKey /\ ImportSucceeds
  BY DEF IInv, SerialInv
<1>2. CASE UNCHANGED vars
  <2>1. \A q \in Requests : ToInsert(q)' = ToInsert(q)
    BY <1>2 DEF vars, ToInsert, Matches
  <2>3. UniqueNaturalKey' /\ ImportSucceeds'
    BY <1>1, <1>2 DEF vars, UniqueNaturalKey, ImportSucceeds, Live
  <2>4. OneImport'
    BY <1>1, <1>2, <2>1 DEF vars, OneImport, Running, Live, KeyIsFree
  <2> QED BY <2>3, <2>4 DEF SerialInv
<1>3. CASE SerialNext
  <2>1. PICK q \in Requests : \/ Quiet /\ StartImport(q)
                              \/ Step(q) \/ Crash(q)
    BY <1>3 DEF SerialNext
  <2> DEFINE Others == \A p \in Requests : p # q =>
               /\ pc'[p] = pc[p] /\ args'[p] = args[p] /\ found'[p] = found[p]
             Alone == \A p \in Requests : p # q => ~Running(p)
  <2>2. Others /\ \A p \in Requests : p # q => answer'[p] = answer[p]
    BY <1>1, <2>1, SerialOthers
  <2>3. Alone
    <3>1. Quiet \/ Running(q)
      BY <2>1 DEF Quiet, Step, Running, ResolveVersion, CompareAndWrite, ReportConflict,
         ScanExisting, UpdateMatched, InsertRows, RereadRows, WriteSnapshots, Crash
    <3> QED BY <1>1, <3>1 DEF Quiet, OneImport
  <2> HIDE DEF Others, Alone
  <2>4. args[q].kind \in {"none", "import"} /\ (args[q].kind = "import" => args[q].batch \in Batches)
    BY <1>1 DEF OneImport
  <2>6. ~CompareAndWrite(q) /\ ~ReportConflict(q) /\ ~ResolveVersion(q)
    BY <1>1, <2>4 DEF KindsMatchLabels, CompareAndWrite, ReportConflict, ResolveVersion
  (* the cases that do not write entities *)
  <2>7. ASSUME UNCHANGED entities,
               answer'[q].status # "failed", pc'[q] \notin {"updateMatched", "insert"},
               args'[q].kind \in {"none", "import"},
               args'[q].kind = "import" => args'[q].batch \in Batches
        PROVE  SerialInv'
    <3>1. OneImport'
      BY <1>1, <2>2, <2>3, <2>7, OneImportFor DEF Others, Alone
    <3>2. UniqueNaturalKey'
      BY <1>1, <2>7 DEF UniqueNaturalKey, Live
    <3>3. ImportSucceeds'
      BY <1>1, <2>2, <2>7 DEF ImportSucceeds
    <3> QED BY <3>1, <3>2, <3>3 DEF SerialInv
  <2>8. NoArgs.kind = "none"
    BY NoArgsType
  <2>9. CASE StartImport(q)
    <3>1. PICK b \in Batches : args' = [args EXCEPT ![q] = RowsOf("import", b, Active)]
      BY <2>9 DEF StartImport
    <3>2. args'[q].kind = "import" /\ args'[q].batch = b
      BY <1>1, <3>1 DEF TypeOK, RowsOf
    <3>3. UNCHANGED entities /\ answer' = answer /\ pc'[q] = "scan"
      BY <1>1, <2>9 DEF StartImport, Goto, TypeOK
    <3> QED BY <1>1, <3>2, <3>3, <2>7 DEF ImportSucceeds
  <2>10. CASE RereadRows(q)
    <3>1. UNCHANGED <<entities, args, answer>> /\ pc'[q] = "snapshot"
      BY <1>1, <2>10 DEF RereadRows, Goto, TypeOK
    <3> QED BY <1>1, <2>4, <2>7, <3>1 DEF ImportSucceeds
  <2>11. CASE Crash(q)
    <3>1. UNCHANGED <<entities, answer>> /\ pc'[q] = "crashed" /\ args'[q] = NoArgs
      BY <1>1, <2>11 DEF Crash, Goto, TypeOK
    <3> QED BY <1>1, <2>7, <2>8, <3>1 DEF ImportSucceeds
  <2>12. CASE WriteSnapshots(q)
    <3>1. UNCHANGED entities /\ answer'[q].status = "ok" /\ pc'[q] = "done" /\ args'[q] = NoArgs
      BY <1>1, <2>12 DEF WriteSnapshots, Finish, TypeOK
    <3> QED BY <2>7, <2>8, <3>1
  <2>13. CASE ScanExisting(q)
    <3>1. PICK map \in SUBSET {entities[i] : i \in Live} :
            /\ \A i \in Live : \E r \in map : StoredKey(r.data) = StoredKey(entities[i].data)
            /\ \A r, s \in map : StoredKey(r.data) = StoredKey(s.data) => r = s
            /\ found' = [found EXCEPT ![q] = map]
      BY <2>13 DEF ScanExisting
    <3>2. UNCHANGED <<entities, args, answer>> /\ pc'[q] = "updateMatched" /\ found'[q] = map
            /\ Live' = Live
      BY <1>1, <2>13, <3>1 DEF ScanExisting, Goto, TypeOK, Live
    <3>3. OneImport'
      BY <1>1, <2>2, <2>3, <2>4, <3>1, <3>2, OneImportFor DEF Others, Alone
    <3>4. UniqueNaturalKey' /\ ImportSucceeds'
      BY <1>1, <3>2 DEF UniqueNaturalKey, ImportSucceeds
    <3> QED BY <3>3, <3>4 DEF SerialInv
  <2>14. CASE UpdateMatched(q)
    <3>1. pc[q] = "updateMatched" /\ NoUpsertConflict(q)
      BY <1>1, <2>14, SerialNoConflict DEF UpdateMatched
    <3>2. Live' = Live /\ \A i \in Live : KeyOf[entities'[i].data] = KeyOf[entities[i].data]
      BY <1>1, <2>14, SerialKeysStay
    <3>3. UniqueNaturalKey'
      BY <1>1, <3>2, KeysStay
    <3>4. \/ Finish(q, "ok", 0)
          \/ Goto(q, "insert") /\ UNCHANGED <<args, found>>
      BY <3>1, <2>14 DEF UpdateMatched
    <3>5. CASE Finish(q, "ok", 0)
      <4>1. pc'[q] = "done" /\ args'[q] = NoArgs /\ answer'[q].status = "ok"
        BY <1>1, <3>5 DEF Finish, TypeOK
      <4>2. OneImport'
        BY <1>1, <2>2, <2>3, <2>8, <4>1, OneImportFor DEF Others, Alone
      <4>3. ImportSucceeds'
        BY <1>1, <2>2, <4>1 DEF ImportSucceeds
      <4> QED BY <3>3, <4>2, <4>3 DEF SerialInv
    <3>6. CASE Goto(q, "insert") /\ UNCHANGED <<args, found>>
      <4>1. pc'[q] = "insert" /\ answer' = answer
        BY <1>1, <3>6 DEF Goto, TypeOK
      <4>2. ToInsert(q)' = ToInsert(q)
        BY <3>6 DEF ToInsert, Matches
      <4>3. ASSUME NEW n \in ToInsert(q)
            PROVE  KeyIsFree(entities, args[q].batch[n])
        <5> DEFINE d == args[q].batch[n]
        <5>1. d \in Data
          <6>1. args[q].batch \in Seq(Data)
            BY <1>1 DEF TypeOK, Args
          <6> QED BY <6>1 DEF ToInsert
        <5>2. \A r \in found[q] : StoredKey(r.data) # InputKey(d)
          BY DEF ToInsert, Matches
        <5> HIDE DEF d
        <5>3. ASSUME NEW i \in Live, KeyOf[d] # NoKey, KeyOf[entities[i].data] = KeyOf[d]
              PROVE  FALSE
          <6>1. SafeField
            BY DEF KeysNameEntities
          <6>2. StoredKey(entities[i].data) = InputKey(d)
            BY <5>3, <6>1 DEF StoredKey, InputKey
          <6> QED BY <1>1, <3>1, <5>2, <6>2 DEF OneImport
        <5> QED BY <5>3 DEF KeyIsFree, Live, d
      <4>4. \A n \in ToInsert(q)' : KeyIsFree(entities', args'[q].batch[n])
        BY <3>2, <3>6, <4>2, <4>3, KeysStay
      <4>5. OneImport'
        BY <1>1, <2>2, <2>3, <2>4, <3>6, <4>1, <4>4, OneImportFor DEF Others, Alone
      <4>6. ImportSucceeds'
        BY <1>1, <4>1 DEF ImportSucceeds
      <4> QED BY <3>3, <4>5, <4>6 DEF SerialInv
    <3> QED BY <3>4, <3>5, <3>6
  <2>15. CASE InsertRows(q)
    <3>1. PICK uuid \in [ToInsert(q) -> Ids \ Live] :
            /\ \A m, n \in ToInsert(q) : uuid[m] = uuid[n] => m = n
            /\ LET w == {InsertedRow(q, n, uuid[n]) : n \in ToInsert(q)}
               IN  WriteRows(w) /\ rows' = [rows EXCEPT ![q] = w]
      BY <2>15 DEF InsertRows
    <3> DEFINE w == {InsertedRow(q, n, uuid[n]) : n \in ToInsert(q)}
    <3>2. WriteRows(w) /\ NextRevisions(w)
      BY <1>1, <2>15, <3>1, InsertRowsNext DEF InsertRows
    <3>3. UNCHANGED <<args, answer>> /\ pc'[q] = "reread" /\ pc[q] = "insert"
      BY <1>1, <2>15 DEF InsertRows, Goto, TypeOK
    <3>4. \A r \in w : KeyIsFree(entities, r.data)
      <4>1. \A n \in ToInsert(q) : KeyIsFree(entities, args[q].batch[n])
        BY <1>1, <3>3 DEF OneImport
      <4> QED BY <4>1 DEF InsertedRow
    <3>5. \A r, s \in w : KeyOf[r.data] # NoKey /\ KeyOf[r.data] = KeyOf[s.data] => r = s
      <4>1. \A m, n \in ToInsert(q) :
              LET b == args[q].batch
              IN  KeyOf[b[m]] # NoKey /\ KeyOf[b[m]] = KeyOf[b[n]] => m = n
        <5>1. args[q].kind = "import" \/ args[q].kind = "create"
          BY <1>1, <3>3 DEF KindsMatchLabels
        <5>2. args[q].batch \in Batches
          BY <2>4, <5>1
        <5> QED BY <5>2 DEF KeysNameEntities, ToInsert
      <4> QED BY <4>1 DEF InsertedRow
    <3> HIDE DEF w
    <3>6. \A i \in Ids : entities'[i] \in w \/ (entities'[i] = entities[i])
      BY <1>1, <3>2, WriteRowsEffect
    <3>7. UniqueNaturalKey'
      <4> SUFFICES ASSUME NEW i \in Live', NEW j \in Live',
                          KeyOf[entities'[i].data] # NoKey,
                          KeyOf[entities'[i].data] = KeyOf[entities'[j].data]
                   PROVE  i = j
        BY DEF UniqueNaturalKey
      <4>1. i \in Ids /\ j \in Ids /\ entities'[i].id = i /\ entities'[j].id = j
        BY <1>1 DEF Live, TypeOK
      <4>2. CASE entities'[i] \in w /\ entities'[j] \in w
        BY <3>5, <4>1, <4>2
      <4>3. CASE entities'[i] = entities[i] /\ entities'[j] = entities[j]
        BY <1>1, <4>1, <4>3 DEF UniqueNaturalKey, Live
      <4>4. CASE entities'[i] \in w /\ entities'[j] = entities[j]
        BY <3>4, <4>1, <4>4 DEF KeyIsFree, Live
      <4>5. CASE entities'[i] = entities[i] /\ entities'[j] \in w
        BY <3>4, <4>1, <4>5 DEF KeyIsFree, Live
      <4> QED BY <3>6, <4>1, <4>2, <4>3, <4>4, <4>5
    <3>8. OneImport'
      BY <1>1, <2>2, <2>3, <2>4, <3>3, OneImportFor DEF Others, Alone
    <3>9. ImportSucceeds'
      BY <1>1, <3>3 DEF ImportSucceeds
    <3> QED BY <3>7, <3>8, <3>9 DEF SerialInv
  <2> QED
    BY <2>1, <2>6, <2>9, <2>10, <2>11, <2>12, <2>13, <2>14, <2>15 DEF Step
<1> QED
  BY <1>2, <1>3

(* Imports that do not overlap keep to what each knows of the table.        *)
THEOREM SerialInvariance ==
  ASSUME KeysNameEntities PROVE SerialImports => []SerialInv
<1>1. Init => IInv /\ SerialInv
  BY InitIInv, InitSerialInv
<1>2. IInv /\ SerialInv /\ [SerialNext]_vars => IInv' /\ SerialInv'
  <2>1. IInv /\ [SerialNext]_vars => IInv'
    BY IInvStep, SerialIsNext
  <2> QED BY <2>1, SerialInvStep
<1> QED
  BY <1>1, <1>2, PTL DEF SerialImports

(* Where the data source names its entities and imports do not overlap, no  *)
(* two live entities ever share a natural key, whatever crashes.            *)
THEOREM NaturalKeysAreUnique ==
  ASSUME KeysNameEntities PROVE SerialImports => []UniqueNaturalKey
<1>1. SerialInv => UniqueNaturalKey
  BY DEF SerialInv
<1> QED BY <1>1, SerialInvariance, PTL

(* Nor is an import then ever refused by its own upsert, in any number of   *)
(* imports, one after another.                                              *)
THEOREM SerialImportsSucceed ==
  ASSUME KeysNameEntities PROVE SerialImports => []ImportSucceeds
<1>1. SerialInv => ImportSucceeds
  BY DEF SerialInv
<1> QED BY <1>1, SerialInvariance, PTL
=============================================================================
