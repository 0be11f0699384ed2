---------------------------- MODULE EntityStore ----------------------------
(***************************************************************************)
(* The entity store of @aurii/core on PostgreSQL: entities with an         *)
(* optimistic-concurrency revision, and the table of revision snapshots    *)
(* that pinned references read.                                            *)
(*                                                                         *)
(* A request (an HTTP call or an import run) is a process.  Every await    *)
(* on the database is a step, and one step runs one SQL statement or one   *)
(* transaction, so everything another request can do in between two        *)
(* awaits is an interleaving here.  Requests are one-shot: "new" requests  *)
(* have not arrived, "done" ones have been answered, and a "crashed" one   *)
(* was lost with its server process.                                       *)
(***************************************************************************)
EXTENDS Integers, Sequences, FiniteSets

CONSTANTS
  Requests,      \* the requests that may ever arrive
  Ids,           \* the UUIDs that crypto.randomUUID may ever return
  Data,          \* entity payloads
  KeyOf,         \* Data -> the payload's natural key, or NoKey
  NoKey,         \* the natural-key field is missing or null
  SafeField,     \* the field's name survives the removal of [^a-zA-Z0-9_]
  States,        \* lifecycle states: active, archived, deleted
  Active,        \* the state an entity is created in by default
  Keep,          \* an update that does not mention the state
  Batches,       \* the row lists an import may carry
  Absent,        \* no row with this id
  Versions,      \* the schema versions that registrations and PUTs may name
  Unset          \* no version: none is registered, or the caller names none

ASSUME ConstantsAssumption ==
  /\ KeyOf \in [Data -> STRING \cup {NoKey}]
  /\ SafeField \in BOOLEAN
  /\ Active \in States
  /\ Keep \notin States
  /\ Batches \subseteq Seq(Data)
  /\ Versions \subseteq Int /\ 1 \in Versions
  /\ Unset \notin Versions
  /\ Absent \notin Ids
  /\ Absent \notin [id : Ids, rev : Nat, data : Data, state : States, version : Versions]

VARIABLES
  entities,       \* table aurii_entities: id -> row
  revisions,      \* table aurii_entity_revisions: a set of rows, key (id, rev)
  schemaVersion,  \* the version of the registered schema, or Unset
  pc,             \* where each request is
  args,           \* what each request asks for
  found,          \* existingMap of an upsert: one scanned row per natural key
  rows,           \* rows a request has written and not yet snapshotted
  answer,         \* what each request was answered
  committed,      \* history: every row image a transaction ever made live
  window          \* history: the schema versions a request may stamp

vars == <<entities, revisions, schemaVersion, pc, args, found, rows, answer,
          committed, window>>

-----------------------------------------------------------------------------
(* Types *)

Row == [id : Ids, rev : Nat \ {0}, data : Data, state : States, version : Versions]

(* version = Unset: the caller left schemaVersion out                       *)
Args == [kind : {"none", "create", "update", "import"},
         target : Ids \cup {Absent}, expected : Nat,
         batch : Seq(Data), state : States \cup {Keep},
         version : Versions \cup {Unset}]

(* Rows to write that name no entity and no schema version                  *)
RowsOf(kind, batch, state) ==
  [kind |-> kind, target |-> Absent, expected |-> 0,
   batch |-> batch, state |-> state, version |-> Unset]

NoArgs == RowsOf("none", <<>>, Keep)

(* target and expected repeat the precondition of an answered update        *)
Answer == [status : {"none", "ok", "conflict", "failed"},
           target : Ids \cup {Absent}, expected : Nat, rev : Nat]

NoAnswer == [status |-> "none", target |-> Absent, expected |-> 0, rev |-> 0]

Labels == {"new", "resolve", "cas", "reportConflict", "scan", "updateMatched",
           "insert", "reread", "snapshot", "done", "crashed"}

(* One type invariant: the tables hold rows filed under their own id, and   *)
(* every request's locals have the shape its handler gives them.            *)
TypeOK ==
  /\ entities \in [Ids -> Row \cup {Absent}]
  /\ \A i \in Ids : entities[i] # Absent => entities[i].id = i
  /\ revisions \subseteq Row
  /\ committed \subseteq Row
  /\ schemaVersion \in Versions \cup {Unset}
  /\ pc \in [Requests -> Labels]
  /\ args \in [Requests -> Args]
  /\ found \in [Requests -> SUBSET Row]
  /\ rows \in [Requests -> SUBSET Row]
  /\ answer \in [Requests -> Answer]
  /\ window \in [Requests -> SUBSET Versions]
  /\ \A q \in Requests : args[q].kind = "update" => Len(args[q].batch) = 1

-----------------------------------------------------------------------------
(* Helpers *)

Live == {i \in Ids : entities[i] # Absent}

SameRevision(x, y) == x.id = y.id /\ x.rev = y.rev

(* Bugs: the snapshot is never written; it is keyed by the entity alone.    *)
ForgetSnapshots(table, new) == table

SnapshotPerEntity(table, new) == {s \in table : \A r \in new : s.id # r.id} \cup new

(* INSERT ... ON CONFLICT (entity_id, entity_revision) DO UPDATE, for a set *)
(* of rows in one transaction.                                              *)
RecordSnapshots(table, new) ==
  {s \in table : \A r \in new : ~SameRevision(s, r)} \cup new

(* A bug: the natural key is read from a column that does not exist.        *)
LostKey(d) == "null"

(* String(r.key) of a stored row: SQL NULL becomes the string "null", and   *)
(* data->>'field' is NULL under a field name that lost characters.          *)
StoredKey(d) == IF KeyOf[d] = NoKey \/ ~SafeField THEN "null" ELSE KeyOf[d]

(* String(input.data[fieldName] ?? ""): a missing key becomes "".           *)
InputKey(d) == IF KeyOf[d] = NoKey THEN "" ELSE KeyOf[d]

(* What a missing version becomes: input.schemaVersion ?? 1 in the storage  *)
(* adapter, and schema?.version ?? 1 where the store looks the schema up    *)
StampedVersion(v) == IF v = Unset THEN 1 ELSE v

(* A committed statement or transaction: the given rows replace what the     *)
(* table held under their ids.                                              *)
WriteRows(new) ==
  /\ entities' = [i \in Ids |-> IF \E r \in new : r.id = i
                                 THEN CHOOSE r \in new : r.id = i
                                 ELSE entities[i]]
  /\ committed' = committed \cup new

(* Answer the request; its handler's locals are gone.                       *)
Finish(q, status, rev) ==
  /\ pc' = [pc EXCEPT ![q] = "done"]
  /\ answer' = [answer EXCEPT ![q] =
       [status |-> status, target |-> args[q].target,
        expected |-> args[q].expected, rev |-> rev]]
  /\ args' = [args EXCEPT ![q] = NoArgs]
  /\ found' = [found EXCEPT ![q] = {}]
  /\ rows' = [rows EXCEPT ![q] = {}]

Goto(q, label) ==
  /\ pc' = [pc EXCEPT ![q] = label]
  /\ UNCHANGED answer

(* History: a request that arrives may stamp the version its caller names,  *)
(* or else one that is registered between now and its look at the registry. *)
OpenWindow(q, named) ==
  window' = [window EXCEPT ![q] =
    {StampedVersion(IF named = Unset THEN schemaVersion ELSE named)}]

CloseWindow(q) == window' = [window EXCEPT ![q] = {}]

WidenWindows(registered) ==
  window' = [q \in Requests |->
    IF pc[q] = "resolve" THEN window[q] \cup {StampedVersion(registered)} ELSE window[q]]

-----------------------------------------------------------------------------
(* updateEntity: existence check, schema version, compare-and-write, snapshot *)

(* A PUT names a revision its author has seen, that is one the entity has   *)
(* had, and whatever schema version it likes: none is checked.  The handler *)
(* reads the row only to know that it exists.                               *)
StartUpdate(q) ==
  /\ pc[q] = "new"
  /\ \E i \in Live, d \in Data, s \in States \cup {Keep}, v \in Versions \cup {Unset} :
       \E expected \in 1 .. entities[i].rev :
         /\ args' = [args EXCEPT ![q] =
                      [kind |-> "update", target |-> i, expected |-> expected,
                       batch |-> <<d>>, state |-> s, version |-> v]]
         /\ OpenWindow(q, v)
         /\ Goto(q, IF v = Unset THEN "resolve" ELSE "cas")
  /\ UNCHANGED <<entities, revisions, schemaVersion, found, rows, committed>>

(* A call of createEntity, which looks the schema version up first.         *)
StartCreate(q) ==
  /\ pc[q] = "new"
  /\ \E d \in Data, s \in States :
       args' = [args EXCEPT ![q] = RowsOf("create", <<d>>, s)]
  /\ OpenWindow(q, Unset)
  /\ Goto(q, "resolve")
  /\ UNCHANGED <<entities, revisions, schemaVersion, found, rows, committed>>

(* resolveSchemaVersion reads the registered schema: schema?.version ?? 1   *)
ResolveVersion(q) ==
  /\ pc[q] = "resolve"
  /\ args' = [args EXCEPT ![q].version = StampedVersion(schemaVersion)]
  /\ Goto(q, IF args[q].kind = "update" THEN "cas" ELSE "insert")
  /\ UNCHANGED <<entities, revisions, schemaVersion, found, rows, committed, window>>

(* Bugs: the UPDATE does not check the revision, or checks it one too late. *)
AnyRevision(i, expected) == entities[i] # Absent

NextRevisionMatches(i, expected) == entities[i] # Absent /\ entities[i].rev = expected + 1

(* WHERE id = ? AND entity_revision = expectedRevision                      *)
RevisionMatches(i, expected) == entities[i] # Absent /\ entities[i].rev = expected

(* A bug: the resolved schema version does not reach the UPDATE.            *)
UpdatedRowUnstamped(i, a) ==
  [id |-> i, rev |-> a.expected + 1, data |-> a.batch[1],
   state |-> IF a.state = Keep THEN entities[i].state ELSE a.state,
   version |-> StampedVersion(Unset)]

(* The row that UPDATE ... RETURNING yields: state is COALESCEd, data and   *)
(* version are replaced.                                                    *)
UpdatedRow(i, a) ==
  [id |-> i, rev |-> a.expected + 1, data |-> a.batch[1],
   state |-> IF a.state = Keep THEN entities[i].state ELSE a.state,
   version |-> StampedVersion(a.version)]

CompareAndWrite(q) ==
  /\ pc[q] = "cas"
  /\ LET i   == args[q].target
         new == UpdatedRow(i, args[q])
     IN  \/ /\ RevisionMatches(i, args[q].expected)
            /\ WriteRows({new})
            /\ rows' = [rows EXCEPT ![q] = {new}]
            /\ Goto(q, "snapshot")
         \/ /\ ~RevisionMatches(i, args[q].expected)
            /\ Goto(q, "reportConflict")
            /\ UNCHANGED <<entities, committed, rows>>
  /\ CloseWindow(q)
  /\ UNCHANGED <<revisions, schemaVersion, args, found>>

(* A bug: the 409 falls back on the revision the client already had.        *)
StaleRevision(q) == args[q].expected

CurrentRevision(q) == entities[args[q].target].rev

(* Nothing was written: read the current row and answer 409 with its revision *)
ReportConflict(q) ==
  /\ pc[q] = "reportConflict"
  /\ Finish(q, "conflict", CurrentRevision(q))
  /\ UNCHANGED <<entities, revisions, schemaVersion, committed, window>>

-----------------------------------------------------------------------------
(* runImport's write: upsertEntitiesByField under deduplicateBy. No row     *)
(* that runImport hands to the storage carries a schema version.            *)

StartImport(q) ==
  /\ pc[q] = "new"
  /\ \E b \in Batches :
       args' = [args EXCEPT ![q] = RowsOf("import", b, Active)]
  /\ Goto(q, "scan")
  /\ UNCHANGED <<entities, revisions, schemaVersion, found, rows, committed, window>>

(* An import definition without deduplicateBy inserts its rows unseen.      *)
StartAppend(q) ==
  /\ pc[q] = "new"
  /\ \E b \in Batches :
       args' = [args EXCEPT ![q] = RowsOf("import", b, Active)]
  /\ Goto(q, "insert")
  /\ UNCHANGED <<entities, revisions, schemaVersion, found, rows, committed, window>>

(* SELECT id, entity_revision, key of every entity, into a Map: of the rows *)
(* with one key it keeps one, whichever the database returned last.         *)
ScanExisting(q) ==
  /\ pc[q] = "scan"
  /\ \E map \in SUBSET {entities[i] : i \in Live} :
       /\ \A i \in Live : \E r \in map : StoredKey(r.data) = StoredKey(entities[i].data)
       /\ \A r, s \in map : StoredKey(r.data) = StoredKey(s.data) => r = s
       /\ found' = [found EXCEPT ![q] = map]
  /\ Goto(q, "updateMatched")
  /\ UNCHANGED <<entities, revisions, schemaVersion, args, rows, committed, window>>

Matches(q, n) == {r \in found[q] : StoredKey(r.data) = InputKey(args[q].batch[n])}

ToUpdate(q) == {n \in DOMAIN args[q].batch : Matches(q, n) # {}}

ToInsert(q) == {n \in DOMAIN args[q].batch : Matches(q, n) = {}}

(* The row an input is written over *)
MatchOf(q, n) == CHOOSE r \in Matches(q, n) : TRUE

UpsertedRow(q, n) ==
  LET i == MatchOf(q, n).id
  IN  [id |-> i, rev |-> entities[i].rev + 1, data |-> args[q].batch[n],
       state |-> entities[i].state, version |-> StampedVersion(args[q].version)]

(* Every UPDATE of the transaction hits: no row has moved since the scan,   *)
(* and no row is hit twice, for the first hit moves it.                     *)
NoUpsertConflict(q) ==
  /\ \A n \in ToUpdate(q) : RevisionMatches(MatchOf(q, n).id, MatchOf(q, n).rev)
  /\ \A m, n \in ToUpdate(q) : MatchOf(q, m).id = MatchOf(q, n).id => m = n

(* One transaction updates and snapshots all matched rows, or throws and    *)
(* rolls back.  The locks it holds until it commits make it one step.       *)
UpdateMatched(q) ==
  /\ pc[q] = "updateMatched"
  /\ \/ /\ NoUpsertConflict(q)
        /\ LET new == {UpsertedRow(q, n) : n \in ToUpdate(q)}
           IN  /\ WriteRows(new)
               /\ revisions' = RecordSnapshots(revisions, new)
        /\ \/ ToInsert(q) = {} /\ Finish(q, "ok", 0)
           \/ ToInsert(q) # {} /\ Goto(q, "insert") /\ UNCHANGED <<args, found, rows>>
     \/ /\ ~NoUpsertConflict(q)
        /\ Finish(q, "failed", 0)
        /\ UNCHANGED <<entities, committed, revisions>>
  /\ UNCHANGED <<schemaVersion, window>>

-----------------------------------------------------------------------------
(* insertEntities, called by createEntity, createEntities and the upsert    *)

(* A bug: a new row is not given its first revision.                        *)
UnnumberedRow(q, n, i) ==
  [id |-> i, rev |-> 0, data |-> args[q].batch[n], state |-> args[q].state,
   version |-> StampedVersion(args[q].version)]

InsertedRow(q, n, i) ==
  [id |-> i, rev |-> 1, data |-> args[q].batch[n], state |-> args[q].state,
   version |-> StampedVersion(args[q].version)]

(* A request that has scanned nothing inserts all of its batch.             *)
InsertRows(q) ==
  /\ pc[q] = "insert"
  /\ \E uuid \in [ToInsert(q) -> Ids \ Live] :
       /\ \A m, n \in ToInsert(q) : uuid[m] = uuid[n] => m = n
       /\ LET new == {InsertedRow(q, n, uuid[n]) : n \in ToInsert(q)}
          IN  /\ WriteRows(new)
              /\ rows' = [rows EXCEPT ![q] = new]
  /\ CloseWindow(q)
  /\ Goto(q, "reread")
  /\ UNCHANGED <<revisions, schemaVersion, args, found>>

(* A bug: whatever is read after the insert is filed as the inserted revision. *)
RereadAsInserted(r) == [entities[r.id] EXCEPT !.rev = r.rev]

RereadRow(r) == entities[r.id]

(* SELECT * ... WHERE id IN (...), after the insert has committed           *)
RereadRows(q) ==
  /\ pc[q] = "reread"
  /\ rows' = [rows EXCEPT ![q] = {RereadRow(r) : r \in rows[q]}]
  /\ Goto(q, "snapshot")
  /\ UNCHANGED <<entities, revisions, schemaVersion, args, found, committed, window>>

(* The transaction of insertRevisionSnapshot calls that ends an insert or   *)
(* an update                                                                *)
WriteSnapshots(q) ==
  /\ pc[q] = "snapshot"
  /\ revisions' = RecordSnapshots(revisions, rows[q])
  /\ Finish(q, "ok", IF args[q].kind = "update" THEN args[q].expected + 1 ELSE 0)
  /\ UNCHANGED <<entities, schemaVersion, committed, window>>

-----------------------------------------------------------------------------
(* The environment *)

(* The schema registry, in detail in SchemaRegistry, as the store sees it: a *)
(* registration stores any version, a lower one than before included, since *)
(* it reads the old definition and writes the new one in two awaits.        *)
RegisterSchema ==
  /\ \E v \in Versions \ {schemaVersion} : schemaVersion' = v /\ WidenWindows(v)
  /\ UNCHANGED <<entities, revisions, pc, args, found, rows, answer, committed>>

(* deleteSchema: entities keep their rows, and there is no version to find. *)
DeleteSchema ==
  /\ schemaVersion # Unset
  /\ schemaVersion' = Unset
  /\ WidenWindows(Unset)
  /\ UNCHANGED <<entities, revisions, pc, args, found, rows, answer, committed>>

(* The server process dies between two awaits. What the request had written *)
(* and not yet snapshotted stays in rows, as a record of what is missing.   *)
Crash(q) ==
  /\ pc[q] \notin {"new", "done", "crashed"}
  /\ Goto(q, "crashed")
  /\ args' = [args EXCEPT ![q] = NoArgs]
  /\ found' = [found EXCEPT ![q] = {}]
  /\ CloseWindow(q)
  /\ UNCHANGED <<entities, revisions, schemaVersion, rows, committed>>

Init ==
  /\ entities = [i \in Ids |-> Absent]
  /\ revisions = {}
  /\ schemaVersion \in Versions \cup {Unset}
  /\ pc = [q \in Requests |-> "new"]
  /\ args = [q \in Requests |-> NoArgs]
  /\ found = [q \in Requests |-> {}]
  /\ rows = [q \in Requests |-> {}]
  /\ answer = [q \in Requests |-> NoAnswer]
  /\ committed = {}
  /\ window = [q \in Requests |-> {}]

(* What the runtime does for a request that has arrived                     *)
Step(q) ==
  \/ ResolveVersion(q) \/ CompareAndWrite(q) \/ ReportConflict(q)
  \/ ScanExisting(q) \/ UpdateMatched(q)
  \/ InsertRows(q) \/ RereadRows(q) \/ WriteSnapshots(q)

Arrive(q) ==
  StartUpdate(q) \/ StartCreate(q) \/ StartImport(q) \/ StartAppend(q)

Next ==
  \/ RegisterSchema \/ DeleteSchema
  \/ \E q \in Requests : Arrive(q) \/ Step(q) \/ Crash(q)

Spec == Init /\ [][Next]_vars

(* Imports that never overlap: the next one starts when nothing is running, *)
(* possibly because the one before died half-way.                           *)
Running(q) == pc[q] \notin {"new", "done", "crashed"}

Quiet == \A q \in Requests : ~Running(q)

SerialNext ==
  \/ Quiet /\ \E q \in Requests : StartImport(q)
  \/ \E q \in Requests : Step(q) \/ Crash(q)

SerialImports == Init /\ [][SerialNext]_vars

-----------------------------------------------------------------------------
(* The inductive invariant *)

(* An update is the one kind of request with a target, and the labels are   *)
(* those of its handler.                                                    *)
KindsMatchLabels ==
  \A q \in Requests :
    /\ args[q].kind = "update" <=> args[q].target \in Ids
    /\ pc[q] \in {"cas", "reportConflict"} => args[q].kind = "update"
    /\ pc[q] = "resolve" => args[q].kind \in {"create", "update"}
    /\ pc[q] \in {"scan", "updateMatched"} => args[q].kind = "import"
    /\ pc[q] \in {"insert", "reread"} => args[q].kind \in {"create", "import"}
    /\ args[q].kind \in {"create", "import"} => args[q].state \in States

(* Revisions only grow: a PUT expects a revision its target has reached,    *)
(* and once it has won or lost its target is past that revision.            *)
ExpectedIsReached ==
  \A q \in Requests :
    /\ args[q].kind = "update" =>
         /\ entities[args[q].target] # Absent
         /\ args[q].expected <= entities[args[q].target].rev
    /\ args[q].kind = "update" /\ pc[q] \in {"reportConflict", "snapshot"} =>
         args[q].expected < entities[args[q].target].rev
    /\ answer[q].status = "ok" /\ answer[q].target \in Ids =>
         /\ entities[answer[q].target] # Absent
         /\ answer[q].expected < entities[answer[q].target].rev

(* A request on its way to a write stamps a version of its window; while it *)
(* has still to look, the version registered now is one of them.            *)
WindowsHold ==
  \A q \in Requests :
    /\ pc[q] = "resolve" => StampedVersion(schemaVersion) \in window[q]
    /\ args[q].kind # "import" /\ pc[q] \in {"cas", "insert"} =>
         args[q].version \in window[q]

(* Nothing is ever snapshotted, or waits to be, that was not live once.     *)
SnapshotsGenuine ==
  /\ revisions \subseteq committed
  /\ \A q \in Requests : rows[q] \subseteq committed

-----------------------------------------------------------------------------
(* Properties *)

(* The rows of an entity are one sequence of states, each at a revision of  *)
(* its own and none skipped, and the live row is the last of them: no two   *)
(* writers ever produce the same revision, be they PUTs or imports.         *)
LiveIsLatest ==
  /\ \A i \in Live : entities[i] \in committed
  /\ \A w \in committed : entities[w.id] # Absent /\ w.rev <= entities[w.id].rev
  /\ \A x, y \in committed : SameRevision(x, y) => x = y

(* The store keeps the promise of RevisionHistory: what it ever made live   *)
(* is a numbered history, and the snapshot table pins states of it.         *)
History == INSTANCE RevisionHistory
             WITH State <- Row, history <- committed, pinned <- revisions

KeepsHistory == History!Spec

(* q's PUT has replaced revision n of entity i: written, perhaps answered   *)
Won(q, i, n) ==
  \/ pc[q] = "snapshot" /\ args[q].kind = "update"
       /\ args[q].target = i /\ args[q].expected = n
  \/ answer[q].status = "ok" /\ answer[q].target = i /\ answer[q].expected = n

(* Silent last-write-wins never happens: of all the PUTs that expected the  *)
(* same revision of an entity, at most one is accepted.                     *)
NoLostUpdate ==
  \A p, q \in Requests : \A i \in Ids : \A n \in {answer[p].expected, args[p].expected} :
    Won(p, i, n) /\ Won(q, i, n) => p = q

(* A 409 tells its client a revision newer than the one it expected, so     *)
(* that reading again and retrying makes progress.                          *)
ConflictIsReal ==
  \A q \in Requests :
    answer[q].status = "conflict" => answer[q].rev > answer[q].expected

(* A committed state that no snapshot records yet is still owed by the      *)
(* request that wrote it, unless its process crashed; only an entity's very *)
(* first state can be lost without a crash.                                 *)
SnapshotOwed ==
  \A w \in committed \ revisions :
    \/ w.rev = 1
    \/ \E q \in Requests : pc[q] \in {"snapshot", "crashed"} /\ w \in rows[q]

(* Pinned references are immutable: a snapshot once recorded is never       *)
(* changed or removed, although the table is written with DO UPDATE.        *)
PinnedImmutable == [][revisions \subseteq revisions']_revisions

(* The schema version a PUT or a create writes is the one its caller named, *)
(* or one that was registered (1 for none) after the request arrived: what  *)
(* it looked up before an await is no older than the request, whatever is   *)
(* registered or deleted in the meantime.                                   *)
StampsAreCurrent ==
  [][\A q \in Requests :
       CompareAndWrite(q) \/ (InsertRows(q) /\ args[q].kind = "create") =>
         \A w \in committed' \ committed : w.version \in window[q]]_vars

NoGaps == History!NoGaps

IInv ==
  /\ TypeOK /\ KindsMatchLabels /\ ExpectedIsReached /\ WindowsHold
  /\ SnapshotsGenuine
  /\ LiveIsLatest /\ NoGaps /\ NoLostUpdate /\ ConflictIsReal

(* Natural keys are unique: no two live entities share one.                 *)
UniqueNaturalKey ==
  \A i, j \in Live :
    /\ KeyOf[entities[i].data] # NoKey
    /\ KeyOf[entities[i].data] = KeyOf[entities[j].data]
    => i = j

(* An import is never refused by its own upsert.                            *)
ImportSucceeds == \A q \in Requests : answer[q].status # "failed"

(* Once every request is answered and none crashed, each state any entity   *)
(* has had can be read as a pinned revision.                                *)
HistoryComplete ==
  (\A q \in Requests : pc[q] \in {"new", "done"}) => committed \subseteq revisions

(* An import never sets an entity back to an older schema version.          *)
ImportKeepsVersionOrder ==
  [][\A q \in Requests : UpdateMatched(q) =>
       \A i \in Live : entities'[i].version >= entities[i].version]_vars

-----------------------------------------------------------------------------
(* Imports that do not overlap *)

(* The data source names its entities: under a field the SQL can read, by a *)
(* text that is not the text of a missing key, and once in each file.       *)
KeysNameEntities ==
  /\ SafeField
  /\ \A d \in Data : KeyOf[d] \notin {"null", ""}
  /\ \A b \in Batches : \A m, n \in DOMAIN b :
       KeyOf[b[m]] # NoKey /\ KeyOf[b[m]] = KeyOf[b[n]] => m = n

(* No entity of the table has the natural key d has.                        *)
KeyIsFree(table, d) ==
  KeyOf[d] # NoKey =>
    \A i \in Ids : table[i] # Absent => KeyOf[table[i].data] # KeyOf[d]

(* The one import under way: what it scanned is still the table, and the    *)
(* rows it goes on to insert have keys no entity has.                       *)
OneImport ==
  /\ \A p, q \in Requests : Running(p) /\ Running(q) => p = q
  /\ \A q \in Requests :
       /\ args[q].kind \in {"none", "import"}
       /\ args[q].kind = "import" => args[q].batch \in Batches
       /\ pc[q] = "updateMatched" =>
            /\ found[q] \subseteq {entities[i] : i \in Live}
            /\ \A i \in Live : \E r \in found[q] :
                 StoredKey(r.data) = StoredKey(entities[i].data)
            /\ \A r, s \in found[q] : StoredKey(r.data) = StoredKey(s.data) => r = s
       /\ pc[q] = "insert" => \A n \in ToInsert(q) : KeyIsFree(entities, args[q].batch[n])

SerialInv == OneImport /\ UniqueNaturalKey /\ ImportSucceeds
=============================================================================
