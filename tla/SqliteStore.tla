---------------------------- MODULE SqliteStore ----------------------------
(***************************************************************************)
(* The entity store of @aurii/core on SQLite (storage/sqlite.ts), over the *)
(* same schema registry as on PostgreSQL.  bun:sqlite is synchronous and   *)
(* the runtime has one thread: what a request does between two awaits is   *)
(* not interleaved with other requests, but it can be several transactions,*)
(* and the process can die between any two of them.  A death takes every   *)
(* request in flight with it.                                              *)
(***************************************************************************)
EXTENDS SchemaRegistry

CONSTANTS
  Requests,    \* calls of createEntities, updateEntity and upsertEntitiesByField
  Ids,         \* the UUIDs that crypto.randomUUID may return
  Data,        \* entity payloads, the lifecycle state included
  KeyValue,    \* Data -> what the payload holds in the natural-key field
  ReadValue,   \* Data -> what it holds in the field the scan reads instead
  Edits,       \* the payloads of creations and updates
  Files,       \* the rows of an import file, no two of them equal
  Absent,      \* no row with this id
  Nobody,      \* no request is inside a synchronous block
  MaxCrashes   \* bound: deaths of the process

-----------------------------------------------------------------------------
(* Natural keys.  An import looks its rows up among the stored ones through *)
(* two conversions to text, of the key field's value in the file and of     *)
(* what SQL finds in the stored row.  text is what String() makes of a      *)
(* value, json what JSON.stringify does; they tell nested values apart.     *)
KeyKinds == {"missing", "text", "number", "boolean", "nested"}

FieldValue == [kind : KeyKinds, text : STRING, json : STRING]

(* String(input.data[fieldName] ?? "")                                      *)
InputKey(d) == IF KeyValue[d].kind = "missing" THEN "" ELSE KeyValue[d].text

(* String(r.key) of json_extract(data, '$.' || safeField): the field's name *)
(* has lost every character outside [a-zA-Z0-9_] and may name another field *)
(* by now, SQLite knows no booleans, and nested values come as JSON text.   *)
StoredKey(d) ==
  LET v == ReadValue[d]
  IN  CASE v.kind = "missing" -> "null"
        [] v.kind = "boolean" -> IF v.text = "true" THEN "1" ELSE "0"
        [] v.kind = "nested"  -> v.json
        [] OTHER              -> v.text

(* The payload's key is read from its stored row as it is from the file,    *)
(* and so is the key of every payload that is filed under the same text.    *)
KeyReadsBack(d) == \A e \in Data : StoredKey(e) = StoredKey(d) => InputKey(e) = StoredKey(d)

(* No key that reads back occurs twice in the file.                         *)
DistinctKeys(file) ==
  \A d, e \in file : KeyReadsBack(d) /\ InputKey(d) = InputKey(e) => d = e

(* Edits bring no key that reads back, and no file one twice: what happens  *)
(* otherwise does not depend on the order of steps.                         *)
ASSUME StoreAssumption ==
  /\ KeyValue \in [Data -> FieldValue] /\ ReadValue \in [Data -> FieldValue]
  /\ Edits \subseteq {d \in Data : ~KeyReadsBack(d)}
  /\ Files \subseteq {file \in SUBSET Data : DistinctKeys(file)}
  /\ Nobody \notin Requests
  /\ Absent \notin Ids
  /\ Absent \notin [id : Ids, rev : Nat, data : Data, version : Nat]
  /\ MaxCrashes \in Nat

VARIABLES
  entities,    \* table aurii_entities
  revisions,   \* table aurii_entity_revisions
  thread,      \* the request inside a synchronous block, or Nobody
  pc, args,    \* where each request is, and what it asks for
  rows,        \* rows a request has written and not yet snapshotted
  images,      \* history: every committed row
  lost,        \* history: rows whose snapshot died with the process
  crashes      \* how often the process has died

storeVars == <<entities, revisions, thread, pc, args, rows, images, lost, crashes>>
vars == <<registryVars, storeVars>>

Row == [id : Ids, rev : Nat \ {0}, data : Data, version : Nat]

Args == [batch : SUBSET Data, target : Ids \cup {Absent}, expected : Nat, version : Nat]

NoArgs == [batch |-> {}, target |-> Absent, expected |-> 0, version |-> 0]

Labels == {"new", "resolve", "write", "upsert", "insert", "snapshot",
           "done", "conflict", "failed", "crashed"}

TypeOK ==
  /\ RegistryTypeOK
  /\ entities \in [Ids -> Row \cup {Absent}]
  /\ revisions \subseteq Row
  /\ images \subseteq Row
  /\ lost \subseteq Row
  /\ thread \in Requests \cup {Nobody}
  /\ pc \in [Requests -> Labels]
  /\ args \in [Requests -> Args]
  /\ rows \in [Requests -> SUBSET Row]
  /\ crashes \in 0 .. MaxCrashes

-----------------------------------------------------------------------------
Live == {i \in Ids : entities[i] # Absent}

(* A bug: the revision is not compared.                                     *)
AnyRevision(i, expected) == i \in Live

RevisionMatches(i, expected) == i \in Live /\ entities[i].rev = expected

(* input.schemaVersion ?? 1                                                 *)
StampedVersion(v) == IF v = 0 THEN 1 ELSE v

(* A committed transaction leaves the new rows live.                        *)
WriteRows(new) ==
  /\ entities' = [i \in Ids |-> IF \E r \in new : r.id = i
                                THEN CHOOSE r \in new : r.id = i
                                ELSE entities[i]]
  /\ images' = images \cup new

SameRevision(x, y) == x.id = y.id /\ x.rev = y.rev

(* INSERT OR REPLACE INTO aurii_entity_revisions                            *)
InsertSnapshots(new) ==
  {s \in revisions : \A r \in new : ~SameRevision(s, r)} \cup new

(* A bug: the adapter awaits between the scan of an import and its writes.  *)
RunsBetween(q) == pc[q] # "done"

(* A request may run when no other is in the middle of its synchronous code *)
MayRun(q) == thread \in {q, Nobody}

Goto(q, label) == pc' = [pc EXCEPT ![q] = label]

(* Requests arrive between two synchronous blocks.                          *)
Ask(q, label, a) ==
  /\ pc[q] = "new" /\ thread = Nobody
  /\ args' = [args EXCEPT ![q] = a]
  /\ Goto(q, label)
  /\ UNCHANGED <<entities, revisions, thread, rows, images, lost, crashes>>

StartCreate(q) ==
  \E d \in Edits : Ask(q, "resolve", [NoArgs EXCEPT !.batch = {d}])

(* The caller may name any schema version, which is then not looked up.     *)
StartUpdate(q) ==
  \E i \in Live, d \in Edits, v \in AskedVersions : \E n \in 1 .. entities[i].rev :
    Ask(q, IF v = 0 THEN "resolve" ELSE "write",
        [batch |-> {d}, target |-> i, expected |-> n, version |-> v])

(* An import's rows carry no schema version.                                *)
StartImport(q) == \E file \in Files : Ask(q, "upsert", [NoArgs EXCEPT !.batch = file])

(* resolveSchemaVersion                                                     *)
ResolveVersion(q) ==
  /\ pc[q] = "resolve" /\ MayRun(q)
  /\ args' = [args EXCEPT ![q].version = schema.version]
  /\ Goto(q, IF args[q].target = Absent THEN "insert" ELSE "write")
  /\ UNCHANGED <<entities, revisions, thread, rows, images, lost, crashes>>

-----------------------------------------------------------------------------
(* updateEntity: the row is read back before the await that follows the     *)
(* UPDATE, so what is snapshotted later is what was written.                *)
UpdatedRow(q, d) ==
  [id |-> args[q].target, rev |-> args[q].expected + 1, data |-> d,
   version |-> StampedVersion(args[q].version)]

CompareAndWrite(q) ==
  /\ pc[q] = "write" /\ MayRun(q)
  /\ IF RevisionMatches(args[q].target, args[q].expected)
     THEN /\ \E d \in args[q].batch :
               /\ WriteRows({UpdatedRow(q, d)})
               /\ rows' = [rows EXCEPT ![q] = {UpdatedRow(q, d)}]
          /\ Goto(q, "snapshot")
     ELSE Goto(q, "conflict") /\ UNCHANGED <<entities, images, rows>>
  /\ UNCHANGED <<revisions, thread, args, lost, crashes>>

-----------------------------------------------------------------------------
(* upsertEntitiesByField: one scan and up to three transactions, all in one *)
(* synchronous block.                                                       *)

Matching(d) == {i \in Live : StoredKey(entities[i].data) = InputKey(d)}

Unmatched(q) == {d \in args[q].batch : Matching(d) = {}}

UpsertedRow(d, i) ==
  [id |-> i, rev |-> entities[i].rev + 1, data |-> d, version |-> StampedVersion(0)]

(* Two rows of the file that match one stored row: the second UPDATE does   *)
(* not find the revision it expects.                                        *)
HitsTwice(matched) == \E d, e \in matched : d # e /\ InputKey(d) = InputKey(e)

(* The first transaction updates and snapshots the rows whose key is known, *)
(* or throws.  Of the stored rows with one key the Map keeps some one.      *)
UpsertMatched(q) ==
  /\ pc[q] = "upsert" /\ MayRun(q)
  /\ LET matched == args[q].batch \ Unmatched(q)
     IN  \/ /\ ~HitsTwice(matched)
            /\ \E hit \in [matched -> Live] :
                 /\ \A d \in matched : hit[d] \in Matching(d)
                 /\ LET new == {UpsertedRow(d, hit[d]) : d \in matched}
                    IN  WriteRows(new) /\ revisions' = InsertSnapshots(new)
            /\ IF Unmatched(q) = {}
               THEN Goto(q, "done") /\ UNCHANGED <<thread, args>>
               ELSE /\ Goto(q, "insert")
                    /\ thread' = q
                    /\ args' = [args EXCEPT ![q].batch = Unmatched(q)]
         \/ /\ HitsTwice(matched)
            /\ Goto(q, "failed")
            /\ UNCHANGED <<entities, images, revisions, thread, args>>
  /\ UNCHANGED <<rows, lost, crashes>>

-----------------------------------------------------------------------------
(* insertEntities: the insert commits, the rows are read, and a transaction *)
(* of snapshots follows, with no await in between.                          *)
(* A bug: the revision is left to be counted by the first update.           *)
UncountedRow(q, d, i) ==
  [id |-> i, rev |-> 0, data |-> d, version |-> StampedVersion(args[q].version)]

InsertedRow(q, d, i) ==
  [id |-> i, rev |-> 1, data |-> d, version |-> StampedVersion(args[q].version)]

InsertRows(q) ==
  /\ pc[q] = "insert" /\ MayRun(q)
  /\ \E uuid \in [args[q].batch -> Ids \ Live] :
       /\ \A d, e \in args[q].batch : uuid[d] = uuid[e] => d = e
       /\ LET new == {InsertedRow(q, d, uuid[d]) : d \in args[q].batch}
          IN  WriteRows(new) /\ rows' = [rows EXCEPT ![q] = new]
  /\ thread' = q
  /\ Goto(q, "snapshot")
  /\ UNCHANGED <<revisions, args, lost, crashes>>

(* A bug: the rows are read again when the snapshots are written.           *)
ReadAgain(q) == {entities[r.id] : r \in rows[q]}

ReadBack(q) == rows[q]

WriteSnapshots(q) ==
  /\ pc[q] = "snapshot" /\ MayRun(q)
  /\ revisions' = InsertSnapshots(ReadBack(q))
  /\ rows' = [rows EXCEPT ![q] = {}]
  /\ thread' = Nobody
  /\ Goto(q, "done")
  /\ UNCHANGED <<entities, args, images, lost, crashes>>

-----------------------------------------------------------------------------
(* The process dies and is started again on the same file (init creates     *)
(* only what is missing).                                                   *)
Crash ==
  /\ crashes < MaxCrashes
  /\ crashes' = crashes + 1
  /\ pc' = [q \in Requests |-> IF pc[q] \in {"new", "done", "conflict", "failed"}
                               THEN pc[q] ELSE "crashed"]
  /\ lost' = lost \cup UNION {rows[q] : q \in Requests}
  /\ rows' = [q \in Requests |-> {}]
  /\ thread' = Nobody
  /\ UNCHANGED <<entities, revisions, args, images>>

Init ==
  /\ RegistryInit
  /\ entities = [i \in Ids |-> Absent]
  /\ revisions = {} /\ images = {} /\ lost = {}
  /\ thread = Nobody /\ crashes = 0
  /\ pc = [q \in Requests |-> "new"]
  /\ args = [q \in Requests |-> NoArgs]
  /\ rows = [q \in Requests |-> {}]

StoreStep(q) ==
  \/ StartCreate(q) \/ StartUpdate(q) \/ StartImport(q) \/ ResolveVersion(q)
  \/ CompareAndWrite(q) \/ UpsertMatched(q) \/ InsertRows(q) \/ WriteSnapshots(q)

(* A registration runs between two synchronous blocks; one in flight at a   *)
(* crash is one that never stores.                                          *)
Next ==
  \/ thread = Nobody /\ RegistryNext /\ UNCHANGED storeVars
  \/ ((\E q \in Requests : StoreStep(q)) \/ Crash) /\ UNCHANGED registryVars

Spec == Init /\ [][Next]_vars

-----------------------------------------------------------------------------
(* The inductive invariant                                                  *)

LocalsOK ==
  \A q \in Requests :
    /\ pc[q] # "snapshot" => rows[q] = {}
    /\ rows[q] \subseteq images
    /\ pc[q] \in {"resolve", "write"} => args[q].batch \subseteq Edits
    /\ pc[q] = "write" => args[q].target \in Ids
    /\ pc[q] = "upsert" => args[q].batch \in Files

(* What an import inserts is new, and stays so while it holds the thread.   *)
InsertsFresh ==
  \A q \in Requests : pc[q] = "insert" =>
    /\ DistinctKeys(args[q].batch)
    /\ \A d \in args[q].batch : KeyReadsBack(d) =>
         thread = q /\ \A i \in Live : StoredKey(entities[i].data) # StoredKey(d)

(* The live row of an entity is the last of its images.                     *)
LiveIsLatest ==
  /\ \A i \in Live : entities[i] \in images /\ entities[i].id = i
  /\ \A w \in images : w.id \in Live /\ w.rev <= entities[w.id].rev
  /\ \A x, y \in images : SameRevision(x, y) => x = y
  /\ revisions \subseteq images

-----------------------------------------------------------------------------
(* Properties                                                               *)

(* A row that has been live and has no snapshot is owed one by a request    *)
(* still running, or lost it in a crash: on SQLite, unlike on PostgreSQL,   *)
(* no interleaving of requests loses a revision.                            *)
SnapshotsComplete ==
  \A w \in images \ revisions :
    \/ w \in lost
    \/ \E q \in Requests : pc[q] = "snapshot" /\ w \in rows[q]

(* However imports and edits interleave, no two live entities have the same *)
(* natural key, as far as keys are read from a stored row as they are from  *)
(* a file: the scan and the writes of an import are one block.  Where the   *)
(* two conversions differ it is not so (see ReimportsUpdate).               *)
UniqueKeys ==
  \A i, j \in Live :
    /\ KeyReadsBack(entities[i].data)
    /\ StoredKey(entities[i].data) = StoredKey(entities[j].data)
    => i = j

(* Phase2.2.md: "deduplicateBy makes re-imports idempotent (updates in      *)
(* place)", so no two entities hold one value in the natural-key field.     *)
ReimportsUpdate ==
  \A i, j \in Live :
    /\ KeyValue[entities[i].data].kind # "missing"
    /\ KeyValue[entities[i].data] = KeyValue[entities[j].data]
    => i = j

(* The promise of RevisionHistory, kept by this store too.                  *)
History == INSTANCE RevisionHistory
             WITH State <- Row, history <- images, pinned <- revisions

KeepsHistory == History!Spec

IInv == TypeOK /\ LocalsOK /\ InsertsFresh /\ LiveIsLatest /\ SnapshotsComplete /\ UniqueKeys
=============================================================================
