-------------------------- MODULE SqliteStoreProofs --------------------------
(***************************************************************************)
(* The schema registry, for any field names, any two definitions and any   *)
(* number of overlapping calls: what the classification of a change        *)
(* guarantees and what registration keeps.  The SQLite entity store, for   *)
(* any number of requests, rows and crashes: no revision is lost but by a  *)
(* crash, natural keys stay unique, and the promise of RevisionHistory is  *)
(* kept.                                                                   *)
(***************************************************************************)
EXTENDS SqliteStore, TLAPS

-----------------------------------------------------------------------------
(* The schema registry                                                      *)

(* A change that raises no reason between two declarations of a field      *)
(* leaves every value of the field valid.                                  *)
LEMMA KeptFieldStaysValid ==
  ASSUME NEW prev \in FieldDefinition, NEW cur \in FieldDefinition \cup {NoField},
         ~Breaks(prev, cur), ~MayBreak(prev, cur),
         NEW value \in ValueKinds, ValidValue(prev, value)
  PROVE  ValidValue(cur, value)
<1>1. cur.type = prev.type /\ cur.multiple = prev.multiple
  BY DEF Breaks, MayBreak, FieldDefinition
<1>2. cur.required => prev.required
  BY DEF MayBreak
<1> QED BY <1>1, <1>2 DEF ValidValue

(* An added field that is not required accepts a payload without it.       *)
LEMMA AddedFieldAcceptsAbsence ==
  ASSUME NEW cur, ~cur.required
  PROVE  ValidValue(cur, "missing")
BY DEF ValidValue

(* A payload that is valid before a compatible change is invalid after it  *)
(* exactly when it holds, under a name the change declares, a value the    *)
(* new field refuses (classifySchemaChange against validateEntity).        *)
THEOREM CompatibleInvalidatesOnlyClashes ==
  ASSUME NEW previous \in Fields, NEW next \in Fields,
         ClassifySchemaChange(previous, next) = "compatible"
  PROVE  OnlyClashesInvalidate(previous, next)
<1> SUFFICES ASSUME NEW data \in Payload, ValidateEntity(data, previous)
             PROVE  ValidateEntity(data, next) <=> ~Clashes(data, previous, next)
  BY DEF OnlyClashesInvalidate
<1> DEFINE kept == {g \in FieldNames : Declares(previous, g)}
<1>1. /\ \A g \in kept : ~Breaks(previous[g], next[g]) /\ ~MayBreak(previous[g], next[g])
      /\ \A g \in FieldNames \ kept : ~next[g].required
  BY DEF ClassifySchemaChange
<1>2. ValidateEntity(data, next) => ~Clashes(data, previous, next)
  BY DEF ValidateEntity, Clashes
<1>3. ASSUME ~Clashes(data, previous, next), NEW f \in FieldNames, Declares(next, f)
      PROVE  ValidValue(next[f], data[f])
  <2>1. data[f] \in ValueKinds /\ next[f] \in FieldDefinition \cup {NoField}
    BY DEF Payload, Fields
  <2>2. CASE Declares(previous, f)
    <3>1. previous[f] \in FieldDefinition
      BY <2>2 DEF Fields, Declares
    <3>2. ValidValue(previous[f], data[f])
      BY <2>2 DEF ValidateEntity
    <3> QED BY <1>1, <2>1, <2>2, <3>1, <3>2, KeptFieldStaysValid
  <2>3. CASE ~Declares(previous, f)
    <3>1. CASE data[f] = "missing"
      BY <1>1, <2>3, <3>1, AddedFieldAcceptsAbsence
    <3>2. CASE data[f] # "missing"
      BY <1>3, <2>3, <3>2 DEF Clashes
    <3> QED BY <3>1, <3>2
  <2> QED BY <2>2, <2>3
<1>4. ~Clashes(data, previous, next) => ValidateEntity(data, next)
  BY <1>3 DEF ValidateEntity
<1> QED BY <1>2, <1>4

(* A definition that differs from the stored one gets a greater version;   *)
(* the same definition keeps its version (registerSchemaDetailed).         *)
THEOREM ChangeRaisesVersion ==
  ASSUME NEW previous \in [version : Nat \ {0}, fields : Fields],
         NEW fields \in Fields, NEW asked \in Nat
  PROVE  /\ fields # previous.fields => RegisteredVersion(previous, fields, asked) > previous.version
         /\ fields = previous.fields => RegisteredVersion(previous, fields, asked) = previous.version
BY DEF RegisteredVersion

-----------------------------------------------------------------------------
(* The inductive invariant                                                  *)

(* While nothing was replaced unseen, the row of the table is the last      *)
(* definition stored, and definitions are numbered from 1.                  *)
RowIsStored ==
  /\ \A d \in stored : d.version >= 1
  /\ ~blind => schema \in stored \/ (schema = NoSchema /\ stored = {})

ClassifiedAsAnswered ==
  \A r \in Registrars :
    job[r].change = "compatible" =>
      ClassifySchemaChange(job[r].previous.fields, job[r].fields) = "compatible"

RegistryInv ==
  RegistryTypeOK /\ RowIsStored /\ VersionNamesOneDefinition /\ ClassifiedAsAnswered

LEMMA NoSchemaType ==
  NoSchema \in StoredSchema /\ NoSchema.version = 0
BY DEF NoSchema, NoFields, StoredSchema, Fields

LEMMA RegisteredVersionType ==
  ASSUME NEW previous \in StoredSchema, NEW fields, NEW asked \in Nat
  PROVE  RegisteredVersion(previous, fields, asked) \in Nat \ {0}
BY DEF RegisteredVersion, VersionOrDefault, StoredSchema

LEMMA RegistryInitInv == RegistryInit => RegistryInv
<1> SUFFICES ASSUME RegistryInit PROVE RegistryInv
  OBVIOUS
<1> USE DEF RegistryInit
<1>1. NoFields \in Fields
  BY DEF NoFields, Fields
<1>2. RegistryTypeOK
  BY <1>1, NoSchemaType DEF RegistryTypeOK, NewJob
<1>3. RowIsStored /\ VersionNamesOneDefinition /\ ClassifiedAsAnswered
  BY DEF RowIsStored, VersionNamesOneDefinition, ClassifiedAsAnswered, NewJob
<1> QED BY <1>2, <1>3 DEF RegistryInv

LEMMA ReadPreviousInv ==
  ASSUME RegistryInv, NEW r \in Registrars, ReadPrevious(r)
  PROVE  RegistryInv'
<1> USE DEF RegistryInv, ReadPrevious
<1>1. RegistryTypeOK'
  BY RegistryAssumption DEF RegistryTypeOK
<1>2. RowIsStored' /\ VersionNamesOneDefinition'
  BY DEF RowIsStored, VersionNamesOneDefinition
<1>3. ClassifiedAsAnswered'
  BY DEF ClassifiedAsAnswered, RegistryTypeOK
<1> QED BY <1>1, <1>2, <1>3

LEMMA StoreSchemaInv ==
  ASSUME RegistryInv, NEW r \in Registrars, StoreSchema(r)
  PROVE  RegistryInv'
<1> DEFINE prev == job[r].previous
           v    == RegisteredVersion(prev, job[r].fields, job[r].asked)
           new  == [version |-> v, fields |-> job[r].fields]
<1> USE DEF RegistryInv
<1>1. /\ prev \in StoredSchema
      /\ job[r].fields \in Fields
      /\ job[r].asked \in Nat
  BY DEF RegistryTypeOK
<1>2. v \in Nat \ {0}
  BY <1>1, RegisteredVersionType
<1>3. schema' = new /\ stored' = stored \cup {new} /\ blind' = (blind \/ schema # prev)
  BY DEF StoreSchema, UpsertSchema
<1>4. new \in StoredSchema
  BY <1>1, <1>2 DEF StoredSchema
<1>5. RegistryTypeOK'
  <2>1. ClassifySchemaChange(prev.fields, job[r].fields)
          \in {"compatible", "potentially_breaking", "breaking"}
    BY DEF ClassifySchemaChange
  <2>2. job' = [job EXCEPT ![r].at = "done", ![r].change = job'[r].change]
        /\ job'[r].change \in {"none", "compatible", "potentially_breaking", "breaking"}
    BY <2>1 DEF RegistryTypeOK, StoreSchema
  <2>3. schema' \in StoredSchema /\ stored' \subseteq StoredSchema /\ blind' \in BOOLEAN
    BY <1>3, <1>4 DEF RegistryTypeOK
  <2> QED BY <2>2, <2>3 DEF RegistryTypeOK
<1>6. RowIsStored'
  BY <1>2, <1>3 DEF RowIsStored
<1>7. VersionNamesOneDefinition'
  <2> SUFFICES ASSUME ~blind'
               PROVE  /\ \A d, e \in stored' : d.version = e.version => d.fields = e.fields
                      /\ \A d \in stored' : d.version <= schema'.version
    BY DEF VersionNamesOneDefinition
  <2>1. ~blind /\ schema = prev
    BY <1>1, <1>3 DEF RegistryTypeOK
  <2>2. CASE schema = NoSchema /\ stored = {}
    BY <2>2, <1>2, <1>3
  <2>3. CASE schema \in stored
    <3>1. /\ prev.version \in Nat /\ prev.version >= 1
          /\ \A d \in stored : d.version \in Nat /\ d.version <= prev.version
          /\ \A d, e \in stored : d.version = e.version => d.fields = e.fields
      BY <2>1, <2>3, <1>1
         DEF RowIsStored, VersionNamesOneDefinition, RegistryTypeOK, StoredSchema
    <3>2. CASE prev.fields = job[r].fields
      <4>1. v = prev.version
        BY <3>1, <3>2 DEF RegisteredVersion
      <4>2. new = schema
        BY <4>1, <3>2, <2>1, <1>1 DEF StoredSchema
      <4> QED BY <4>2, <1>3, <2>1, <2>3, <3>1
    <3>3. CASE prev.fields # job[r].fields
      <4>1. v > prev.version
        BY <1>1, <3>1, <3>3 DEF RegisteredVersion
      <4>2. \A d \in stored : d.version < v
        BY <4>1, <3>1, <1>2
      <4> QED BY <4>2, <3>1, <1>2, <1>3
    <3> QED BY <3>2, <3>3
  <2> QED BY <2>1, <2>2, <2>3 DEF RowIsStored
<1>8. ClassifiedAsAnswered'
  <2> SUFFICES ASSUME NEW p \in Registrars, job'[p].change = "compatible"
               PROVE  ClassifySchemaChange(job'[p].previous.fields, job'[p].fields) = "compatible"
    BY DEF ClassifiedAsAnswered
  <2>1. /\ job'[p].previous = job[p].previous
        /\ job'[p].fields = job[p].fields
        /\ p # r => job'[p].change = job[p].change
        /\ p = r => job'[p].change = IF prev.version = 0 THEN "none"
                                     ELSE ClassifySchemaChange(prev.fields, job[r].fields)
    BY DEF StoreSchema, RegistryTypeOK
  <2> QED BY <2>1 DEF ClassifiedAsAnswered
<1> QED BY <1>5, <1>6, <1>7, <1>8

LEMMA DeleteSchemaInv ==
  ASSUME RegistryInv, NEW r \in Registrars, DeleteSchema(r)
  PROVE  RegistryInv'
<1> USE DEF RegistryInv, DeleteSchema
<1>1. RegistryTypeOK'
  BY NoSchemaType DEF RegistryTypeOK
<1>2. ~blind' => ~blind /\ schema = NoSchema
  OBVIOUS
<1>3. ~blind' => stored = {}
  BY <1>2, NoSchemaType DEF RowIsStored
<1>5. RowIsStored' /\ VersionNamesOneDefinition'
  BY <1>2, <1>3 DEF RowIsStored, VersionNamesOneDefinition
<1>4. ClassifiedAsAnswered'
  BY DEF ClassifiedAsAnswered, RegistryTypeOK
<1> QED BY <1>1, <1>4, <1>5

LEMMA RegistryStutterInv ==
  ASSUME RegistryInv, UNCHANGED registryVars
  PROVE  RegistryInv'
BY DEF RegistryInv, registryVars, RegistryTypeOK, RowIsStored,
       VersionNamesOneDefinition, ClassifiedAsAnswered

LEMMA RegistryNextInv ==
  ASSUME RegistryInv, [RegistryNext]_registryVars
  PROVE  RegistryInv'
BY ReadPreviousInv, StoreSchemaInv, DeleteSchemaInv, RegistryStutterInv DEF RegistryNext

LEMMA RegistryAlwaysInv == RegistrySpec => []RegistryInv
BY RegistryInitInv, RegistryNextInv, PTL DEF RegistrySpec

(* As long as nothing is deleted or replaced unseen, a schema version names *)
(* one definition, whatever calls overlap (registerSchemaDetailed).         *)
THEOREM VersionsNameDefinitions == RegistrySpec => []VersionNamesOneDefinition
BY RegistryAlwaysInv, PTL DEF RegistryInv

(* What registerSchemaDetailed answers as compatible invalidates no payload *)
(* but those that hold a clashing value in a field the change adds.         *)
THEOREM AnsweredCompatibleIsSafe == RegistrySpec => []CompatibleIsSafe
<1>1. RegistryInv => CompatibleIsSafe
  <2> SUFFICES ASSUME RegistryInv, NEW r \in Registrars, job[r].change = "compatible"
               PROVE  OnlyClashesInvalidate(job[r].previous.fields, job[r].fields)
    BY DEF CompatibleIsSafe
  <2>1. job[r].previous.fields \in Fields /\ job[r].fields \in Fields
    BY DEF RegistryInv, RegistryTypeOK, StoredSchema
  <2>2. ClassifySchemaChange(job[r].previous.fields, job[r].fields) = "compatible"
    BY DEF RegistryInv, ClassifiedAsAnswered
  <2> QED BY <2>1, <2>2, CompatibleInvalidatesOnlyClashes
<1> QED BY <1>1, RegistryAlwaysInv, PTL

-----------------------------------------------------------------------------
(* Transactions                                                             *)

(* The rows a transaction may write: new entities at revision 1, or live    *)
(* ones at their next revision.                                             *)
Successors(new) ==
  /\ new \subseteq Row
  /\ \A r, s \in new : r.id = s.id => r = s
  /\ \A r \in new : \/ r.id \notin Live /\ r.rev = 1
                    \/ r.id \in Live /\ r.rev = entities[r.id].rev + 1

(* What LiveIsLatest says of rows and images.                               *)
RowsAreLatest ==
  /\ \A i \in Live : entities[i] \in images /\ entities[i].id = i
  /\ \A w \in images : w.id \in Live /\ w.rev <= entities[w.id].rev
  /\ \A x, y \in images : SameRevision(x, y) => x = y

LEMMA WriteEffect ==
  ASSUME entities \in [Ids -> Row \cup {Absent}], NEW new, Successors(new), WriteRows(new)
  PROVE  /\ entities' \in [Ids -> Row \cup {Absent}]
         /\ \A r \in new : entities'[r.id] = r
         /\ \A i \in Ids : (\A r \in new : r.id # i) => entities'[i] = entities[i]
         /\ \A i \in Ids : i \in Live' <=> i \in Live \/ \E r \in new : r.id = i
<1>1. \A r \in new : r \in Row /\ r.id \in Ids /\ r # Absent
  BY StoreAssumption DEF Successors, Row
<1>2. \A i \in Ids : (\E r \in new : r.id = i) =>
        (CHOOSE r \in new : r.id = i) \in new /\ (CHOOSE r \in new : r.id = i).id = i
  OBVIOUS
<1>3. entities' = [i \in Ids |-> IF \E r \in new : r.id = i
                                 THEN CHOOSE r \in new : r.id = i
                                 ELSE entities[i]]
  BY DEF WriteRows
<1>4. entities' \in [Ids -> Row \cup {Absent}]
  BY <1>1, <1>2, <1>3
<1>5. \A r \in new : entities'[r.id] = r
  BY <1>1, <1>2, <1>3 DEF Successors
<1>6. \A i \in Ids : (\A r \in new : r.id # i) => entities'[i] = entities[i]
  BY <1>3
<1>7. \A i \in Ids : i \in Live' <=> i \in Live \/ \E r \in new : r.id = i
  BY <1>1, <1>5, <1>6 DEF Live
<1> QED BY <1>4, <1>5, <1>6, <1>7

LEMMA WriteKeepsLatest ==
  ASSUME TypeOK, LiveIsLatest, NEW new, Successors(new), WriteRows(new)
  PROVE  /\ RowsAreLatest'
         /\ images' = images \cup new /\ images' \subseteq Row
         /\ \A r \in new : r \notin images /\ History!Follows(r)
<1> USE DEF TypeOK, LiveIsLatest
<1>1. /\ \A r \in new : entities'[r.id] = r /\ r \in Row /\ r.id \in Live'
      /\ \A i \in Ids : (\A r \in new : r.id # i) => entities'[i] = entities[i]
      /\ \A i \in Ids : i \in Live' <=> i \in Live \/ \E r \in new : r.id = i
  BY WriteEffect DEF Successors, Row
<1>2. images' = images \cup new
  BY DEF WriteRows
<1>3. \A w \in images \cup new : w.id \in Ids /\ w.rev \in Nat /\ w.rev >= 1
  BY <1>1 DEF Row
<1>4. \A i \in Live : entities[i].rev \in Nat /\ i \in Ids
  BY <1>3 DEF Live
<1>5. \A r \in new : \A w \in images : w.id = r.id => w.rev < r.rev
  BY <1>3, <1>4 DEF Successors
<1>6. \A i \in Live' : entities'[i] \in images' /\ entities'[i].id = i
  BY <1>1, <1>2 DEF Live
<1>7. \A w \in images' : w.id \in Live' /\ w.rev <= entities'[w.id].rev
  <2> SUFFICES ASSUME NEW w \in images \cup new
               PROVE  w.id \in Live' /\ w.rev <= entities'[w.id].rev
    BY <1>2
  <2>1. CASE \E r \in new : r.id = w.id
    <3>1. PICK r \in new : r.id = w.id
      BY <2>1
    <3>2. entities'[w.id] = r /\ w.id \in Live'
      BY <3>1, <1>1
    <3>3. w \in new => w = r
      BY <3>1 DEF Successors
    <3> QED BY <3>1, <3>2, <3>3, <1>3, <1>5
  <2>2. CASE \A r \in new : r.id # w.id
    BY <2>2, <1>1, <1>3
  <2> QED BY <2>1, <2>2
<1>8. \A x, y \in images' : SameRevision(x, y) => x = y
  <2>1. \A x \in images, y \in new : ~SameRevision(x, y) /\ ~SameRevision(y, x)
    BY <1>3, <1>5 DEF SameRevision
  <2>2. \A x, y \in new : SameRevision(x, y) => x = y
    BY DEF SameRevision, Successors
  <2> QED BY <2>1, <2>2, <1>2
<1>9. \A r \in new : r \notin images /\ History!Follows(r)
  <2> SUFFICES ASSUME NEW r \in new PROVE r \notin images /\ History!Follows(r)
    OBVIOUS
  <2>1. r.rev > 1 => r.id \in Live /\ entities[r.id] \in images
                     /\ entities[r.id].id = r.id /\ entities[r.id].rev = r.rev - 1
    BY <1>3, <1>4 DEF Successors
  <2> QED BY <2>1, <1>3, <1>5 DEF History!Follows
<1> QED BY <1>1, <1>2, <1>6, <1>7, <1>8, <1>9 DEF RowsAreLatest

(* INSERT OR REPLACE replaces nothing: a revision has one image.            *)
LEMMA SnapshotsGrow ==
  ASSUME NEW all, NEW new, revisions \subseteq all, new \subseteq all,
         \A x, y \in all : SameRevision(x, y) => x = y
  PROVE  InsertSnapshots(new) = revisions \cup new
<1>1. \A s \in revisions : \A r \in new : SameRevision(s, r) => s = r
  OBVIOUS
<1> QED BY <1>1 DEF InsertSnapshots

LEMMA DataFacts ==
  /\ Edits \subseteq Data /\ \A d \in Edits : ~KeyReadsBack(d)
  /\ \A file \in Files : file \subseteq Data /\ DistinctKeys(file)
<1>1. Edits \subseteq Data /\ \A d \in Edits : ~KeyReadsBack(d)
  BY StoreAssumption
<1>2. \A file \in Files : file \subseteq Data /\ DistinctKeys(file)
  BY StoreAssumption
<1> QED BY <1>1, <1>2

(* What is stored under a key that reads back is filed under it everywhere. *)
LEMMA ReadsBackShared ==
  ASSUME NEW d \in Data, NEW e \in Data, KeyReadsBack(d), StoredKey(e) = StoredKey(d)
  PROVE  KeyReadsBack(e) /\ InputKey(e) = StoredKey(d)
BY DEF KeyReadsBack

LEMMA CrashBound == MaxCrashes \in Nat
BY StoreAssumption, Zenon

-----------------------------------------------------------------------------
(* Steps that write nothing                                                 *)

LEMMA InitInv == Init => IInv /\ History!Init
<1> SUFFICES ASSUME Init PROVE IInv /\ History!Init
  OBVIOUS
<1>1. RegistryTypeOK
  BY RegistryInitInv DEF Init, RegistryInv
<1>2. NoArgs \in Args /\ 0 \in 0 .. MaxCrashes
  BY CrashBound DEF NoArgs, Args
<1>5. TypeOK
  BY <1>1, <1>2 DEF Init, TypeOK, Labels
<1>3. Live = {}
  BY DEF Init, Live
<1>4. LocalsOK /\ InsertsFresh /\ LiveIsLatest /\ SnapshotsComplete /\ UniqueKeys
  BY <1>3 DEF Init, LocalsOK, InsertsFresh, LiveIsLatest, SnapshotsComplete, UniqueKeys
<1> QED BY <1>4, <1>5 DEF IInv, Init, History!Init

(* A request moves to a label at which it has nothing to insert yet.        *)
LEMMA MoveInv ==
  ASSUME IInv, RegistryTypeOK', NEW q \in Requests, NEW label \in Labels,
         NEW a \in Args,
         pc' = [pc EXCEPT ![q] = label], args' = [args EXCEPT ![q] = a],
         UNCHANGED <<entities, revisions, thread, rows, images, lost, crashes>>,
         pc[q] # "snapshot", label # "snapshot",
         label \in {"resolve", "write", "insert"} => a.batch \subseteq Edits,
         label = "write" => a.target \in Ids,
         label = "upsert" => a.batch \in Files,
         label = "insert" => DistinctKeys(a.batch)
  PROVE  IInv'
<1> USE DEF IInv
<1>1. TypeOK'
  BY DEF TypeOK
<1>2. \A p \in Requests : /\ p # q => pc'[p] = pc[p] /\ args'[p] = args[p]
                          /\ p = q => pc'[p] = label /\ args'[p] = a
  BY DEF TypeOK
<1>3. LocalsOK'
  BY <1>2, DataFacts DEF LocalsOK
<1>4. Live' = Live
  BY DEF Live
<1>5. InsertsFresh'
  BY <1>2, <1>4, DataFacts DEF InsertsFresh, DistinctKeys
<1>6. LiveIsLatest' /\ UniqueKeys'
  BY <1>4 DEF LiveIsLatest, UniqueKeys
<1>7. SnapshotsComplete'
  BY <1>2 DEF SnapshotsComplete
<1> QED BY <1>1, <1>3, <1>5, <1>6, <1>7

LEMMA AskInv ==
  ASSUME IInv, RegistryTypeOK', NEW q \in Requests,
         StartCreate(q) \/ StartUpdate(q) \/ StartImport(q)
  PROVE  IInv' /\ UNCHANGED <<images, revisions>>
<1> USE DEF Ask, Goto, Labels
<1>1. CASE StartCreate(q)
  <2>1. PICK d \in Edits : Ask(q, "resolve", [NoArgs EXCEPT !.batch = {d}])
    BY <1>1 DEF StartCreate
  <2>2. [NoArgs EXCEPT !.batch = {d}] \in Args /\ [NoArgs EXCEPT !.batch = {d}].batch = {d}
    BY DataFacts DEF NoArgs, Args
  <2> QED BY <2>1, <2>2, MoveInv
<1>2. CASE StartUpdate(q)
  <2>1. PICK i \in Live, d \in Edits, v \in AskedVersions : \E n \in 1 .. entities[i].rev :
          Ask(q, IF v = 0 THEN "resolve" ELSE "write",
              [batch |-> {d}, target |-> i, expected |-> n, version |-> v])
    BY <1>2 DEF StartUpdate
  <2>2. PICK n \in 1 .. entities[i].rev :
          Ask(q, IF v = 0 THEN "resolve" ELSE "write",
              [batch |-> {d}, target |-> i, expected |-> n, version |-> v])
    BY <2>1
  <2> DEFINE a == [batch |-> {d}, target |-> i, expected |-> n, version |-> v]
             label == IF v = 0 THEN "resolve" ELSE "write"
  <2>3. v \in Nat /\ i \in Ids
    BY RegistryAssumption DEF Live
  <2>4. a \in Args /\ a.batch \subseteq Edits /\ a.target \in Ids
    BY <2>3, DataFacts DEF Args
  <2>5. label \in {"resolve", "write"} /\ Ask(q, label, a)
    BY <2>2
  <2> HIDE DEF a, label
  <2> QED BY <2>4, <2>5, MoveInv
<1>3. CASE StartImport(q)
  <2>1. PICK file \in Files : Ask(q, "upsert", [NoArgs EXCEPT !.batch = file])
    BY <1>3 DEF StartImport
  <2>2. [NoArgs EXCEPT !.batch = file] \in Args /\ [NoArgs EXCEPT !.batch = file].batch = file
    BY DataFacts DEF NoArgs, Args
  <2> QED BY <2>1, <2>2, MoveInv
<1> QED BY <1>1, <1>2, <1>3

LEMMA ResolveInv ==
  ASSUME IInv, RegistryTypeOK', NEW q \in Requests, ResolveVersion(q)
  PROVE  IInv' /\ UNCHANGED <<images, revisions>>
<1> DEFINE a == [args[q] EXCEPT !.version = schema.version]
           label == IF args[q].target = Absent THEN "insert" ELSE "write"
<1>1. args[q] \in Args /\ schema.version \in Nat /\ args[q].batch \subseteq Edits
  BY DEF IInv, TypeOK, RegistryTypeOK, StoredSchema, LocalsOK, ResolveVersion
<1>2. /\ a \in Args /\ a.batch = args[q].batch /\ a.target = args[q].target
      /\ label \in Labels
  BY <1>1 DEF Args, Labels
<1>3. args' = [args EXCEPT ![q] = a] /\ pc' = [pc EXCEPT ![q] = label]
  BY DEF ResolveVersion, Goto
<1>4. label = "write" => a.target \in Ids
  BY <1>1, <1>2 DEF Args
<1>5. DistinctKeys(a.batch)
  BY <1>1, <1>2, DataFacts DEF DistinctKeys
<1>6. label \in {"insert", "write"} /\ pc[q] = "resolve"
  BY DEF ResolveVersion
<1> HIDE DEF a, label
<1> QED BY <1>1, <1>2, <1>3, <1>4, <1>5, <1>6, MoveInv DEF ResolveVersion

-----------------------------------------------------------------------------
(* Steps that write                                                         *)

(* A request has written the rows new and owes their snapshots.             *)
Writes(q, new) ==
  /\ pc[q] \in {"write", "insert"} /\ MayRun(q)
  /\ Successors(new) /\ WriteRows(new) /\ UniqueKeys'
  /\ rows' = [rows EXCEPT ![q] = new] /\ pc' = [pc EXCEPT ![q] = "snapshot"]
  /\ thread' \in {thread, q} /\ UNCHANGED <<revisions, args, lost, crashes>>

LEMMA WriteInv ==
  ASSUME IInv, RegistryTypeOK', NEW q \in Requests, NEW new, Writes(q, new)
  PROVE  IInv' /\ History!Advance
<1> USE DEF IInv, Writes
<1>1. /\ RowsAreLatest'
      /\ images' = images \cup new /\ images' \subseteq Row
      /\ \A r \in new : r \notin images /\ History!Follows(r)
  BY WriteKeepsLatest
<1>2. /\ entities' \in [Ids -> Row \cup {Absent}]
  BY WriteEffect DEF TypeOK
<1>3. \A p \in Requests : /\ p # q => pc'[p] = pc[p] /\ rows'[p] = rows[p]
                          /\ p = q => pc'[p] = "snapshot" /\ rows'[p] = new
  BY DEF TypeOK
<1>4. TypeOK'
  BY <1>1, <1>2 DEF TypeOK, Labels, Successors
<1>5. LocalsOK'
  BY <1>1, <1>3 DEF LocalsOK
<1>6. InsertsFresh'
  <2> SUFFICES ASSUME NEW p \in Requests, pc'[p] = "insert"
               PROVE  /\ DistinctKeys(args[p].batch)
                      /\ \A d \in args[p].batch : ~KeyReadsBack(d)
    BY DEF InsertsFresh
  <2>1. p # q /\ pc[p] = "insert" /\ thread # p
    BY <1>3, StoreAssumption DEF MayRun
  <2> QED BY <2>1 DEF InsertsFresh
<1>7. LiveIsLatest'
  BY <1>1 DEF LiveIsLatest, RowsAreLatest
<1>8. SnapshotsComplete'
  <2> SUFFICES ASSUME NEW w \in images', w \notin revisions, w \notin lost
               PROVE  \E p \in Requests : pc'[p] = "snapshot" /\ w \in rows'[p]
    BY DEF SnapshotsComplete
  <2>1. CASE w \in new
    BY <2>1, <1>3
  <2>2. CASE w \notin new
    BY <2>2, <1>1, <1>3 DEF SnapshotsComplete
  <2> QED BY <2>1, <2>2
<1>9. History!Advance
  BY <1>1 DEF History!Advance, LiveIsLatest, Successors
<1> QED BY <1>4, <1>5, <1>6, <1>7, <1>8, <1>9

LEMMA CompareAndWriteInv ==
  ASSUME IInv, RegistryTypeOK', NEW q \in Requests, CompareAndWrite(q)
  PROVE  IInv' /\ (History!Advance \/ UNCHANGED <<images, revisions>>)
<1> USE DEF IInv
<1>1. CASE RevisionMatches(args[q].target, args[q].expected)
  <2>1. PICK d \in args[q].batch : /\ WriteRows({UpdatedRow(q, d)})
                                   /\ rows' = [rows EXCEPT ![q] = {UpdatedRow(q, d)}]
    BY <1>1 DEF CompareAndWrite
  <2>9. PICK r : r = UpdatedRow(q, d)
    OBVIOUS
  <2> DEFINE i == args[q].target
  <2>2. d \in Edits /\ i \in Live /\ entities[i].rev = args[q].expected
    BY <1>1 DEF CompareAndWrite, LocalsOK, RevisionMatches
  <2>3. args[q] \in Args /\ i \in Ids /\ args[q].expected \in Nat /\ args[q].version \in Nat
    BY <2>2 DEF TypeOK, Args, Live
  <2>4. r.id = i /\ r.rev = args[q].expected + 1 /\ r.data = d /\ r \in Row
    BY <2>2, <2>3, <2>9, DataFacts DEF UpdatedRow, Row, StampedVersion
  <2> HIDE DEF i
  <2>5. Successors({r})
    BY <2>2, <2>4, DataFacts DEF Successors
  <2>8. WriteRows({r}) /\ rows' = [rows EXCEPT ![q] = {r}]
    BY <2>1, <2>9
  <2>6. UniqueKeys'
    <3>1. /\ entities'[i] = r
          /\ \A j \in Ids : j # i => entities'[j] = entities[j]
          /\ \A j \in Live' : j \in Live /\ j \in Ids
      BY <2>2, <2>4, <2>5, <2>8, WriteEffect DEF TypeOK, Live
    <3>2. \A j \in Live : entities[j].data \in Data /\ ~(StoredKey(entities[j].data) = StoredKey(d)
                          /\ KeyReadsBack(entities[j].data))
      BY <2>2, DataFacts, ReadsBackShared DEF TypeOK, Live, Row
    <3> QED BY <3>1, <3>2, <2>2, <2>4, DataFacts DEF UniqueKeys
  <2>7. /\ pc[q] \in {"write", "insert"} /\ MayRun(q)
        /\ pc' = [pc EXCEPT ![q] = "snapshot"]
        /\ thread' \in {thread, q} /\ UNCHANGED <<revisions, args, lost, crashes>>
    BY <1>1 DEF CompareAndWrite, Goto
  <2>10. Writes(q, {r})
    BY <2>5, <2>6, <2>7, <2>8 DEF Writes
  <2> HIDE DEF IInv
  <2> QED BY <2>10, WriteInv
<1>2. CASE ~RevisionMatches(args[q].target, args[q].expected)
  <2>1. args[q] \in Args /\ args' = [args EXCEPT ![q] = args[q]]
    BY <1>2 DEF CompareAndWrite, TypeOK
  <2> QED BY <1>2, <2>1, MoveInv DEF CompareAndWrite, Goto, Labels
<1> QED BY <1>1, <1>2

LEMMA InsertInv ==
  ASSUME IInv, RegistryTypeOK', NEW q \in Requests, InsertRows(q)
  PROVE  IInv' /\ History!Advance
<1> USE DEF IInv
<1> DEFINE batch == args[q].batch
<1>1. PICK uuid \in [batch -> Ids \ Live] :
        /\ \A d, e \in batch : uuid[d] = uuid[e] => d = e
        /\ LET new == {InsertedRow(q, d, uuid[d]) : d \in batch}
           IN  WriteRows(new) /\ rows' = [rows EXCEPT ![q] = new]
  BY DEF InsertRows
<1>11. PICK new : new = {InsertedRow(q, d, uuid[d]) : d \in batch}
  OBVIOUS
<1>2. args[q].version \in Nat /\ batch \subseteq Data
  BY DEF TypeOK, Args
<1>3. \A d \in batch : /\ InsertedRow(q, d, uuid[d]) \in Row
                       /\ InsertedRow(q, d, uuid[d]).id = uuid[d]
                       /\ InsertedRow(q, d, uuid[d]).rev = 1
                       /\ InsertedRow(q, d, uuid[d]).data = d
                       /\ uuid[d] \in Ids \ Live
  BY <1>2 DEF InsertedRow, Row, StampedVersion
<1>4. pc[q] = "insert" /\ MayRun(q) /\ pc' = [pc EXCEPT ![q] = "snapshot"] /\ thread' = q
  BY DEF InsertRows, Goto
<1>6. /\ DistinctKeys(batch)
      /\ \A d \in batch : KeyReadsBack(d) =>
           \A i \in Live : StoredKey(entities[i].data) # StoredKey(d)
  BY <1>4 DEF InsertsFresh
<1>7. Successors(new)
  BY <1>1, <1>3, <1>11 DEF Successors
<1>10. WriteRows(new) /\ rows' = [rows EXCEPT ![q] = new]
  BY <1>1, <1>11
<1>8. UniqueKeys'
  <2>1. /\ \A r \in new : entities'[r.id] = r
        /\ \A i \in Ids : (\A r \in new : r.id # i) => entities'[i] = entities[i]
        /\ \A i \in Ids : i \in Live' <=> i \in Live \/ \E r \in new : r.id = i
    BY <1>7, <1>10, WriteEffect DEF TypeOK
  <2>2. \A d \in batch : entities'[uuid[d]].data = d
    BY <2>1, <1>3, <1>11
  <2>3. \A i \in Live' : \/ i \in Live /\ entities'[i] = entities[i]
                         \/ \E d \in batch : i = uuid[d]
    BY <2>1, <1>3, <1>11 DEF Live
  <2> SUFFICES ASSUME NEW i \in Live', NEW j \in Live', KeyReadsBack(entities'[i].data),
                      StoredKey(entities'[i].data) = StoredKey(entities'[j].data)
               PROVE  i = j
    BY DEF UniqueKeys
  <2>8. /\ entities'[i].data \in Data /\ entities'[j].data \in Data
        /\ KeyReadsBack(entities'[j].data)
        /\ InputKey(entities'[i].data) = InputKey(entities'[j].data)
    <3>1. entities'[i].data \in Data /\ entities'[j].data \in Data
      BY <2>2, <2>3, <1>2 DEF TypeOK, Live, Row
    <3> QED BY <3>1, ReadsBackShared
  <2>4. CASE /\ i \in Live /\ entities'[i] = entities[i]
             /\ j \in Live /\ entities'[j] = entities[j]
    BY <2>4 DEF UniqueKeys
  <2>5. CASE \E d, e \in batch : i = uuid[d] /\ j = uuid[e]
    BY <2>2, <2>5, <2>8, <1>6 DEF DistinctKeys
  <2>6. CASE i \in Live /\ entities'[i] = entities[i] /\ \E d \in batch : j = uuid[d]
    BY <2>2, <2>6, <2>8, <1>6
  <2>7. CASE j \in Live /\ entities'[j] = entities[j] /\ \E d \in batch : i = uuid[d]
    BY <2>2, <2>7, <2>8, <1>6
  <2> QED BY <2>3, <2>4, <2>5, <2>6, <2>7
<1>9. /\ pc[q] \in {"write", "insert"} /\ thread' \in {thread, q}
      /\ UNCHANGED <<revisions, args, lost, crashes>>
  BY <1>4 DEF InsertRows
<1>12. Writes(q, new)
  BY <1>4, <1>7, <1>8, <1>9, <1>10 DEF Writes
<1> HIDE DEF IInv
<1> QED BY <1>12, WriteInv

(* The rows of an import's first transaction: each updates an entity stored *)
(* under its key, and no entity twice.                                      *)
Updates(file, hit, new) ==
  /\ file \subseteq Data
  /\ \A d \in file : /\ hit[d] \in Live /\ StoredKey(entities[hit[d]].data) = InputKey(d)
                     /\ UpsertedRow(d, hit[d]) \in new
  /\ \A r \in new : \E d \in file : r = UpsertedRow(d, hit[d])
  /\ ~HitsTwice(file)

LEMMA UpdatesAreSuccessors ==
  ASSUME TypeOK, NEW file, NEW hit, NEW new, Updates(file, hit, new)
  PROVE  /\ Successors(new)
         /\ \A d \in file : /\ UpsertedRow(d, hit[d]).id = hit[d]
                            /\ UpsertedRow(d, hit[d]).data = d
<1>1. \A d \in file : /\ d \in Data /\ hit[d] \in Live /\ hit[d] \in Ids
                      /\ entities[hit[d]] \in Row
  BY DEF Updates, Live, TypeOK
<1>2. \A d \in file : /\ UpsertedRow(d, hit[d]).id = hit[d]
                      /\ UpsertedRow(d, hit[d]).data = d
                      /\ UpsertedRow(d, hit[d]).rev = entities[hit[d]].rev + 1
                      /\ UpsertedRow(d, hit[d]) \in Row
  BY <1>1 DEF UpsertedRow, Row, StampedVersion
<1>3. \A d, e \in file : hit[d] = hit[e] => d = e
  BY DEF Updates, HitsTwice
<1>4. \A r, s \in new : r.id = s.id => r = s
  BY <1>2, <1>3 DEF Updates
<1> QED BY <1>1, <1>2, <1>4 DEF Successors, Updates

(* After them a key that reads back is still held by one entity, and by     *)
(* none if the file's row with that key matched none.                       *)
LEMMA UpdatesKeepKeys ==
  ASSUME TypeOK, UniqueKeys, NEW file, NEW hit, NEW new, Updates(file, hit, new),
         WriteRows(new)
  PROVE  /\ UniqueKeys'
         /\ \A i \in Live' : entities'[i].data \in Data
         /\ \A i \in Live' : KeyReadsBack(entities'[i].data) =>
              i \in Live /\ StoredKey(entities[i].data) = StoredKey(entities'[i].data)
<1>1. /\ Successors(new)
      /\ \A d \in file : /\ UpsertedRow(d, hit[d]).id = hit[d]
                         /\ UpsertedRow(d, hit[d]).data = d
  BY UpdatesAreSuccessors
<1>2. /\ \A r \in new : entities'[r.id] = r
      /\ \A i \in Ids : (\A r \in new : r.id # i) => entities'[i] = entities[i]
      /\ \A i \in Ids : i \in Live' <=> i \in Live \/ \E r \in new : r.id = i
  BY <1>1, WriteEffect DEF TypeOK
<1>3. \A i \in Live' : i \in Ids
  BY DEF Live
<1>4. \A i \in Live' : \/ i \in Live /\ entities'[i] = entities[i]
                       \/ \E d \in file : i = hit[d] /\ entities'[i].data = d
  BY <1>1, <1>2, <1>3 DEF Updates, Live
<1>5. \A i \in Live' : i \in Live /\ entities[i].data \in Data /\ entities'[i].data \in Data
  BY <1>4 DEF Updates, TypeOK, Live, Row
<1>6. ASSUME NEW i \in Live', KeyReadsBack(entities'[i].data)
      PROVE  StoredKey(entities[i].data) = StoredKey(entities'[i].data)
  <2>1. ASSUME NEW d \in file, i = hit[d], entities'[i].data = d
        PROVE  StoredKey(entities[i].data) = StoredKey(entities'[i].data)
    <3>1. d \in Data /\ StoredKey(entities[i].data) = InputKey(d)
      BY <2>1 DEF Updates
    <3>2. InputKey(d) = StoredKey(d)
      BY <3>1, <2>1, <1>6, ReadsBackShared
    <3> QED BY <2>1, <3>1, <3>2
  <2> QED BY <1>4, <2>1
<1>7. UniqueKeys'
  <2> SUFFICES ASSUME NEW i \in Live', NEW j \in Live', KeyReadsBack(entities'[i].data),
                      StoredKey(entities'[i].data) = StoredKey(entities'[j].data)
               PROVE  i = j
    BY DEF UniqueKeys
  <2>1. KeyReadsBack(entities'[j].data)
    BY <1>5, ReadsBackShared
  <2>2. StoredKey(entities[i].data) = StoredKey(entities[j].data)
    BY <1>6, <2>1
  <2>3. KeyReadsBack(entities[i].data)
    BY <1>5, <1>6, ReadsBackShared
  <2> QED BY <1>5, <2>2, <2>3 DEF UniqueKeys
<1> QED BY <1>5, <1>6, <1>7

LEMMA UpsertInv ==
  ASSUME IInv, RegistryTypeOK', NEW q \in Requests, UpsertMatched(q)
  PROVE  IInv' /\ (History!Advance \/ UNCHANGED <<images, revisions>>)
<1> USE DEF IInv
<1> DEFINE file == args[q].batch
           matched == file \ Unmatched(q)
<1>1. pc[q] = "upsert" /\ MayRun(q) /\ UNCHANGED <<rows, lost, crashes>>
  BY DEF UpsertMatched
<1>2. file \in Files /\ file \subseteq Data /\ DistinctKeys(file)
  BY <1>1, DataFacts DEF LocalsOK
<1>3. CASE HitsTwice(matched)
  <2>1. /\ pc' = [pc EXCEPT ![q] = "failed"] /\ args[q] \in Args
        /\ args' = [args EXCEPT ![q] = args[q]]
        /\ UNCHANGED <<entities, images, revisions, thread>>
    BY <1>3 DEF UpsertMatched, Goto, TypeOK
  <2> HIDE DEF file, matched
  <2> QED BY <1>1, <2>1, MoveInv DEF Labels
<1>4. CASE ~HitsTwice(matched)
  <2>1. PICK hit \in [matched -> Live] :
          /\ \A d \in matched : hit[d] \in Matching(d)
          /\ LET new == {UpsertedRow(d, hit[d]) : d \in matched}
             IN  WriteRows(new) /\ revisions' = InsertSnapshots(new)
    BY <1>4 DEF UpsertMatched
  <2>2. PICK new : new = {UpsertedRow(d, hit[d]) : d \in matched}
    OBVIOUS
  <2>3. WriteRows(new) /\ revisions' = InsertSnapshots(new)
    BY <2>1, <2>2
  <2>4. \A d \in matched : hit[d] \in Live /\ StoredKey(entities[hit[d]].data) = InputKey(d)
    BY <2>1 DEF Matching
  <2>5. Updates(matched, hit, new)
    BY <1>2, <1>4, <2>2, <2>4 DEF Updates
  <2>6. /\ Successors(new)
        /\ \A d \in matched : UpsertedRow(d, hit[d]).id = hit[d]
    BY <2>5, UpdatesAreSuccessors
  <2>7. /\ RowsAreLatest'
        /\ images' = images \cup new /\ images' \subseteq Row
        /\ \A r \in new : r \notin images /\ History!Follows(r)
    BY <2>3, <2>6, WriteKeepsLatest
  <2>8. entities' \in [Ids -> Row \cup {Absent}]
    BY <2>3, <2>6, WriteEffect DEF TypeOK
  <2>9. /\ UniqueKeys'
        /\ \A i \in Live' : entities'[i].data \in Data
        /\ \A i \in Live' : KeyReadsBack(entities'[i].data) =>
             i \in Live /\ StoredKey(entities[i].data) = StoredKey(entities'[i].data)
    BY <2>3, <2>5, UpdatesKeepKeys
  <2>10. revisions' = revisions \cup new
    <3>1. revisions \subseteq images' /\ new \subseteq images'
      BY <2>7 DEF LiveIsLatest
    <3>2. \A x, y \in images' : SameRevision(x, y) => x = y
      BY <2>7 DEF RowsAreLatest
    <3> QED BY <2>3, <3>1, <3>2, SnapshotsGrow
  <2>11. \/ /\ Unmatched(q) = {} /\ pc' = [pc EXCEPT ![q] = "done"] /\ UNCHANGED <<thread, args>>
         \/ /\ pc' = [pc EXCEPT ![q] = "insert"] /\ thread' = q
            /\ args' = [args EXCEPT ![q].batch = Unmatched(q)]
    BY <1>4 DEF UpsertMatched, Goto
  <2>12. Unmatched(q) \subseteq file
    BY DEF Unmatched
  <2>13. \A p \in Requests :
           /\ p # q => pc'[p] = pc[p] /\ args'[p] = args[p]
           /\ p = q => pc'[p] \in {"done", "insert"}
           /\ p = q /\ pc'[p] = "insert" => thread' = q /\ args'[p].batch = Unmatched(q)
    BY <2>11 DEF TypeOK, Args
  <2>14. \A d \in Unmatched(q) : d \in file /\ \A i \in Live : StoredKey(entities[i].data) # InputKey(d)
    BY DEF Unmatched, Matching
  <2> HIDE DEF file, matched
  <2>15. TypeOK'
    <3>1. args' \in [Requests -> Args]
      BY <1>2, <2>11, <2>12 DEF TypeOK, Args, file
    <3>2. new \subseteq Row
      BY <2>6 DEF Successors
    <3> QED BY <1>1, <2>7, <2>8, <2>10, <2>11, <3>1, <3>2 DEF TypeOK, Labels
  <2>16. LocalsOK'
    BY <1>1, <1>2, <2>7, <2>12, <2>13 DEF LocalsOK
  <2>17. InsertsFresh'
    <3> SUFFICES ASSUME NEW p \in Requests, pc'[p] = "insert"
                 PROVE  /\ DistinctKeys(args'[p].batch)
                        /\ \A d \in args'[p].batch : KeyReadsBack(d) =>
                             thread' = p /\ \A i \in Live' : StoredKey(entities'[i].data) # StoredKey(d)
      BY DEF InsertsFresh
    <3>1. CASE p # q
      <4>1. pc[p] = "insert" /\ thread # p /\ args'[p] = args[p]
        BY <3>1, <1>1, <2>13, StoreAssumption DEF MayRun
      <4> QED BY <4>1 DEF InsertsFresh
    <3>2. CASE p = q
      <4>1. thread' = q /\ args'[p].batch = Unmatched(q)
        BY <3>2, <2>13
      <4>2. DistinctKeys(Unmatched(q))
        BY <1>2, <2>12 DEF DistinctKeys
      <4>3. ASSUME NEW d \in Unmatched(q), KeyReadsBack(d), NEW i \in Live',
                   StoredKey(entities'[i].data) = StoredKey(d)
            PROVE  FALSE
        <5>1. d \in Data /\ entities'[i].data \in Data /\ InputKey(d) = StoredKey(d)
          BY <4>3, <1>2, <2>9, <2>12, ReadsBackShared
        <5>2. KeyReadsBack(entities'[i].data)
          BY <4>3, <5>1, ReadsBackShared
        <5> QED BY <4>3, <5>1, <5>2, <2>9, <2>14
      <4> QED BY <3>2, <4>1, <4>2, <4>3
    <3> QED BY <3>1, <3>2
  <2>18. LiveIsLatest'
    <3>1. revisions' \subseteq images'
      BY <2>7, <2>10 DEF LiveIsLatest
    <3> QED BY <3>1, <2>7 DEF LiveIsLatest, RowsAreLatest
  <2>19. SnapshotsComplete'
    BY <1>1, <2>7, <2>10, <2>13 DEF SnapshotsComplete
  <2>20. History!Advance
    BY <2>6, <2>7, <2>10 DEF History!Advance, LiveIsLatest, Successors
  <2> QED BY <2>9, <2>15, <2>16, <2>17, <2>18, <2>19, <2>20
<1> QED BY <1>3, <1>4

LEMMA SnapshotInv ==
  ASSUME IInv, RegistryTypeOK', NEW q \in Requests, WriteSnapshots(q)
  PROVE  IInv' /\ (History!Advance \/ UNCHANGED <<images, revisions>>)
<1> USE DEF IInv
<1>1. /\ pc[q] = "snapshot" /\ MayRun(q)
      /\ revisions' = InsertSnapshots(rows[q])
      /\ rows' = [rows EXCEPT ![q] = {}] /\ thread' = Nobody
      /\ pc' = [pc EXCEPT ![q] = "done"]
      /\ UNCHANGED <<entities, args, images, lost, crashes>>
  BY DEF WriteSnapshots, ReadBack, Goto
<1>2. revisions' = revisions \cup rows[q]
  BY <1>1, SnapshotsGrow DEF LiveIsLatest, LocalsOK
<1>3. \A p \in Requests : /\ p # q => pc'[p] = pc[p] /\ rows'[p] = rows[p]
                          /\ p = q => pc'[p] = "done" /\ rows'[p] = {}
  BY <1>1 DEF TypeOK
<1>4. TypeOK'
  BY <1>1, <1>2 DEF TypeOK, Labels
<1>5. LocalsOK'
  BY <1>1, <1>3 DEF LocalsOK
<1>6. Live' = Live
  BY <1>1 DEF Live
<1>7. InsertsFresh'
  <2> SUFFICES ASSUME NEW p \in Requests, pc'[p] = "insert"
               PROVE  /\ DistinctKeys(args[p].batch)
                      /\ \A d \in args[p].batch : ~KeyReadsBack(d)
    BY <1>1 DEF InsertsFresh
  <2>1. pc[p] = "insert" /\ thread # p
    BY <1>1, <1>3, StoreAssumption DEF MayRun
  <2> QED BY <2>1 DEF InsertsFresh
<1>8. LiveIsLatest' /\ UniqueKeys'
  BY <1>1, <1>2, <1>6 DEF LiveIsLatest, UniqueKeys, LocalsOK
<1>9. SnapshotsComplete'
  BY <1>1, <1>2, <1>3 DEF SnapshotsComplete
<1>10. History!Advance
  BY <1>1, <1>2, <1>8 DEF History!Advance, LiveIsLatest, TypeOK
<1> QED BY <1>4, <1>5, <1>7, <1>8, <1>9, <1>10

LEMMA CrashInv ==
  ASSUME IInv, RegistryTypeOK', Crash
  PROVE  IInv' /\ UNCHANGED <<images, revisions>>
<1> USE DEF IInv, Crash
<1>1. TypeOK'
  <2>1. pc' \in [Requests -> Labels] /\ rows' \in [Requests -> SUBSET Row]
    BY DEF TypeOK, Labels
  <2>2. lost' \subseteq Row
    BY DEF TypeOK
  <2>3. crashes' \in 0 .. MaxCrashes
    BY CrashBound DEF TypeOK
  <2> QED BY <2>1, <2>2, <2>3 DEF TypeOK
<1>2. \A p \in Requests : pc'[p] \in {"new", "done", "conflict", "failed", "crashed"} /\ rows'[p] = {}
  OBVIOUS
<1>3. LocalsOK' /\ InsertsFresh'
  BY <1>2 DEF LocalsOK, InsertsFresh
<1>4. Live' = Live
  BY DEF Live
<1>5. LiveIsLatest' /\ UniqueKeys'
  BY <1>4 DEF LiveIsLatest, UniqueKeys
<1>6. SnapshotsComplete'
  BY DEF SnapshotsComplete
<1> QED BY <1>1, <1>3, <1>5, <1>6

LEMMA FrameInv ==
  ASSUME IInv, RegistryTypeOK', UNCHANGED storeVars
  PROVE  IInv' /\ UNCHANGED <<images, revisions>>
<1>1. Live' = Live
  BY DEF Live, storeVars
<1> QED
  BY <1>1 DEF storeVars, IInv, TypeOK, LocalsOK, InsertsFresh, LiveIsLatest,
              SnapshotsComplete, UniqueKeys

-----------------------------------------------------------------------------
(* Theorems                                                                 *)

LEMMA StoreInv ==
  ASSUME IInv, RegistryInv, [Next]_vars
  PROVE  IInv' /\ RegistryInv' /\ [History!Advance]_<<images, revisions>>
<1>1. [RegistryNext]_registryVars
  BY DEF Next, vars
<1>2. RegistryInv' /\ RegistryTypeOK'
  BY <1>1, RegistryNextInv DEF RegistryInv
<1>3. CASE RegistryNext /\ UNCHANGED storeVars
  BY <1>2, <1>3, FrameInv
<1>4. CASE \E q \in Requests : StoreStep(q)
  <2>1. PICK q \in Requests : StoreStep(q)
    BY <1>4
  <2> QED
    BY <1>2, <2>1, AskInv, ResolveInv, CompareAndWriteInv, UpsertInv, InsertInv, SnapshotInv
       DEF StoreStep
<1>5. CASE Crash
  BY <1>2, <1>5, CrashInv
<1>6. CASE UNCHANGED vars
  BY <1>2, <1>6, FrameInv DEF vars
<1> QED BY <1>3, <1>4, <1>5, <1>6 DEF Next

LEMMA StoreAlwaysInv == Spec => [](IInv /\ RegistryInv)
<1>1. Init => IInv /\ RegistryInv
  BY InitInv, RegistryInitInv DEF Init
<1> QED BY <1>1, StoreInv, PTL DEF Spec

(* The store runs the registry's protocol: what is proved of RegistrySpec   *)
(* holds of the store too.                                                  *)
THEOREM StoreRunsRegistry == Spec => RegistrySpec
<1>1. Init => RegistryInit
  BY DEF Init
<1>2. [Next]_vars => [RegistryNext]_registryVars
  BY DEF Next, vars
<1> QED BY <1>1, <1>2, PTL DEF Spec, RegistrySpec

(* The tables and the locals of every request have their types.             *)
THEOREM StoreTypeCorrect == Spec => []TypeOK
BY StoreAlwaysInv, PTL DEF IInv

(* No interleaving of creations, updates and imports loses the snapshot of  *)
(* a revision: only a crash between two transactions can.                   *)
THEOREM OnlyCrashesLoseSnapshots == Spec => []SnapshotsComplete
BY StoreAlwaysInv, PTL DEF IInv

(* Imports on the one thread never give two live entities one natural key   *)
(* that reads back, whatever the two conversions make of the other keys.    *)
THEOREM KeysStayUnique == Spec => []UniqueKeys
BY StoreAlwaysInv, PTL DEF IInv

(* The SQLite store implements RevisionHistory, as the PostgreSQL one does. *)
THEOREM SqliteImplementsHistory == Spec => KeepsHistory
<1>1. Init => History!Init
  BY InitInv
<1>2. (IInv /\ RegistryInv) /\ [Next]_vars => [History!Advance]_<<images, revisions>>
  BY StoreInv
<1> QED BY <1>1, <1>2, StoreAlwaysInv, PTL DEF Spec, KeepsHistory, History!Spec
=============================================================================
