--------------------------- MODULE SchemaRegistry ---------------------------
(***************************************************************************)
(* Registration of a schema (schema/registry.ts) over either entity store: *)
(* the stored definition is read, the change against it classified, and    *)
(* the new one written under the version computed from what was read.      *)
(* The read and the write are two awaits, and nothing ties them together.  *)
(* One schema id of one dataset; a definition's fields stand for its name  *)
(* and description too, whose change counts as a change of the definition. *)
(***************************************************************************)
EXTENDS SchemaEvolution

CONSTANTS
  Registrars,     \* the calls of registerSchemaDetailed and deleteSchema
  Definitions,    \* the definitions they may bring
  AskedVersions   \* the versions a definition may ask for; 0: none

ASSUME RegistryAssumption ==
  /\ Definitions \subseteq Fields
  /\ AskedVersions \subseteq Nat

VARIABLES
  schema,   \* the row of aurii_schemas; version 0: there is none
  job,      \* what each call has read and answered
  stored,   \* history: every definition stored, with its version
  blind     \* history: a definition was deleted, or replaced unseen

registryVars == <<schema, job, stored, blind>>

NoFields == [f \in FieldNames |-> NoField]
NoSchema == [version |-> 0, fields |-> NoFields]

NewJob == [at |-> "new", previous |-> NoSchema, fields |-> NoFields,
           asked |-> 0, change |-> "none"]

StoredSchema == [version : Nat, fields : Fields]

RegistryTypeOK ==
  /\ schema \in StoredSchema
  /\ job \in [Registrars -> [at : {"new", "store", "done", "refused"},
                             previous : StoredSchema, fields : Fields, asked : Nat,
                             change : {"none", "compatible", "potentially_breaking", "breaking"}]]
  /\ stored \subseteq StoredSchema
  /\ blind \in BOOLEAN

-----------------------------------------------------------------------------
(* registerSchemaDetailed until its read of the stored definition           *)
ReadPrevious(r) ==
  /\ job[r].at = "new"
  /\ \E fields \in Definitions, asked \in AskedVersions :
       job' = [job EXCEPT ![r] =
                 [at |-> IF ValidateSchemaDefinition(fields) THEN "store" ELSE "refused",
                  previous |-> schema, fields |-> fields, asked |-> asked,
                  change |-> "none"]]
  /\ UNCHANGED <<schema, stored, blind>>

(* INSERT ... ON CONFLICT (id, dataset_id) DO UPDATE                        *)
UpsertSchema(version, fields) ==
  /\ schema' = [version |-> version, fields |-> fields]
  /\ stored' = stored \cup {schema'}

StoreSchema(r) ==
  /\ job[r].at = "store"
  /\ LET prev == job[r].previous
     IN  /\ UpsertSchema(RegisteredVersion(prev, job[r].fields, job[r].asked), job[r].fields)
         /\ job' = [job EXCEPT ![r].at = "done",
                      ![r].change = IF prev.version = 0 THEN "none"
                                    ELSE ClassifySchemaChange(prev.fields, job[r].fields)]
         /\ blind' = (blind \/ schema # prev)

(* deleteSchema: entities keep the version they were written under.         *)
DeleteSchema(r) ==
  /\ job[r].at = "new"
  /\ schema' = NoSchema
  /\ job' = [job EXCEPT ![r].at = "done"]
  /\ blind' = (blind \/ schema # NoSchema)
  /\ UNCHANGED stored

RegistryInit ==
  /\ schema = NoSchema
  /\ job = [r \in Registrars |-> NewJob]
  /\ stored = {}
  /\ blind = FALSE

RegistryNext == \E r \in Registrars : ReadPrevious(r) \/ StoreSchema(r) \/ DeleteSchema(r)

RegistrySpec == RegistryInit /\ [][RegistryNext]_registryVars

-----------------------------------------------------------------------------
(* docs/SCHEMA_EVOLUTION.md calls the version "monotonic for a given        *)
(* identity".  It is as long as no registration replaces a definition it    *)
(* has not read and none is deleted: a version then names one definition    *)
(* and the stored one has the greatest.                                     *)
VersionNamesOneDefinition ==
  ~blind =>
    /\ \A d, e \in stored : d.version = e.version => d.fields = e.fields
    /\ \A d \in stored : d.version <= schema.version

(* A registration answered as compatible invalidates a payload that was    *)
(* valid under the definition it was compared with only if the payload      *)
(* holds a value, in a field the change adds, that the new field refuses:   *)
(* classifySchemaChange never looks at data, validateEntity never at fields *)
(* a definition does not declare.                                           *)
CompatibleIsSafe ==
  \A r \in Registrars : job[r].change = "compatible" =>
    OnlyClashesInvalidate(job[r].previous.fields, job[r].fields)

(* docs/SCHEMA_EVOLUTION.md calls compatible changes, among them adding an  *)
(* optional field, "Safe without requiring consumers to rewrite data": no   *)
(* payload that was valid becomes invalid.                                  *)
CompatibleNeedsNoRewrite ==
  \A r \in Registrars : job[r].change = "compatible" =>
    NeedsNoRewrite(job[r].previous.fields, job[r].fields)
=============================================================================
