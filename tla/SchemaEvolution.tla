-------------------------- MODULE SchemaEvolution --------------------------
(***************************************************************************)
(* Schema definitions of @aurii/core: which are accepted                   *)
(* (schema/validator.ts), what an entity must satisfy under one, how a     *)
(* change is classified (schema/evolution.ts) and which version it is      *)
(* stored under (schema/registry.ts).  A definition maps every field name  *)
(* to its declaration or NoField; a payload maps every field name to the   *)
(* kind of value it holds, which is all that validation looks at.          *)
(***************************************************************************)
EXTENDS Integers

CONSTANTS FieldNames, \* names a definition may declare
          SchemaIds   \* ids a reference may target

NoTarget == "no target"
NoField  == [type |-> "none", required |-> FALSE, multiple |-> FALSE, to |-> NoTarget]

ASSUME SchemaAssumption == NoTarget \notin SchemaIds

FieldTypes == {"string", "number", "boolean", "date", "reference", "string[]", "number[]"}

FieldDefinition == [type : FieldTypes, required : BOOLEAN, multiple : BOOLEAN,
                    to : SchemaIds \cup {NoTarget}]

Fields == [FieldNames -> FieldDefinition \cup {NoField}]

(* missing: undefined, null or the empty string.  An empty array is both   *)
(* an array of strings and one of numbers.                                 *)
ValueKinds == {"missing", "text", "date", "number", "boolean", "object",
               "texts", "numbers", "mixed", "empty"}

Payload == [FieldNames -> ValueKinds]

Arrays == {"texts", "numbers", "mixed", "empty"}

Declares(fields, f) == fields[f] # NoField

-----------------------------------------------------------------------------
(* A reference field must name its target; the type of any other field is  *)
(* one of the list by construction of FieldDefinition.                     *)
ValidateSchemaDefinition(fields) ==
  \A f \in FieldNames : fields[f].type = "reference" => fields[f].to # NoTarget

(* checkType: the kinds of value a type admits.                            *)
Admits(type) ==
  CASE type = "string"    -> {"text", "date"}
    [] type = "number"    -> {"number"}
    [] type = "boolean"   -> {"boolean"}
    [] type = "date"      -> {"date"}
    [] type = "string[]"  -> {"texts", "empty"}
    [] type = "number[]"  -> {"numbers", "empty"}
    [] type = "reference" -> {"text", "date"} \cup Arrays

ValidValue(field, value) ==
  IF value = "missing" THEN ~field.required
  ELSE IF field.type = "reference" /\ field.multiple THEN value \in {"texts", "empty"}
  ELSE value \in Admits(field.type)

(* validateEntity: fields the definition does not declare are not looked at*)
ValidateEntity(data, fields) ==
  \A f \in FieldNames : Declares(fields, f) => ValidValue(fields[f], data[f])

-----------------------------------------------------------------------------
(* classifySchemaChange.  The reasons are its raise calls.                 *)
Breaks(prev, cur) == cur = NoField \/ prev.type # cur.type

MayBreak(prev, cur) ==
  \/ prev.multiple # cur.multiple
  \/ "reference" \in {prev.type, cur.type} /\ prev.to # cur.to
  \/ ~prev.required /\ cur.required

(* A bug: the loop over the previous fields only.                          *)
ClassifyPreviousFields(previous, next) ==
  LET kept == {f \in FieldNames : Declares(previous, f)}
  IN  IF \E f \in kept : Breaks(previous[f], next[f]) THEN "breaking"
      ELSE IF \E f \in kept : MayBreak(previous[f], next[f]) THEN "potentially_breaking"
      ELSE "compatible"

ClassifySchemaChange(previous, next) ==
  LET kept  == {f \in FieldNames : Declares(previous, f)}
      added == FieldNames \ kept
  IN  IF \E f \in kept : Breaks(previous[f], next[f]) THEN "breaking"
      ELSE IF \/ \E f \in kept : MayBreak(previous[f], next[f])
              \/ \E f \in added : next[f].required
           THEN "potentially_breaking"
      ELSE "compatible"

(* registerSchemaDetailed: the version of a definition that follows the    *)
(* previous stored one (version 0: none) with the version the caller asked *)
(* for (0: none).  A definition that is stored again as it is keeps its    *)
(* version, whatever the caller asks for.                                  *)
VersionOrDefault(asked) == IF asked = 0 THEN 1 ELSE asked

(* A bug: the version moves only when the caller says so.                   *)
AskedOrSame(previous, fields, asked) ==
  IF asked > previous.version THEN asked
  ELSE IF previous.version = 0 THEN 1 ELSE previous.version

RegisteredVersion(previous, fields, asked) ==
  IF previous.version = 0 THEN VersionOrDefault(asked)
  ELSE IF previous.fields = fields THEN previous.version
  ELSE IF asked > previous.version THEN asked
  ELSE previous.version + 1

-----------------------------------------------------------------------------
(* A value lies in the payload under a name the previous definition does   *)
(* not declare, so that it was never looked at, and the declaration that   *)
(* the next definition adds for the name does not admit it.                *)
Clashes(data, previous, next) ==
  \E f \in FieldNames :
    /\ ~Declares(previous, f) /\ Declares(next, f)
    /\ data[f] # "missing" /\ ~ValidValue(next[f], data[f])

(* Of all the payloads that are valid under the previous definition,       *)
(* exactly those in which a value clashes become invalid under the next.   *)
OnlyClashesInvalidate(previous, next) ==
  \A data \in Payload : ValidateEntity(data, previous) =>
    (ValidateEntity(data, next) <=> ~Clashes(data, previous, next))

(* No payload becomes invalid.                                             *)
NeedsNoRewrite(previous, next) ==
  \A data \in Payload : ValidateEntity(data, previous) => ValidateEntity(data, next)

=============================================================================
