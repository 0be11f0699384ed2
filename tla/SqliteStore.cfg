SPECIFICATION Spec
CONSTANTS
  FieldNames = {"a"}
  SchemaIds = {"other"}
  Registrars = {r1}
  Definitions <- MCDefinitions
  AskedVersions = {0, 3}
  Requests = {q1, q2, q3}
  Ids = {i1, i2, i3}
  Data = {"k1", "n7", "yes", "one", "strs", "nums", "plain"}
  KeyValue <- MCKeyValue
  ReadValue <- MCKeyValue
  Edits = {"plain"}
  Files <- MCFiles
  Absent = Absent
  Nobody = Nobody
  MaxCrashes = 1
SYMMETRY Symmetric
INVARIANTS
  TypeOK
  SnapshotsComplete
  UniqueKeys
PROPERTIES
  KeepsHistory
CHECK_DEADLOCK FALSE
