SPECIFICATION Spec
CONSTANTS
  FieldNames = {"a"}
  SchemaIds = {"other"}
  Registrars = {r1}
  Definitions <- MCDefinitions
  AskedVersions = {0, 3}
  Requests = {q1, q2}
  Ids = {i1, i2}
  Data = {"k1", "n7", "yes", "one", "strs", "nums", "plain"}
  KeyValue <- MCKeyValue
  ReadValue <- MCReadMangled
  Edits = {"plain"}
  Files <- MCFiles
  Absent = Absent
  Nobody = Nobody
  MaxCrashes = 1
INVARIANT ReimportsUpdate
CHECK_DEADLOCK FALSE
