SPECIFICATION RegistrySpec
CONSTANTS
  FieldNames = {"a", "b"}
  SchemaIds = {"other"}
  Registrars = {r1, r2, r3}
  Definitions <- MCDefinitions
  AskedVersions = {0, 3}
SYMMETRY Symmetric
INVARIANTS
  VersionNamesOneDefinition CompatibleIsSafe
CHECK_DEADLOCK FALSE
