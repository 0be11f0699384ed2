SPECIFICATION Spec
CONSTANTS
  Null = Null
  Failed = Failed
  Undefined = Undefined
  NotUuid = NotUuid
  Legacy = legacy
  LegacyProject = legacy
  Second = 2
  DefaultLimit = 2
  SampleSize = 2
  ProjectIds = {legacy, other}
  RowIds = {1, 2}
  EventIds = {1, 2, 3}
  Edited = {1}
  DatasetIds = {"ds", "path"}
  MaxClock = 2
  Callers = {p1, p2}
  Datasets = {default, d1}
  Default = default
  Projects = {legacy, other}
  None = None
  Empty = Empty
  Wanted <- TheWanted
  MaxCrashes = 1
  p1 = p1
  p2 = p2
  d1 = d1
  legacy = legacy
  other = other
INVARIANT BackendsAgree
PROPERTY DatasetsOwned
CHECK_DEADLOCK FALSE
