SPECIFICATION Spec
CONSTANTS
  GlobalToken = GlobalToken
  NoToken = NoToken
  NoError = NoError
  Visitors = {}
  Admins = {}
  Registrars = {g}
  Project = Project
  Other = Other
  Dataset = Dataset
  feed = feed
  nightly = nightly
  fixed = fixed
  byId = byId
  Sources = {feed}
  Imports = {nightly}
  Routes = {fixed, byId}
  Package <- MCPackage
  PathOf <- MCPathOf
  Paths <- MCPaths
  Tokens = {t}
  None = None
  MaxVisits = 1
  MaxAttempts = 1
  MaxChanges = 2
  MaxFailures = 1
INVARIANT RegistrationIsComplete
CHECK_DEADLOCK FALSE
