CONSTANTS
  None = None
  Routes <- MCRoutes
  Paths <- MCPaths
  Methods = {"Get"}
  MaxRequests = 1
  SsidLens = {None}
  PasswordLens = {None}
  MaxDrops = 0
SPECIFICATION PSpec
CHECK_DEADLOCK FALSE
INVARIANTS
  CompleteResponseIsRead
