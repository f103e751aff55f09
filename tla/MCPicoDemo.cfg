CONSTANTS
  None = None
  Routes <- MCRoutes
  Paths <- MCPaths
  Methods = {"Get", "Post"}
  MaxRequests = 2
  SsidLens = {None, 32, 33}
  PasswordLens = {None, 64, 65}
  MaxDrops = 2
SPECIFICATION PFairSpec
\* A connection that has ended, or a firmware that has panicked, takes no more steps.
CHECK_DEADLOCK FALSE
INVARIANTS
  ResponsesPairUp
  DeclaredIsSent
  PanicsExplained
PROPERTIES
  AnswersMatch
  DemoServes
  AnswersArrive
