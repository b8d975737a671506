SPECIFICATION ToolsSpec
CONSTANTS
  r1 = r1
  r2 = r2
  r3 = r3
  Requests = {r1, r2, r3}
  Worlds <- MCWorlds
  MaxRequests = 2
  MaxConcurrent = 1
  Window = 2
  NoWindow = NoWindow
  RrfK = 60
  ScoreUnit = 7624512
  Corpus = "new"
  FailureThreshold = 2
  RecoveryTimeout = 1
  None = None
  MaxAttempts = 2
  RerankLimit = 2
  MaxResults = 3
INVARIANTS
  TypeOK
  CountsAreExact
  BackendsAgree
  HitsAreFresh
  OutagesAreNotKept
  ToolsReadInTime
PROPERTY FusionIsSound
CHECK_DEADLOCK FALSE
