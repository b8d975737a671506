SPECIFICATION Spec
CONSTANTS
  r1 = r1
  r2 = r2
  r3 = r3
  Requests = {r1, r2, r3}
  Principal <- MCPrincipal
  Worlds <- MCWorlds
  Mark = 9
  None = None
  ContextTokens = 3
  FailureThreshold = 2
  RecoveryTimeout = 2
  MaxAttempts = 2
  MaxRequests = 3
  MaxConcurrent = 2
  Window = 4
  NoWindow = NoWindow
CHECK_DEADLOCK FALSE
INVARIANT TypeOK
INVARIANT ProbeAccounted
INVARIANT TextIsGrounded
INVARIANT ContextIsMaximal
PROPERTY CallsWaitOut
PROPERTY AnswersAreGrounded
INVARIANT LeaseFollowsStream
