SPECIFICATION FairSpec
CONSTANTS
  Workers = {w1, w2}
  Clients = {c1}
  Plans <- OnePlan
  MaxSteps = 4
  MaxDuration = 1
  MaxTokens = 2
  MaxToolCalls = 2
  MaxRetrievals = 1
  MaxUse = 0
  MaxTime = 1
  MaxCrashes = 1
  None = None
PROPERTY QueuedTerminates
