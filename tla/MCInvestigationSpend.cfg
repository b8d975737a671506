SPECIFICATION Spec
CONSTANTS
  Workers = {w1}
  Clients = {c1}
  Plans <- OnePlan
  MaxSteps = 5
  MaxDuration = 1
  MaxTokens = 2
  MaxToolCalls = 2
  MaxRetrievals = 1
  MaxUse = 0
  MaxTime = 0
  MaxCrashes = 1
  None = None
INVARIANT ExecutedWithinBudget
