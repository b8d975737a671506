SPECIFICATION Spec
CONSTANTS
  Workers = {w1, w2}
  Clients = {c1}
  Plans <- SomePlans
  MaxSteps = 5
  MaxDuration = 1
  MaxTokens = 2
  MaxToolCalls = 2
  MaxRetrievals = 1
  MaxUse = 1
  MaxTime = 1
  MaxCrashes = 0
  None = None
SYMMETRY ActorSymmetry
INVARIANTS TypeOK EndHolds UsageWithinBudget SuccessIsEarned
PROPERTIES TerminalIsFinal ActsAsOne
