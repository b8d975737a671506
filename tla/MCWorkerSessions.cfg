SPECIFICATION Spec
CONSTANTS
  Jobs = {j1}
  Workers = {w1, w2}
  MaxDeliveries = 3
  SessionLoss = TRUE
  None = None
SYMMETRY WorkerSymmetry
INVARIANT TypeOK
INVARIANT ExclusiveRun
INVARIANT CheckpointSound
INVARIANT BudgetSpentOnFailure
