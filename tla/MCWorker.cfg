\* Liveness is checked too, so without symmetry of the workers.
SPECIFICATION FairSpec
CONSTANTS
  Jobs = {j1}
  Workers = {w1, w2}
  MaxDeliveries = 3
  SessionLoss = FALSE
  None = None
INVARIANT CompletedIsPublished
PROPERTY TerminalIsFinal
PROPERTY ImplementsLifecycle
PROPERTY SubmittedTerminates
