SPECIFICATION Spec
CONSTANTS
  Versions = {1, 2}
  Empty = {}
  Chunks = {c1}
  MaxScans = 3
  None = None
INVARIANT LatestIsCurrent
\* The bounded scans may all be abandoned: then nothing is left to do.
CHECK_DEADLOCK FALSE
