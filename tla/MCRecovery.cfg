SPECIFICATION Spec
CONSTANTS
  Rebuilders = {2, 3}
  Documents = {1, 2}
  Worlds <- MCWorlds
  MaxChunks = 3
  MaxTokens = 4
  None = None
INVARIANTS
  AliasesAgree
  ServedIsWhole
  ReportIsTrue
  ChunksAreFaithful
PROPERTY FailureIsCompensated
CHECK_DEADLOCK FALSE
