SPECIFICATION Spec
CONSTANTS
  Versions = {1, 2, 3}
  Empty = {3}
  Chunks = {c1, c2}
  MaxScans = 3
  None = None
SYMMETRY ChunkSymmetry
INVARIANTS TypeOK OneVersionServed CurrentIsBacked
PROPERTIES CurrentNeverOlder PromotionIsPublished TombstoneNotIndexed
\* The bounded scans may all be abandoned: then nothing is left to do.
CHECK_DEADLOCK FALSE
