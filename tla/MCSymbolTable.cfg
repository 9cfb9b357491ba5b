SPECIFICATION Spec
CONSTANTS
  Byte = {0, 1, 2}
  CodeBase = 6
  MaxLength = 3
  CharIsSigned = TRUE
  Bucket <- MCBucket
  Hash <- MCHash
INVARIANTS
  LongestMatch
  ClearErasesAll
  FinalizePreserves
  CodeLayout
  ImportAgrees
CHECK_DEADLOCK FALSE
