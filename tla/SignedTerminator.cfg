SPECIFICATION Spec
CONSTANTS
  Byte = {0, 1, 4}
  CodeBase = 6
  MaxLength = 3
  CharIsSigned = TRUE
  Bucket <- MCBucket
  Hash <- MCHash
INVARIANTS
  NoTerminatorInside
CHECK_DEADLOCK FALSE
