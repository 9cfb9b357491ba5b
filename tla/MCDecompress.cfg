SPECIFICATION Spec
CONSTANTS
  Byte = {0, 1, 5}
  CodeBase = 6
  MaxLength = 3
  Bucket <- MCBucket
  Hash <- MCHash
  Decoders <- MCDecoders
  Inputs <- MCInputs
  Sizes <- MCSizes
INVARIANTS
  Faithful
  InBounds
CHECK_DEADLOCK FALSE
