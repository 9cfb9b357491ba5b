SPECIFICATION Spec
CONSTANTS
  Byte = {0, 1, 2}
  CodeBase = 6
  MaxLength = 3
  Bucket <- MCBucket
  Hash <- MCHash
  ChunkMax = 3
  Slack = 1
  Tables <- MCTables
  Inputs <- MCInputs
  Sizes <- MCSizes
INVARIANTS
  RoundTrip
  NoOverrun
  InBounds
  EnoughRoom
PROPERTIES
  ImplementsGreedy
CHECK_DEADLOCK FALSE
