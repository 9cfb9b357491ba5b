SPECIFICATION Spec
CONSTANTS
  Byte = {0, 1, 2}
  CodeBase = 6
  MaxLength = 3
  Bucket <- MCBucket
  Hash <- MCHash
  Groups = 2
  Width = 1
  ScatterWidth = 3
  ChunkMax = 3
  Slack = 2
  MaxJobs = 4
  StageMax = 28
  MinWork = 3
  SizeRange = 1000
  Tables <- MCTables
  Inputs <- MCInputs
  Sizes <- MCSizes
  Garbage = {0, 1}
INVARIANTS
  InBounds
CHECK_DEADLOCK FALSE
