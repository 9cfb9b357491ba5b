SPECIFICATION Spec
CONSTANTS
  CodeBase = 4
  CodeMax = 8
  MaxLength = 5
  SampleTarget = 20
  LongLine = 6
  LowBase = 2
  High1Base = 8
  High2Base = 4
  Bucket <- MCBucket
  Hash <- MCHash
  Rnd128 <- MCRnd128
  Lines <- MCLines
  Sizes = {5, 11, 40}
  Rooms = {0, 4, 8, 17, 70}
INVARIANTS
  Decodes
CHECK_DEADLOCK FALSE
