SPECIFICATION Spec
CONSTANTS
  Byte = {0, 1, 2, 3}
  CodeBase = 6
  MaxLength = 3
  LowBase = 4
  High2Base = 2
  CharIsSigned = TRUE
  TerminatorCount = 1000
  SampleTarget = 20
  SampleLine = 8
  Bucket <- MCBucket
  Hash <- MCHash
  Rnd128 <- MCRnd128
  Lines <- MCLines
INVARIANTS
  SampleInside
  SymbolsOccur
  FinalEarned
PROPERTIES
  ImplementsLife
