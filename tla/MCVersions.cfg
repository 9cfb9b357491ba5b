SPECIFICATION SpecVersions
CONSTANTS
  CodeBase = 4
  CodeMax = 8
  MaxLength = 5
  SampleTarget = 20
  LongLine = 6
  LowBase = 2
  High1Base = 8
  High2Base = 4
  Bucket <- MCBucket
  Hash <- MCHash
  Rnd128 <- MCRnd128
  Lines <- MCLines
  Sizes = {5, 11, 40}
  Rooms = {0, 4, 8, 17, 70}
  PaperBase = 8
  PaperLength = 4
  QueueMax = 3
  ChunkMax = 5
  FirstTexts <- MCFirstTexts
  Targets <- MCTargets
  ThresholdUnit = 12
  CounterRange = 8
  SampleLimit = 8
  SecondTexts <- MCSecondTexts
  Leftover <- MCLeftover
  Behind <- MCBehind
  Newline = 1
  Corpora <- MCCorpora
  BlockSize = 2
  Encode <- MCEncode
  Decode <- MCDecode
INVARIANTS
  SymbolsOccur
  InBounds
  ImportAgrees
  DecodesUpTo
  CandidatesExact
  Minimal
  RoundTrip
  RowsReturned
PROPERTIES
  PicksBest
CHECK_DEADLOCK FALSE
