SPECIFICATION Spec
CONSTANTS
  BlockSize = 2
  MaxFile = 9
INVARIANTS
  NoBufferRace
PROPERTIES
  ImplementsCopy
  Completes
