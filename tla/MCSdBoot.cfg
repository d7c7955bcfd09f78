SPECIFICATION FairSpec
CONSTANTS
  WordBytes = 3
  BlockWords = 2
  Blocks = 3
  RamSize = 8
  FirstAddr = 5
  CardFails = TRUE
  ColdStart = TRUE
INVARIANTS
  WordsInPlace
PROPERTIES
  FourPhase
  LoadEnds
