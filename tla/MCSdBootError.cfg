SPECIFICATION FairSpec
CONSTANTS
  WordBytes = 2
  BlockWords = 2
  Blocks = 3
  RamSize = 8
  FirstAddr = 5
  CardFails = TRUE
  ColdStart = FALSE
PROPERTY
  ErrorsReported
