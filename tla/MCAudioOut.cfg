CONSTANTS
  Ring = 6
  Target = 5
  AddrSpace = 24
  HalfBits = 4
  Samples = 2
  LoadBit = 2
  MinGap = 2
  MaxGap = 4
  FillReads = 1
SPECIFICATION FairSpec
INVARIANTS RingKept
PROPERTIES InOrder KeepsStep FallsSilent
CHECK_DEADLOCK TRUE
