SPECIFICATION PairSpec
CONSTANTS
  KB64 = 9
  MinDict = 2
  HashUnit = 3
  PageSize = 5
  Streams <- MCStreams
  MinMatch = 2
  MFLimit = 3
  LastLiterals = 1
  Wild = 5
  MaxChunks = 4
INVARIANTS
  Delivered
  NeverRefused
  InStep
CHECK_DEADLOCK FALSE
