SPECIFICATION PairSpec
CONSTANTS
  KB64 = 9
  MinDict = 2
  HashUnit = 3
  PageSize = 5
  Streams <- MCEmpty
  MinMatch = 2
  MFLimit = 3
  LastLiterals = 1
  Wild = 5
  MaxChunks = 4
INVARIANT Delivered
CHECK_DEADLOCK FALSE
