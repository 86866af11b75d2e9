SPECIFICATION FileSpec
CONSTANTS
  Window = 1
  BlockSizes <- MCBlockSizes
  DefaultBlock = 2
  ContentSizes <- MCContentSizes
  Choices <- MCChoices
  MaxContent = 3
  MaxOpens = 2
  MaxUnits = 4
  RawReads <- MCRawReads
  Offsets <- MCOffsets
  ReadSizes <- MCReadSizes
INVARIANTS
  ClosedIsWhole
  ReadsBack
  EndIsHonest
  OneShotComplete
  OneShotFits
PROPERTIES
  InOrderUntilRaised
  ReadReturns
CHECK_DEADLOCK FALSE
