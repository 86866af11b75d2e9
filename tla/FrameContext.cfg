SPECIFICATION Spec
CONSTANTS
  Window = 2
  BlockSizes <- MCBlockSizes
  DefaultBlock = 2
  ContentSizes <- MCContentSizes
  Choices <- MCChoices
  MaxContent = 7
  MaxFrames = 2
INVARIANTS
  TypeOK
  RoomInBuffer
  NothingLost
  WaitingIntact
  HistoryIntact
  BlocksInOrder
  PromiseKept
CHECK_DEADLOCK FALSE
