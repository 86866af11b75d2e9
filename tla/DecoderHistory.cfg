SPECIFICATION Spec
CONSTANTS
  Stripe = 3
  KB64 = 2
  BlockSizes = {2,3}
  Rooms = {1,3}
  Stable = {TRUE, FALSE}
  MaxContent = 7
  MaxFrames = 2
INVARIANTS
  HistoryRight
  WaitingIntact
  WithinTmpOut
  ChecksumRight
CHECK_DEADLOCK FALSE
