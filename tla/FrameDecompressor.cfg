SPECIFICATION FairSpec
CONSTANT Scenarios <- MCSound
INVARIANTS
  InOrder
  WithinLimit
  EofExact
  NeverRefused
PROPERTIES
  ReaderSpec
  CallReturns
  FrameFinishes
