SPECIFICATION WireSpec
CONSTANTS
  BufferSizes = {0, 1, 100, 239, 240, 4335, 65264, 65265, 2113929216, 2113929217}
  StoreSizes = {0, 1, 2, 3, 4}
  MaxBlocks = 2
  MaxBlock = 100000
  Cuts = {0, 1, 2, 3, 16, 17, 18}
INVARIANTS
  OnlyCapsuleLeaks
  LengthsFit
  CutIsNoticed
  WholeIsRead
CHECK_DEADLOCK FALSE
