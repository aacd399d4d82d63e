CONSTANTS
  MaxLen = 10
  HdrLen = 2
  RingSize = 13
  Chunks = {1, 4}
  MaxStream = 12
  Plans <- PartialPlans
  MayConfigure = FALSE
SPECIFICATION Spec
INVARIANT RestartsAtSecondStart
