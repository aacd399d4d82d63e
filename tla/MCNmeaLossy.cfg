CONSTANTS
  MaxLen = 10
  HdrLen = 2
  RingSize = 5
  Chunks = {4, 5}
  MaxStream = 20
  Plans <- DatedPlans
  MayConfigure = TRUE
SPECIFICATION Spec
INVARIANTS TypeOK CompletedInOrder CompletedAreSentences CenturyIsLastZda
