CONSTANTS
  MaxLen = 10
  HdrLen = 2
  RingSize = 30
  Chunks = {1}
  MaxStream = 29
  Plans <- AllPlans
  MayConfigure = FALSE
SPECIFICATION FairSpec
INVARIANTS StreamInv IndicesInBuffer CompletedAreSentences AllSentencesCompleted Resynchronises
PROPERTIES WorkReturns EverythingProcessed
