SPECIFICATION Spec
CONSTANTS
  MaxPrn = 16
  MaxActive = 3
  MaxInView = 2
  Day = 6
  Rollover = 4
  Default = 1
  Thresholds = {0, 1}
  GsaSentences <- MixedGsa
  GsvSentences <- NumberedGsv
  Lags = {0}
  MaxGap = 2
  Start = 3
  MaxNow = 8
INVARIANTS TypeOK ListIsTheCycle
PROPERTIES NothingDropped BurstsAreNotMerged PublishedWhenOver KeepsPromises
           ViewIsTheSequence
CONSTRAINT OneListAtATime
CHECK_DEADLOCK TRUE
