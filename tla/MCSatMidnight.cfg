SPECIFICATION Spec
CONSTANTS
  MaxPrn = 16
  MaxActive = 3
  MaxInView = 2
  Day = 6
  Rollover = 4
  Default = 1
  Thresholds = {1}
  GsaSentences <- TwoGsa
  GsvSentences <- NoSentences
  Lags = {0}
  MaxGap = 2
  Start = 3
  MaxNow = 8
PROPERTIES PublishedOnlyWhenOver
CHECK_DEADLOCK TRUE
