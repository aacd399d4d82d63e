SPECIFICATION Spec
CONSTANTS
  MaxPrn = 16
  MaxActive = 3
  MaxInView = 2
  Day = 6
  Rollover = 4
  Default = 1
  Thresholds = {1}
  GsaSentences <- NoSentences
  GsvSentences <- NumberedGsv
  Lags = {0}
  MaxGap = 2
  Start = 3
  MaxNow = 4
PROPERTIES FullSequencePublished
CHECK_DEADLOCK TRUE
