SPECIFICATION Spec
CONSTANTS
  INT_MAX = 4095
  INT16_MAX = 2047
  Kilo = 10
  KnotInMetres = 51
  KnotInKm = 18
  DegreeScale = 10
  MaxSatsGsv = 4
  MaxSatsGsa = 12
  MaxModes = 3
  MaxPayload = 3
  Inputs <- Signals
INVARIANT SignalIdAfterBlocks
CHECK_DEADLOCK FALSE
