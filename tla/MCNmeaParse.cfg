SPECIFICATION Spec
CONSTANTS
  INT_MAX = 4095
  INT16_MAX = 2047
  Kilo = 10
  KnotInMetres = 51
  KnotInKm = 18
  DegreeScale = 10
  MaxSatsGsv = 4
  MaxSatsGsa = 4
  MaxModes = 3
  MaxPayload = 3
  Inputs <- MCInputs
INVARIANTS TypeOK FieldsAreTheText NumbersAreExact IntegersAreExact TimesAreExact
           SatellitesAreOfTheirBlocks LettersAreOfTheirFields ListsAreOfTheirFields
           YearIsOfLastZda
           SpeedsAreConverted DegreesAreSexagesimal ArithmeticIsExact
CHECK_DEADLOCK FALSE
