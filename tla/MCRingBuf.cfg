CONSTANTS
  Size = 4
  MaxBytes = 8
  Lens <- MCLens
  Offsets <- MCOffsets
SPECIFICATION ObsSpec
INVARIANTS TypeOK NoSlotRace StaleIndicesAreSafe ReadsNextBytes IInv OwnSideIsConservative
PROPERTY ImplementsByteQueue
