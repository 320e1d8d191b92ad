\* The start is over.
CHECK_DEADLOCK FALSE
CONSTANTS
  SramSlots = 15
  MaxCuts = 2
SPECIFICATION MigrateSpec
INVARIANTS MovesEverything OthersUntouched
