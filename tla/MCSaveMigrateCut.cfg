\* The start is over.
CHECK_DEADLOCK FALSE
CONSTANTS
  SramSlots = 15
  MaxCuts = 1
SPECIFICATION MigrateSpec
INVARIANT SurvivesPowerCuts
