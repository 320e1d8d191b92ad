CONSTANTS
  Keys = {2, 3}
  Wrap = 4
  RepeatDelay = 1
  RepeatNext = 0
SPECIFICATION Spec
INVARIANT ListensBetweenUpdates
PROPERTIES ActsOncePerPress ReportsEveryPress WaitsForAFreshPress
