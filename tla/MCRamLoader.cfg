\* The transfer ends; and without timeouts, both sides may wait for ever.
CHECK_DEADLOCK FALSE
CONSTANTS
  Files <- MCFiles
  DataLen = 2
  MaxRetry = 4
  Lines <- MCLines
  HeaderLen = 1
  LoadMin = 2
  LoadMax = 9
  RamEnd = 11
  SramBlocks = 4
SPECIFICATION LoaderSpec
INVARIANTS
  ReceivesInOrder
  SenderNotAhead
  LaunchesTheFile
  StaysInRoom
PROPERTY Completes
