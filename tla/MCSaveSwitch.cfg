\* No step is possible once error_critical has stopped the program.
CHECK_DEADLOCK FALSE
CONSTANTS
  Size <- MCSize
  Blank <- MCBlank
  Torn <- MCTorn
  Junk <- MCJunk
  NoBlock <- MCNoBlock
  FirstBootBlock <- MCFirstBootBlock
  SramAtStart <- MCSramAtStart
  Values <- OneValue
  Blocks <- TwoBlocks
  Content <- TwoContent
  NorAtStart <- TwoNor
  Launchable <- Mixed
  Unmapped <- OneUnmapped
  MaxRuns = 2
  MaxEdits = 1
  MaxLapses = 1
SPECIFICATION Spec
INVARIANTS
  GameOwnsSram
  BackupOfRemembered
  CrashSafeBackup
  HaltsOnlyOnTornRecord
  ProgramsOnlyBlank
PROPERTY StoreSpec
