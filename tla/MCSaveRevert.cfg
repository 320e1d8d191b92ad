\* No step is possible once error_critical has stopped the program.
CHECK_DEADLOCK FALSE
CONSTANTS
  Size <- MCSize
  Blank <- MCBlank
  Torn <- MCTorn
  Junk <- MCJunk
  NoBlock <- MCNoBlock
  FirstBootBlock <- MCFirstBootBlock
  SramAtStart <- MCSramAtStart
  Values <- OneValue
  Blocks <- OneBlock
  Content <- OneContent
  NorAtStart <- OneNor
  Launchable <- Singles
  Unmapped <- OneUnmapped
  MaxRuns = 3
  MaxEdits = 1
  MaxLapses = 1
SPECIFICATION RSpec
PROPERTY UnloadedDataStays
