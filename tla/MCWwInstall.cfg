CONSTANT
  OsBlocks = 3
SPECIFICATION InstallSpec
PROPERTIES InstallsWhatWasAsked CutOffIsNotListed
