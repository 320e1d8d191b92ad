CONSTANT
  OsBlocks = 3
SPECIFICATION InstallSpec
INVARIANT ErasesOwnSaves
