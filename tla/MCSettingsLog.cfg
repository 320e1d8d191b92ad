CONSTANTS
  LastSlot = 2
  ABlock = ABlock
  FirstBoot = FirstBoot
  NoBlock = NoBlock
  DefaultPrefs = DefaultPrefs
  CutPrefs = CutPrefs
  Blank = Blank
  PartMagic = PartMagic
  TooNew = TooNew
  Garbage = Garbage
  Actives <- MCActives
  Prefs <- MCPrefs
SPECIFICATION Spec
INVARIANTS
  LoadsWhatWasSaved
  ProgramsFreeSlot
  KeepsLastUntilWritten
  BootsWhereSettingsAre
PROPERTY PowerCutIsContained
