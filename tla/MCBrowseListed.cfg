CONSTANTS
  GameSlots = 3
  SramSlots = 3
  HideEmpty = FALSE
  Codes = {0, 8}
SPECIFICATION BrowseSpec
INVARIANT LaunchesWhatIsListed
