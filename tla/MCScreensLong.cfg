CONSTANTS
  Menus <- LongMenus
  MaxName = 1
SPECIFICATION ScreensSpec
INVARIANT FontStaysInstalled
