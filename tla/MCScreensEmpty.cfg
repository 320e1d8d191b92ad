CONSTANTS
  Menus <- EmptyMenus
  MaxName = 1
SPECIFICATION ScreensSpec
INVARIANT SelectsListedLine
