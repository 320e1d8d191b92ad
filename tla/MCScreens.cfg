CONSTANTS
  Menus <- ShortMenus
  MaxName = 2
SPECIFICATION ScreensSpec
INVARIANTS CursorVisible ShowsTheList ShowsWhatIsTyped OneKeyDestroysNothing
PROPERTY StoresWhatIsShown
