SPECIFICATION FairSpec
CONSTANTS
  Names = {"orc", "elf"}
  App = {"orc"}
  NoName = "none"
  MaxText = 2
  MaxChanges = 1
  MaxRefreshes = 1
INVARIANTS
  SettledIsAccurate
  RoutedRight
  PrefixRenders
PROPERTY ChangesAreSeen
CHECK_DEADLOCK FALSE
