SPECIFICATION Spec
CONSTANTS
  r1 = r1
  r2 = r2
  none = none
  NoName = none
  Names = {r1, r2}
  Taken = {}
  Setups = {"slash", "game"}
  Delay = 1
  Wrap = 2
  MaxRefreshes = 1
PROPERTY CreatesMissingOnly
CHECK_DEADLOCK FALSE
