SPECIFICATION FairSpec
CONSTANTS
  r1 = r1
  r2 = r2
  none = none
  NoName = none
  Names = {r1, r2}
  Taken = {r1}
  Setups = {"slash", "game"}
  Delay = 1
  Wrap = 2
  MaxRefreshes = 1
INVARIANTS
  SummaryTruthful
  NoDuplicateRoles
PROPERTIES
  Paced
  ImplementsRoleLedger
  Finishes
CHECK_DEADLOCK FALSE
