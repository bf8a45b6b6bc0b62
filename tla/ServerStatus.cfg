SPECIFICATION Spec
CONSTANTS
  Interval = 2
  ConfigId = 0
  MaxPosts = 4
  MaxReloads = 2
  MaxRestarts = 2
INVARIANTS
  OneMessageWhenPrompt
  MemoryMatchesWithoutReload
  EditsWhatExists
CHECK_DEADLOCK FALSE
