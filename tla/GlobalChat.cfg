SPECIFICATION Spec
CONSTANTS
  Players = {"anduin", "thrall"}
  Team <- Teams
  Muted = {"thrall"}
  Installed = {"chat", "world"}
  Configs <- SomeConfigs
  Said <- SomeTexts
  BannedWords <- SomeBannedWords
INVARIANTS
  FollowsOptIn
  NothingComesBack
  FilterHolds
CHECK_DEADLOCK FALSE
