SPECIFICATION FairSpec
CONSTANTS
  p1 = p1
  p2 = p2
  hello = hello
  c1 = c1
  Players <- TwoPlayers
  Muted = {p2}
  Texts = {hello}
  Blocked = {}
  Channels = {c1}
  ChannelOf <- Combined
  RelayDirect = TRUE
  DedupWindow = 1
  RetryWindow = 1
  PendingCap = 2
  Replies = {"created", "refused", "garbage", "dropped"}
  MaxMessages = 3
  MaxTime = 1
  MaxReloads = 1
  MaxStarts = 2
INVARIANTS
  HeldBackIsDue
  OrderKept
PROPERTIES
  WaitingIsFlushed
  ImplementsChatRelay
CHECK_DEADLOCK FALSE
