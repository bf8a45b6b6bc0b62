SPECIFICATION Spec
CONSTANTS
  p1 = p1  p2 = p2
  hello = hello
  c1 = c1
  Players <- TwoPlayers
  Muted = {}
  Texts = {hello}
  Blocked = {}
  Channels = {c1}
  ChannelOf <- Combined
  RelayDirect = TRUE
  DedupWindow = 1
  RetryWindow = 2
  PendingCap = 2
  Replies = {"created", "refused"}
  MaxMessages = 2
  MaxTime = 1
  MaxReloads = 0
  MaxStarts = 1
INVARIANT QueuedWhileCreating
CHECK_DEADLOCK FALSE
