\* The waiters of a key when a client that holds it ends.
CONSTANTS
  p1 = p1
  p2 = p2
  p3 = p3
  NoProc = NoProc
  NoEntry = NoEntry
  NoCall = NoCall
  NoKey = NoKey
  ProcId <- ProcPair
  ClientId <- ProcPair
  KeyId = {k1}
  MaxOutstanding = 12
  Timeouts = 0
  Leaves = 1
  Disciplined = TRUE
  Asks = FALSE
  MaxUnread = 3
SPECIFICATION FairSpec
PROPERTY WaitersAreServed
CHECK_DEADLOCK FALSE
