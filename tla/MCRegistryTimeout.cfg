\* The lock as its users see it when one call times out.
CONSTANTS
  p1 = p1
  p2 = p2
  p3 = p3
  NoProc = NoProc
  NoEntry = NoEntry
  NoCall = NoCall
  NoKey = NoKey
  ProcId <- ProcPair
  ClientId <- ProcPair
  KeyId = {k1}
  MaxOutstanding = 12
  Timeouts = 1
  Leaves = 0
  Disciplined = TRUE
  Asks = FALSE
  MaxUnread = 3
SPECIFICATION Spec
INVARIANT ClientExclusion
SYMMETRY PairSymmetry
VIEW StateButReply
CHECK_DEADLOCK FALSE
