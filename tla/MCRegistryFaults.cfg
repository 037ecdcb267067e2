\* Three clients that keep to the protocol, one timeout and one client that
\* ends: two stay in sync beside a third that has given up a call, and whose
\* stale answers, grants and coalesced requests are dealt with beside them.
CONSTANTS
  p1 = p1
  p2 = p2
  p3 = p3
  NoProc = NoProc
  NoEntry = NoEntry
  NoCall = NoCall
  NoKey = NoKey
  ProcId <- Procs
  ClientId <- Procs
  KeyId = {k1}
  MaxOutstanding = 12
  Timeouts = 1
  Leaves = 1
  Disciplined = TRUE
  Asks = FALSE
  MaxUnread = 2
SPECIFICATION Spec
INVARIANTS InSyncBeliefsAreTrue InSyncExclusion
CONSTRAINTS ConnectedFirst InSyncPairLeft
SYMMETRY ProcSymmetry
VIEW StateButReply
CHECK_DEADLOCK FALSE
