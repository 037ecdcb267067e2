\* The grants of waiting readers when the creator of the key has left.
CONSTANTS
  p1 = p1
  p2 = p2
  p3 = p3
  NoProc = NoProc
  NoEntry = NoEntry
  NoCall = NoCall
  NoKey = NoKey
  ProcId <- Procs
  ClientId <- Procs
  KeyId = {k1}
  MaxOutstanding = 12
  Timeouts = 0
  Leaves = 1
  Disciplined = TRUE
  Asks = FALSE
  MaxUnread = 3
SPECIFICATION Spec
INVARIANT GrantsReachWaiters
SYMMETRY ProcSymmetry
VIEW StateButReply
CHECK_DEADLOCK FALSE
