\* Safety without faults: three clients whose owners make any calls. Calls that
\* wait for an access their own client holds never return, so the system may stop.
CONSTANTS
  p1 = p1
  p2 = p2
  p3 = p3
  NoProc = NoProc
  NoEntry = NoEntry
  NoCall = NoCall
  NoKey = NoKey
  ProcId <- Procs
  ClientId <- Procs
  KeyId = {k1}
  MaxOutstanding = 12
  Timeouts = 0
  Leaves = 0
  Disciplined = FALSE
  Asks = FALSE
  MaxUnread = 3
SPECIFICATION Spec
INVARIANTS TypeOK ClientExclusion NoLeakedAccess GrantsReachWaiters
SYMMETRY ProcSymmetry
VIEW StateButReply
CHECK_DEADLOCK FALSE
