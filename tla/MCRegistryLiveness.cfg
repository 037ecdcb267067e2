\* Liveness without faults: owners keep to the protocol and release what they
\* hold. No symmetry and no view, the property is temporal. An owner with nothing
\* to do may stop calling, so the system may stop.
CONSTANTS
  p1 = p1
  p2 = p2
  p3 = p3
  NoProc = NoProc
  NoEntry = NoEntry
  NoCall = NoCall
  NoKey = NoKey
  ProcId <- ProcPair
  ClientId <- ProcPair
  KeyId = {k1}
  MaxOutstanding = 12
  Timeouts = 0
  Leaves = 0
  Disciplined = TRUE
  Asks = TRUE
  MaxUnread = 3
SPECIFICATION FairSpec
PROPERTY CallsReturn
CHECK_DEADLOCK FALSE
