\* Client 1 of bin/client.rs and two clients 2, one timeout. The system stops when the programs
\* have ended, or with a reader that is never answered. No symmetry and no view,
\* one property is temporal.
CONSTANTS
  p1 = p1
  p2 = p2
  p3 = p3
  NoProc = NoProc
  NoEntry = NoEntry
  NoCall = NoCall
  NoKey = NoKey
  NoData = NoData
  ProcId <- Procs
  ClientId <- Procs
  Creator = p1
  KeyId = {k1}
  MaxOutstanding = 12
  Timeouts = 1
  Leaves = 3
  Disciplined = FALSE
  Asks = FALSE
  MaxUnread = 3
SPECIFICATION SharingSpec
INVARIANTS DataTypeOK CopiesAreFresh
PROPERTY ProgramsEnd
CHECK_DEADLOCK FALSE
