\* The lock as its users see it after a failover, without timeouts.
CONSTANTS
  c1 = c1
  c2 = c2
  c3 = c3
  NoProc = NoProc
  NoEntry = NoEntry
  NoCall = NoCall
  NoKey = NoKey
  ClientId <- ClientPair
  ProcId = {1, 2, 3}
  KeyId = {k1}
  PrimaryToken = 1000
  MaxOutstanding = 12
  ExitAfter = 1
  Timeouts = 0
  Stops = 0
  Calls = 5
SPECIFICATION Spec
INVARIANT ClientExclusion
SYMMETRY PairSymmetry
VIEW StateView
CHECK_DEADLOCK FALSE
