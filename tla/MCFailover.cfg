\* Two clients that keep to the protocol, a primary that exits after four
\* requests, up to three connections to either server; four calls with one
\* timeout or one order to stop, or without them two more once the primary has
\* ended: calls enough for a client to wait at the primary, be granted the
\* access there, change to the secondary with the release and ask again.
\* Everyone may have ended or be caught in a loop.
CONSTANTS
  c1 = c1
  c2 = c2
  c3 = c3
  NoProc = NoProc
  NoEntry = NoEntry
  NoCall = NoCall
  NoKey = NoKey
  ClientId <- ClientPair
  ProcId = {1, 2, 3}
  KeyId = {k1}
  PrimaryToken = 1000
  MaxOutstanding = 12
  ExitAfter = 4
  Timeouts = 1
  Stops = 1
  Calls = 6
SPECIFICATION Spec
INVARIANTS TypeOK MirrorIsPastPrimary HeldSurvivesExit ExclusionAcrossExit
SYMMETRY PairSymmetry
VIEW StateView
CONSTRAINTS Undecided OneFaultOrMoreCalls
CHECK_DEADLOCK FALSE
