\* The answer to a first reader.
CONSTANTS
  p1 = p1
  p2 = p2
  p3 = p3
  NoProc = NoProc
  NoEntry = NoEntry
  ProcId <- ProcPair
  KeyId = {k1}
  MaxOutstanding = 1
SPECIFICATION Spec
PROPERTY ReadNamesProcessWithData
