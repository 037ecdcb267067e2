\* Safety, refinement and liveness: three processes, one key, up to two outstanding
\* requests (a writer behind readers, readers behind a writer, a batch of two).
\* In FairSpec every holder releases in the end. No symmetry, one property is
\* temporal.
CONSTANTS
  p1 = p1
  p2 = p2
  p3 = p3
  NoProc = NoProc
  NoEntry = NoEntry
  ProcId <- Procs
  KeyId = {k1}
  MaxOutstanding = 2
SPECIFICATION FairSpec
INVARIANTS TypeOK ExclusiveWriter IdleMeansNoWaiters ReadersWaitBehindWriter
PROPERTIES ImplementsFairLock GrantsNameCreator NoStarvation
