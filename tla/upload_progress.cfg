CONSTANTS
  c1 = c1
  Chunks = {c1}
  Flush = Flush
  r1 = r1
  r2 = r2
  Requests = {r1, r2}
  MaxOps = 3
SPECIFICATION Spec
SYMMETRY Symmetry
INVARIANT TypeOK
INVARIANT UnmutedUnlessAborted
PROPERTY CloseFlushes
PROPERTY QuietAfterChange
CHECK_DEADLOCK FALSE
