CONSTANTS
  r1 = r1
  r2 = r2
  Requests = {r1, r2}
  k1 = k1
  k2 = k2
  Keys = {k1, k2}
  e1 = e1
  e2 = e2
  Entries = {e1, e2}
  MaxEntries = 2
  MaxCancels = 1
  None = None
  w1 = w1
  w2 = w2
  Writers = {w1, w2}
  MaxActive = 2
  Disk = 3
SPECIFICATION Spec
SYMMETRY Symmetry
INVARIANT TypeOK
INVARIANT KeyExclusive
INVARIANT PoolExact
INVARIANT OneOperation
INVARIANT SpaceKept
CHECK_DEADLOCK FALSE
