CONSTANTS
  r1 = r1
  r2 = r2
  r3 = r3
  Requests = {r1, r2, r3}
  k1 = k1
  k2 = k2
  Keys = {k1, k2}
  e1 = e1
  e2 = e2
  Entries = {e1, e2}
  MaxEntries = 1
  MaxCancels = 2
  None = None
SPECIFICATION LocksSpec
INVARIANT KeyExclusive
CHECK_DEADLOCK FALSE
