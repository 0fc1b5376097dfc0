CONSTANTS
  p1 = p1
  Parts = {p1}
  a = a
  Content = {a}
  w1 = w1
  w2 = w2
  Writers = {w1, w2}
  c1 = c1
  Completers = {c1}
  Maint = Maint
  None = None
  Bad = Bad
  MaxCrashes = 2
  MaxFaults = 2
  MaxDamage = 0
SPECIFICATION FairSpec
PROPERTY DueUnlessImported
PROPERTY TemporaryRemoved
