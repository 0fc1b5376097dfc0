CONSTANTS
  p1 = p1
  Parts = {p1}
  a = a
  Content = {a}
  w1 = w1
  Writers = {w1}
  c1 = c1
  Completers = {c1}
  Maint = Maint
  None = None
  Bad = Bad
  MaxCrashes = 1
  MaxFaults = 1
  MaxDamage = 0
SPECIFICATION FairSpec
PROPERTY DueResolved
