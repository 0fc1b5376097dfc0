CONSTANTS
  p1 = p1
  p2 = p2
  Parts = {p1, p2}
  a = a
  b = b
  Content = {a, b}
  w1 = w1
  w2 = w2
  Writers = {w1, w2}
  c1 = c1
  c2 = c2
  Completers = {c1, c2}
  Maint = Maint
  None = None
  Bad = Bad
  MaxCrashes = 2
  MaxFaults = 1
  MaxDamage = 2
SPECIFICATION Spec
SYMMETRY Symmetry
INVARIANT TypeOK
INVARIANT PublishedWhole
INVARIANT ConfirmedOnDisk
INVARIANT WriterUndisturbed
INVARIANT ExpiredQuiet
PROPERTY PromiseKept
