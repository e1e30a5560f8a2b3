SPECIFICATION Spec
CONSTANTS
  r1 = r1
  r2 = r2
  d1 = d1
  d2 = d2
  f1 = f1
  f2 = f2
  a = a
  b = b
  Theme = {t1}
  Default = Default
  Dir = {d1, d2}
  NoDir = NoDir
  RowId = {a, b}
  Request = {r1, r2}
  Fetch = {f1, f2}
  MaxOps = 2
  MaxFaults = 1
INVARIANTS TypeOK DirsMatchRows ActiveIsInstalled EtagFaithful ScreenCurrent
SYMMETRY Symmetric
CHECK_DEADLOCK FALSE
