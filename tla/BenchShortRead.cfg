SPECIFICATION Spec
CONSTANTS
  f1 = f1
  f2 = f2
  f3 = f3
  d = d
  None = None
  Files = {f1, f2, f3}
  Dirs = {d}
  Times = {0, 2, 3}
  OtherRows = 1
  MayBeShort = TRUE
CHECK_DEADLOCK FALSE
INVARIANTS
  ScoresOwnImage
