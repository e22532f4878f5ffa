SPECIFICATION Spec
CONSTANTS
  h = h
  m = m
  l = l
  None = None
  Threads = {h, m, l}
  HogSets = {{}}
  BasePrio <- PrioHML
INVARIANTS
  NoInversion
