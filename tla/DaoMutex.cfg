SPECIFICATION FairSpec
CONSTANTS
  h = h
  m = m
  l = l
  None = None
  Threads = {h, m, l}
  HogSets = {{}, {m}}
  BasePrio <- PrioHML
INVARIANTS
  TypeOK
  OwnerConsistent
  WaitersCounted
  NoLostWakeup
  PriorityRestored
  NoInversionByOne
PROPERTIES
  ImplementsAtonLock
  LockMakesProgress
  MostUrgentServed
