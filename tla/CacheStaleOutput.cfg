SPECIFICATION CacheSpec
CONSTANTS
  NumberOutput = 0
  Samples = 3
CHECK_DEADLOCK FALSE
INVARIANTS
  OutputIsFresh
