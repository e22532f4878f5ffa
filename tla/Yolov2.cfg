SPECIFICATION Spec
CONSTANTS
  NbBoxes = 4
  NbClasses = 1
  MaxBoxes = 2
  MaxScore = 2
CHECK_DEADLOCK FALSE
INVARIANTS
  DecodedInPlace
  FitsBuffer
  ResultsDisjoint
  LeftOutForBetter
