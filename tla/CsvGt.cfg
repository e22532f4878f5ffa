SPECIFICATION Spec
CONSTANTS
  f = f
  g = g
  EOL = EOL
  Names = {f, g}
  Wanted = f
  Numbers <- SomeNumbers
  Cap = 6
  MaxGtBoxes = 1
  BoxFields = 2
  MaxFile = 8
CHECK_DEADLOCK FALSE
INVARIANTS
  LookupCorrect
  FoundImagesAreCounted
