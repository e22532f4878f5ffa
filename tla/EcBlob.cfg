SPECIFICATION Spec
CONSTANTS
  Words = {1, 2, 3}
  Relocated = {1, 2}
  Original <- MCOriginal
  Modulus = 16
  Buffers = {0, 4, 6, 8}
  Sizes = {1, 2}
  InputSize = 2
  Alignment = 4
INVARIANTS
  BlobFollowsPrev
  RunUsesItsBuffer
PROPERTIES
  ProgramStaysInRun
