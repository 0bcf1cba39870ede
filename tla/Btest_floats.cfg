SPECIFICATION Spec
CONSTANTS
  CommandLines <- FloatLines
  AllFunctions = AllFunctions
  TEST_RANGE = 10
  SQRT_RANGE = 3
  CBRT_RANGE = 1
  Random <- MCRandom
  MaxTimeouts = 0
INVARIANT PuzzlesRight
CHECK_DEADLOCK FALSE
