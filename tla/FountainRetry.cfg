SPECIFICATION Spec
CONSTANTS
  K = 3
  MaxSymbols = 4
  MaxFrames = 2
  None = None
  Taken = Taken
INVARIANTS
  DecodesExactly
CHECK_DEADLOCK FALSE
