SPECIFICATION LoadSpec
CONSTANTS
  A = A
  B = B
  p = p
  x = x
  y = y
  Loads = {"shared"}
  Session = {A, B}
  BlockId = {p, x, y}
  Thread = {t1, t2}
  Frames <- AllFrames
  SyncWal = TRUE
  MaxWal = 4
  MaxFaults = 0
  MaxCrashes = 0
SYMMETRY ThreadSymmetry
INVARIANT ReplayFaithful
CHECK_DEADLOCK FALSE
