SPECIFICATION LoadSpec
CONSTANTS
  A = A
  B = B
  p = p
  x = x
  y = y
  Loads = {"crashes", "faults"}
  Session = {A, B}
  BlockId = {p, x, y}
  Thread = {t1, t2}
  Frames <- AllFrames
  SyncWal = TRUE
  MaxWal = 4
  MaxFaults = 2
  MaxCrashes = 2
SYMMETRY ThreadSymmetry
INVARIANT TypeOK
INVARIANT MissingIsPending
INVARIANT AckHasContent
INVARIANT ReplayFaithful
INVARIANT DurableAck
CHECK_DEADLOCK FALSE
