SPECIFICATION SidecarSpec
CONSTANTS
  A = A
  B = B
  C = C
  x = x
  y = y
  z = z
  w = w
  Session = {A, B, C}
  BlockId = {x, y, z, w}
  Thread = {t1, t2}
  Frames <- Rewinds
  ChatFrames <- Chats
  Conversation <- Talks
  CacheSessions = 2
  CacheBytes = 2
  SyncWal = TRUE
  MaxWal = 3
  MaxFaults = 0
  MaxCrashes = 1
SYMMETRY ThreadSymmetry
CHECK_DEADLOCK FALSE
INVARIANTS
  CacheAccounts
  UpstreamMatchesAck
  UpstreamIsHistory
