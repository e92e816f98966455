SPECIFICATION FairChatSpec
CONSTANTS
  m1 = m1
  m2 = m2
  m3 = m3
  Conv = Conv
  Session = {Conv}
  BlockId = {m1, m2, m3}
  Thread = {t1, t2}
  Frames = {}
  Turns <- TwoTurns
  GenBlocks = 1
  SyncWal = TRUE
  MaxWal = 20
  MaxFaults = 0
  MaxCrashes = 1
  MaxAbandon = 1
  MaxRebuilds = 1
CHECK_DEADLOCK FALSE
INVARIANTS
  HistoryIsPrefix
  SettledBase
  ChatAckExpected
PROPERTIES
  TurnsGetThrough
