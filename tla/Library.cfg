SPECIFICATION LibrarySpec
CONSTANTS
  Bits = 2
  Poly = 7
  Chunk = 3
  K = 2
  M = 1
  Groups = 2
  Degree = 2
  MaxPackets <- Packets
  MaxAdds = 2
  LeafId = {a, b}
  MaxLeaves = 9
  Entity = {e1, e2, e3}
  RingBits = 3
  Golden = 5
  ZeckBits = 7
  Value = {0, 1, 2, 6, 12, 53, 88, 126}
  MaxPushes = 3
  ByteBase = 16
  U32 = 2
  U64 = 2
  U128 = 2
  IdLen = 2
  MAX_INLINE_PAYLOAD_BYTES = 2
  MAX_FRAME_COUNT = 2
  Frames <- FrameSet
  Blob <- Blobs
  MaxMissing = 3
  fountain_k = 2
  fountain_symbol_size = 3
  Thread = {t1, t2}
  Reference = {r1, r2}
  NoReference = none
  Level = {3, 19}
  Tiny = {small}
  Large = {big}
  MaxBlobs = 2
  p1 = p1  p2 = p2  p3 = p3  p4 = p4
  BlockId = {p1, p2, p3, p4}
  Session = {s1}
  PayloadLen <- Lengths
  Budgets <- MCBudgets
  Score <- MCScore
  Manifests <- MCManifests
  MaxLog = 3
  MaxClock = 6
  None = None
  SessionId = {s1}
  Block <- Mixed
  Budget = {1, 1025, 2048}
  Runner = {r1, r2}
  Client = {t1, t2}
  MaxLogLen = 3
  MaxJobs = 2
  NoJob = NoJob
CHECK_DEADLOCK FALSE
INVARIANTS
  RankIsDimension
  ContextRecovered
  CommitsToLog
  StaysInStep
  CodecsInvert
  BlobsComeBack
  GenerationsExact
  Accounting
  HighestSurvive
  WindowWithinBudget
  EachJobOnce
  FillsBudget
PROPERTIES
  KeysStayPut
