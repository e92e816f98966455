SPECIFICATION TransportSpec
CONSTANTS
  Sender = {s1, s2}
  Window = 2
  MaxTake = 2
  Aims = {1, 3}
  MaxAims = 2
  Stages = 3
  Cap = 1
  MaxBatch = 8
  MaxRuns = 2
  MaxPanics = 1
  None = None
  Paths = 2
  ChanCap = 1
  Sinks = 1
  LoopThread = {t1, t2}
  SinkOf <- OneSink
  MaxFrames = 6
  Rate = {0, 1, 3, 4}
  Rtt = {0, 1, 2, 4}
  Infinite = 1000
  Elapsed = {1, 3}
  RttAge = 5
  ProbeTime = 2
CHECK_DEADLOCK FALSE
INVARIANTS
  NeverOversold
  NothingWithheld
  OwnBatchInOrder
  SpreadEvenly
PROPERTIES
  ActsAtOnce
  RunReturns
  ProbesAgain
