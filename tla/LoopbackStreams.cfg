SPECIFICATION LoopSpec
CONSTANTS
  Paths = 1
  ChanCap = 1
  Sinks = 2
  LoopThread = {1, 2}
  SinkOf <- OwnSink
  MaxFrames = 2
CHECK_DEADLOCK FALSE
INVARIANT StreamsKeptApart
