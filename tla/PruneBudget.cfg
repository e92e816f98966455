SPECIFICATION JobsSpec
CONSTANTS
  SessionId = {s1}
  Block <- Mixed
  Budget = {1, 1025, 2048}
  Runner = {r1}
  Client = {t1}
  MaxLogLen = 3
  MaxJobs = 1
  NoJob = NoJob
CHECK_DEADLOCK FALSE
INVARIANT AtMostBudget
