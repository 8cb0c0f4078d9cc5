SPECIFICATION FairSpec
CONSTANTS
  p1 = p1  p2 = p2  e1 = e1  e2 = e2  s1 = s1  s2 = s2
  NoJob = NoJob
  PolicyJobs = {p1}
  EiJobs = {}
  BadJobs = {}
  Senders = {s1}
  MsgTypes <- AllTypes
  MaxBatch = 2
  MaxFound = 2
  RetryTimes = 2
INVARIANTS BuffersFreed
PROPERTIES LoopKeepsRunning
