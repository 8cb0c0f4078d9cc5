SPECIFICATION FairSpec
CONSTANTS
  p1 = p1  p2 = p2  e1 = e1  e2 = e2  s1 = s1  s2 = s2
  NoJob = NoJob
  PolicyJobs = {p1}
  EiJobs = {e1, e2}
  BadJobs = {e2}
  Senders = {s1, s2}
  MsgTypes <- NoTypes
  MaxBatch = 0
  MaxFound = 0
  RetryTimes = 2
INVARIANTS TypeOK HandedOnce QueuesKeepOrder
PROPERTIES JobsHandled
