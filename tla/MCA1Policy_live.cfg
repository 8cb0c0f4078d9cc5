\* Two delete threads for one instance and a crash.
SPECIFICATION FairSpec
CONSTANTS
  None = None
  s1 = s1
  s2 = s2
  s3 = s3
  b1 = b1
  b2 = b2
  PolicyTypes = {t1}
  Instances = {i1}
  Handlers = {h1}
  Statuses = {"OK"}
  Schemas = {s2}
  Bodies = {b2}
  Conforms <- MCConforms
  Deleters = {d1, d2}
  MaxCrashes = 1
  MaxFaults = 0
INVARIANTS DeletionPending
PROPERTIES DeletedEventuallyGone RequestsAnswered
