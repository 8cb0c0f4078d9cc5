\* Requests for an instance while a delete thread removes it.
SPECIFICATION Spec
CONSTANTS
  None = None
  s1 = s1
  s2 = s2
  s3 = s3
  b1 = b1
  b2 = b2
  PolicyTypes = {t1}
  Instances = {i1}
  Handlers = {h1}
  Statuses = {"OK", "ERROR", "DELETED"}
  Schemas = {s2}
  Bodies = {b1, b2}
  Conforms <- MCConforms
  Deleters = {d1}
  MaxCrashes = 0
  MaxFaults = 0
INVARIANTS InstanceRepliesDocumented
