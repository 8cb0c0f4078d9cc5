\* Three schemas, a crash and an SDL error anywhere.
SPECIFICATION Spec
CONSTANTS
  None = None
  s1 = s1
  s2 = s2
  s3 = s3
  b1 = b1
  b2 = b2
  PolicyTypes = {t1}
  Instances = {i1}
  Handlers = {h1}
  Statuses = {"OK", "DELETED"}
  Schemas = {s1, s2, s3}
  Bodies = {b1, b2}
  Conforms <- MCConforms
  Deleters = {d1}
  MaxCrashes = 1
  MaxFaults = 1
INVARIANTS TypeOK UpdateResets ToldLatest ChecksHold InstancesConform
PROPERTIES RegistrySpec
