SPECIFICATION Spec
CONSTANTS
  i1 = i1  s1 = s1
  None = None
  Instances = {i1}
  Senders = {s1}
  DoQuery = TRUE
  MaxRequests = 2
  MaxWire = 2
  MaxKills = 1
INVARIANTS TypeOK QuietTruth
PROPERTIES SettlesInEffect
