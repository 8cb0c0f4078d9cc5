SPECIFICATION Spec
CONSTANTS
  a = a  b = b  s1 = s1  s2 = s2
  None = None  NotInt = NotInt
  MaxTypeId = 1
  Schemas = {a, b}
  Unquotable = {b}
  Slots = {s1, s2}
INVARIANTS CreateRightAnswer
