SPECIFICATION Spec
CONSTANTS
  Party = {1, 2, 3}
  Sender <- Two
  Capacity = 1
  Credit = 2
  Hash = {"x"}
  None = None
  Absent = Absent
  Vacant = Vacant
INVARIANTS
  TypeOK
  NothingLeft
PROPERTIES
  Termination
CHECK_DEADLOCK FALSE
