SPECIFICATION Spec
CONSTANTS
  Party = {1, 2, 3}
  Program <- Echo
  Hash = {"x", "y"}
  Inconsistent = {1}
  LossOnClose = TRUE
  None = None
  Absent = Absent
  Vacant = Vacant
INVARIANTS
  ClosedAgree
PROPERTIES
  Exchanges
CHECK_DEADLOCK FALSE
