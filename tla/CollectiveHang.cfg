SPECIFICATION Spec
CONSTANTS
  Party = {1, 2, 3}
  Program <- Echo
  Hash = {"x", "y"}
  Inconsistent = {1}
  LossOnClose = FALSE
  None = None
  Absent = Absent
  Vacant = Vacant
PROPERTIES
  EnsureReturns
CHECK_DEADLOCK FALSE
