SPECIFICATION Spec
CONSTANTS
  Party = {1, 2, 3}
  Program <- Announce
  Hash = {"x"}
  Inconsistent = {}
  LossOnClose = TRUE
  None = None
  Absent = Absent
  Vacant = Vacant
PROPERTIES
  Held
CHECK_DEADLOCK FALSE
