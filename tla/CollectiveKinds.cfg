SPECIFICATION Spec
CONSTANTS
  Party = {1, 2, 3}
  Program <- Kinds
  Hash = {"x"}
  Inconsistent = {}
  LossOnClose = FALSE
  None = None
  Absent = Absent
  Vacant = Vacant
INVARIANTS
  TypeOK
PROPERTIES
  Exchanges
  Termination
CHECK_DEADLOCK FALSE
