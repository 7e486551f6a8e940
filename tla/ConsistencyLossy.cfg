SPECIFICATION Spec
CONSTANTS
  p1 = p1
  p2 = p2
  p3 = p3
  k1 = k1
  Party = {p1, p2, p3}
  Key = {k1}
  Receivers <- One
  Hash = {"x", "y"}
  Inconsistent = {k1}
  MaxFailures = 1
  None = None
  Absent = Absent
  Vacant = Vacant
SYMMETRY Symmetry
INVARIANTS
  TypeOK
  Agreement
  ChecksExpected
  NothingOwed
  NoStrandedWaiter
CHECK_DEADLOCK FALSE
