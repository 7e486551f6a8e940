SPECIFICATION Scheduled
CONSTANTS
  Party = {1, 2, 3}
  Sender <- Crossed
  Capacity = 10
  Credit = 100
  Hash = {"x"}
  None = None
  Absent = Absent
  Vacant = Vacant
PROPERTIES
  AllHeld
CHECK_DEADLOCK FALSE
