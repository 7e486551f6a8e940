SPECIFICATION Spec
CONSTANTS
  Party = {1, 2, 3}
  Programs <- MCPrograms
  Requests <- MCRequests
  MaxFailures = 0
INVARIANTS
  AllToAllHolds
CHECK_DEADLOCK FALSE
