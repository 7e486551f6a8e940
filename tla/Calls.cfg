SPECIFICATION Spec
CONSTANTS
  Party = {1, 2, 3}
  Programs <- MCPrograms
  Requests <- MCRequests
  MaxFailures = 1
INVARIANTS
  TypeOK
  Exchanged
  FieldsAgree
  SizesChecked
  CallsAccepted
PROPERTIES
  Termination
CHECK_DEADLOCK FALSE
