SPECIFICATION Spec
CONSTANTS
  Programs <- MCProgramsEarly
  BlockSize = 4
INVARIANTS
  Computed
CHECK_DEADLOCK FALSE
