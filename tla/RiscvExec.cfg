SPECIFICATION Spec
CONSTANTS
  BYTE = 1
  XLEN = 4
  MAX_MEM_REGIONS = 2
  Regs = {0, 1, 2, 5}
  Scenarios <- MCScenarios
INVARIANT Arithmetic
INVARIANT DecodesOneWay
PROPERTY FlatMemory
CHECK_DEADLOCK FALSE
