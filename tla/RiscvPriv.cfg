SPECIFICATION Spec
CONSTANTS
  N = 2
  Or <- MCOr
  TIME = 8
  Phys = {0, 1, 2, 3, 4, 5, 6}
  Tables <- MCTables
  Boots <- MCBoots
  BitOps <- MCBitOps
  Roots = {0}
  Bare = Bare
  Code = {0, 5}
  Data = {1, 2, 5}
  Ptes <- MCPtes
  Deadlines = {4}
  MaxCycles = 4
INVARIANT TypeOK
INVARIANT TrapFrame
INVARIANT IrqPrompt
PROPERTY TrapReturns
PROPERTY AccessIsMapped
CHECK_DEADLOCK FALSE
