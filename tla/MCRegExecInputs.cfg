SPECIFICATION Spec
CONSTANTS
  Regs <- MCRegs
  Programs <- Conditional
  Kernal <- MCKernal
  MaxDepth = 2
INVARIANT InputsCover
CHECK_DEADLOCK FALSE
