SPECIFICATION Spec
CONSTANTS
  Regs <- MCRegs
  Programs <- Opaque
  Kernal <- MCKernal
  MaxDepth = 2
INVARIANT OpaqueCovered
CHECK_DEADLOCK FALSE
