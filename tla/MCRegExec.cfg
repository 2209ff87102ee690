SPECIFICATION Spec
CONSTANTS
  Regs <- MCRegs
  Programs <- MCPrograms
  Kernal <- MCKernal
  MaxDepth = 2
INVARIANTS
  ClobbersCover
  DefiniteInterface
  ClobbersLeast
CHECK_DEADLOCK FALSE
