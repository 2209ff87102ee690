SPECIFICATION Spec
CONSTANTS
  Programs <- MCPrograms
  MaxSkip = 2
  MaxWalkSteps = 60
  MaxPlaDepth = 4
  MaxStack = 3
  MaxChain = 3
INVARIANT
  TransformsInOrder
CHECK_DEADLOCK FALSE
