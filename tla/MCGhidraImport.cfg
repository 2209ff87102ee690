SPECIFICATION Spec
CONSTANTS
  Addr <- MCAddr
  Code <- MCCode
  NoCode = NoCode
  NoData = NoData
  StructLen = 2
  Malformed = Malformed
  Landmarks = {0, 11}
  StateLabels = {22}
  Segments <- MCSegments
  Bands = {0, 19}
  Inputs <- MCInputs
  Unreadable = {15}
  MaxDecompile = 1
  MaxRuns = 2
INVARIANTS
  CataloguesExact
  TargetsCurrent
  EquatesTrue
  StructsShown
  
PROPERTIES
  InstructionsKept
  StructsLast
CHECK_DEADLOCK FALSE
