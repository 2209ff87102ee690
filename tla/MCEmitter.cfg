SPECIFICATION MCSpec
CONSTANTS
  Start = 0
  End = 5
  Layouts <- MCLayouts
  Data <- MCData
  FillThreshold = 4
  BytesPerLine = 4
  MinRows = 3
  Periods = {1, 2}
  Programs <- MCPrograms
  Inputs <- MCInputs
  Enum <- MCEnum
  Size = 8
  BitAnd <- MCBitAnd
  BitXor <- MCBitXor
  Samples = {0, 5}
INVARIANTS
  ByteExact
  SegmentsBracketed
  LabelsInScope
  HintsDecodePrevious
  Reproduces
  ConditionTrue
  NamesProven
CHECK_DEADLOCK FALSE
