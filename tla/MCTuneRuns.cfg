SPECIFICATION Spec
CONSTANTS
  Names <- MCNames
  Workers = 2
  BasePort = 6502
  Plain <- MCPlain
  DiskActions <- MCDisk
  Spans = 1
  Pcs <- MCPcs
INVARIANTS
  PortsHeld
  StateDirsCleaned
  TunesWhole
  ResultsKept
PROPERTY
  AllAnswered
CHECK_DEADLOCK FALSE
