SPECIFICATION FairSpec
CONSTANTS
  Start = 0
  End = 10
  Inputs <- MCInputs
  IoBand <- MCIoBand
  SmcHosts = {}
INVARIANTS
  TriageExplains
PROPERTIES
  FallInWrittenOnce
  ImplementsClosure
CHECK_DEADLOCK FALSE
