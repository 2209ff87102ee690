SPECIFICATION MCSpec
CONSTANTS
  MaxEdits = 1
  MaxRuns = 3
  MaxFetches = 3
  MaxCrashes = 2
INVARIANTS
  ListingCurrent
  VerifySound
  CleanRecovers
  SuccessIsGood
  FailuresExplained
  SweepBootsUpstream
CHECK_DEADLOCK FALSE
