SPECIFICATION FairSpec
CONSTANTS
  MaxStarts = 2
  MaxHandovers = 1
  MaxFaults = 1
  Procs <- MCProcs
  ChildIsSlow = TRUE
INVARIANTS
  TypeOK
  OwnersExclude
PROPERTIES
  RelaunchOnlyKilled
  KilledComesBack
CHECK_DEADLOCK FALSE
