SPECIFICATION FairSpec
CONSTANTS
  Workers = {w1}
  Sweeper = sweeper
  NoThread = none
  MaxSnaps = 2
  MaxTime = 1
  MaxCrashes = 1
  Faults = {"createFails", "helperDies", "diesEarly", "readFails"}
INVARIANT TypeOK
INVARIANT TerminalIsGone
INVARIANT NoOrphans
PROPERTY TerminalIsFinal
PROPERTY LockIsFreed
PROPERTY SnapshotsAreFreed
CHECK_DEADLOCK FALSE
