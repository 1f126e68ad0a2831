SPECIFICATION Spec
CONSTANTS
  Frs = {1, 2, 3}
  Root = 5
  Names <- MCNames
  Dot = "."
  NoName = NoName
  CharsOf <- MCChars
  ExtOf <- MCExt
  TrigramsOf <- MCTrigrams
  CompactThreshold = 4
  FullPathThreshold = 2
  FreqFloor = 1
  Volumes <- MCVolumes
  MaxOps = 3
  MaxFaults = 0
INVARIANT PrunedTrigramsSkipped
CHECK_DEADLOCK FALSE
