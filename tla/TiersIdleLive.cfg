SPECIFICATION FairSpec
CONSTANTS
  C = C
  D = D
  Drives = {C, D}
  Clients = {}
  Operators = {}
  Thresholds <- MCOneThreshold
  MinTier <- MCMinTier
  PinWindows = {1}
  MaxIdle = 1
  MaxPin = 1
  Actors = {"idle", "pressure", "journal"}
INVARIANT TypeOK
PROPERTY IdleDrivePark
PROPERTY CascadeEnds
