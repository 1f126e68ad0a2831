SPECIFICATION Spec
CONSTANTS
  C = C
  D = D
  Drives = {C}
  Clients = {q1}
  Operators = {o1}
  Thresholds <- MCOneThreshold
  MinTier <- MCMinTier
  PinWindows = {1}
  MaxIdle = 1
  MaxPin = 1
  Actors = {"idle", "pressure", "preload", "query", "hibernate", "forget", "reload"}
INVARIANT PinnedOnlyHot
PROPERTY IdleRespectsFloor
PROPERTY StalePlansOnlyLower
