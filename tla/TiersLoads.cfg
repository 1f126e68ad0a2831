SPECIFICATION FairSpec
CONSTANTS
  C = C
  D = D
  Drives = {D}
  Clients = {q1, q2}
  Operators = {o1}
  Thresholds <- MCOneThreshold
  MinTier <- MCMinTier
  PinWindows = {1}
  MaxIdle = 1
  MaxPin = 1
  Actors = {"query", "preload", "hibernate", "cancel"}
INVARIANT SingleFlight
PROPERTY LateLoadsOnlyRaise
PROPERTY SearchProceeds
PROPERTY SlotsAreFreed
