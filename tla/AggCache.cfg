SPECIFICATION FairSpec
CONSTANTS
  Writers = {w1, w2}
  Requests = {r1, r2}
  MaxGen = 2
INVARIANT VersionsNotReused
 
