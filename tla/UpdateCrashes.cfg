SPECIFICATION FairSpec
CONSTANTS
  Procs = {1, 2}
  Plan <- MCPlan
  Stem <- MCStem
  SelfRoot = {"bin/uffsd"}
  MaxVersion = 3
  MaxAlive = 1
  MaxTrouble = 2
  Faults = {"swapFails", "smokeFails", "stopFails", "saveFails", "undoFails", "startFails",
            "pruneFails", "unwritable", "applyOverPending", "doctor"}
INVARIANT TypeOK
INVARIANT NoBinaryLost
INVARIANT OriginalsKept
INVARIANT AllOrNothing
 
 
PROPERTY NoServiceOnMixedBinaries
 
CHECK_DEADLOCK FALSE
