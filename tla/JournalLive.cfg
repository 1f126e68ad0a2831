SPECIFICATION FairSpec
CONSTANTS
  MaxChanges = 3
  MaxJournals = 2
  Faults = {"recreate", "saveFails"}
INVARIANT NothingLost
PROPERTY ImplementsLiveIndex
 
