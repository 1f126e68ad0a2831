SPECIFICATION Spec
CONSTANTS
  MaxChanges = 2
  MaxJournals = 2
  Faults = {"trim", "recreate", "recreateDown", "demote", "refreshFails", "saveFails", "cacheLost",
            "crash"}
INVARIANT TypeOK
 
PROPERTY CursorMonotone
