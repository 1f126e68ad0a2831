SPECIFICATION Spec
CONSTANTS
  MaxChanges = 2
  MaxJournals = 1
  Faults = {}
INVARIANT CursorNeverOutrunsBody
