CONSTANTS
  MaxHeaders = 4
  MaxBody = 4
  MaxChunks = 3
SPECIFICATION Spec
INVARIANTS
  CompletedIsWholeOrEmpty
  WholeIsCompleted
CHECK_DEADLOCK FALSE
