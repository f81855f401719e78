CONSTANTS
  Base <- MCBase
  Edits <- MCEdits
  MaxEdits = 2
  Arguments <- MCArguments
  ByHand <- MCByHand
SPECIFICATION ProcessSpec
INVARIANTS
  FilesReachTheServer
  WellFormedIsServed
  GracefulShutdown
  OnlyTwoWindows
  StdioOnlyTheStatus
PROPERTIES
  SignalEnds
  StdioClientsFinish
CHECK_DEADLOCK FALSE
