CONSTANTS
  FdLimit = 7
  PipeSize = 2
  MaxAnswer = 3
SPECIFICATION FairSpec
INVARIANTS
  RequestsLeaveExactly
  NothingCutOff
  AcceptHasADescriptor
PROPERTIES
  RequestsEnd
  AtLastNoRequestRuns
CHECK_DEADLOCK FALSE
