CONSTANTS
  Clients = {c1, c2, c3}
  NoClient = NoClient
  Quotes <- MCOneQuote
  Policy <- MCPolicy
  MallocMayFail = FALSE
  Silent = {c3}
SPECIFICATION FairSpec
PROPERTIES
  SessionsEnd
  ClientsFinish
CHECK_DEADLOCK FALSE
