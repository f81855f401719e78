CONSTANTS
  Clients = {c1}
  NoClient = NoClient
  Quotes <- MCQuotes
  Policy <- MCPolicy
  MallocMayFail = FALSE
  Silent = {}
SPECIFICATION Spec
INVARIANTS
  StatusReachesClient
CHECK_DEADLOCK FALSE
