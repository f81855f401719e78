CONSTANTS
  Clients = {c1, c2, c3}
  NoClient = NoClient
  Quotes <- MCQuotes
  Policy <- MCPolicy
  MallocMayFail = TRUE
  Silent = {}
SPECIFICATION Spec
SYMMETRY Symmetry
INVARIANTS
  TypeOK
  AttestedIsAcceptable
  SecretsOnlyForAcceptable
  ForeignBytesHaveACulprit
  ResidueHasACulprit
  CleanSessionsFrameRight
PROPERTIES
  WedgedServesNobody
  KeepsContract
CHECK_DEADLOCK FALSE
