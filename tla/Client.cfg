CONSTANTS
  EpcLimit = 3
  FileLimit = 3
  MaxLacking = 2
SPECIFICATION BusySpec
INVARIANTS
  AttestationLeavesNothing
  LeaksAreExact
  EcallsReachTheEnclave
  KeysAreForTheTrusted
PROPERTIES
  HostEnds
CHECK_DEADLOCK FALSE
