CONSTANTS
  EpcLimit = 3
  FileLimit = 3
  MaxLacking = 0
SPECIFICATION FairSpec
PROPERTIES
  UnderflowEnds
CHECK_DEADLOCK FALSE
