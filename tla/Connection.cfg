CONSTANTS
  ApiVersion = 3
  MaxChain = 2
  Rotations = 3
  LeakBound = 1
  Texts = {ok}
SPECIFICATION FairSpec
INVARIANTS
  UsedReportsAreSigned
  NoMoreRefusedThanRevoked
  RequestsFreeWhatTheyMake
PROPERTIES
  SessionsEnd
CHECK_DEADLOCK FALSE
