SPECIFICATION Spec
INVARIANTS
  LossesAreKnown
  FreedOnce
  FailureIsExplained
  HiddenFailuresAreKnown
