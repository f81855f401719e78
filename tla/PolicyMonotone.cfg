CONSTANTS
  Products <- MCProducts
  Svns <- MCSvns
  Signers <- MCSigners
SPECIFICATION Spec
INVARIANTS
  ComplicatedMeansPlatform
PROPERTIES
  TighteningNeverUpgrades
  UpdatesNeverDowngrade
