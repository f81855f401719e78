CONSTANTS
  Products <- MCProducts
  Svns <- MCSvns
  Signers <- MCSigners
SPECIFICATION Spec
INVARIANTS
  ConfigurationNeededTrusted
