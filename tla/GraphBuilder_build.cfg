SPECIFICATION Spec
CONSTANTS
  ValueTypeIDs = {"a"}
  Setups <- AllSetups
  Imports <- SeedFiles
  MaxFragment = 2
  MaxRepeats = 2
  MinNodes = 1
CHECK_DEADLOCK FALSE
INVARIANTS
  TypeOK
  LinksValid
  AvailableExact
  ValuesConsistent
  NoPanic
  PrefixIsInput
  PayloadFits
