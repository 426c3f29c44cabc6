SPECIFICATION Spec
CONSTANTS
  NumConnectors = 2
  NumEncoders = 2
  NumCrtcs = 1
  Cards <- TwoConnectors
  Faults <- AllFaults
INVARIANTS
  TypeOK
  SearchFinds
  ReadyToRun
  LayersStand
  NothingLeft
  RightMaster
PROPERTY
  Settles
