SPECIFICATION Spec
CONSTANTS
  NumBos = 2
  MaxFrames = 4
  Faults <- NoFaults
INVARIANT PreviousFbRemoved
