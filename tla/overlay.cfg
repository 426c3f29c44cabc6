SPECIFICATION Spec
CONSTANTS
  Faults = {}
  MaxStarts = 2
INVARIANT BoundIsCopy
