SPECIFICATION Spec
CONSTANTS
  MaxSetups = 8
  MaxErrors = 4
INVARIANTS TypeOK LeaksAreFailures
PROPERTIES Recovers KeepsDrawing
