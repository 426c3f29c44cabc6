SPECIFICATION Spec
CONSTANTS
  NumBos = 2
  MaxFrames = 3
  SocketCap = 2
  MsgLen = 6
  WordSizes = {4}
  EventSpace = 3
  Faults <- NoFaults
INVARIANT ParentStays
