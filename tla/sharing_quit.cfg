SPECIFICATION Spec
CONSTANTS
  MaxRenderClients = 2
  MaxImages = 2
  MaxBuffers = 2
  SocketCap = 2
  FdLimit = 4
  Faults <- NoFaults
INVARIANT QuitQuits
