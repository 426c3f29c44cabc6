SPECIFICATION FairSpec
CONSTANTS
  MaxRenderClients = 2
  MaxImages = 2
  MaxBuffers = 3
  SocketCap = 2
  FdLimit = 2
  Faults <- AllFaults
INVARIANTS IInv OneReceiver BoNotLost DistinctSlots SlotOfClient ShownIsDrawn
PROPERTIES SlotsAdvance HandoffSpec ClientsFollow SendReturns TransitEnds AnswerComes
