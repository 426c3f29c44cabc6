SPECIFICATION FairSpec
CONSTANTS
  NumBos = 2
  MaxFrames = 4
  SocketCap = 1
  MsgLen = 6
  WordSizes = {4, 8}
  EventSpace = 2
  Faults <- AllFaults
INVARIANTS OnePrime BoReturned IInv SentIntact ShownIntact
PROPERTIES ScreenAdvances ParentFollows SendReturns WaitEnds EveryFrameShown
