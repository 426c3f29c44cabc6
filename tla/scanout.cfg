SPECIFICATION FairSpec
CONSTANTS
  NumBos = 3
  MaxFrames = 4
  Faults <- AllFaults
INVARIANTS TypeOK FrameSettled LockedWhilePending IInv
PROPERTIES DisplaySpec WaitEnds EveryFrameShown
