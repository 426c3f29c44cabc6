----------------------------- MODULE MCPrimePair ----------------------------
(* Instances of PrimePair for TLC; the cfgs choose the faults.               *)
EXTENDS PrimePair

NoFaults == {}
AllFaults == FaultKinds
=============================================================================
