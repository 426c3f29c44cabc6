---------------------------- MODULE MCPrimeSharing --------------------------
(* Instances of PrimeSharing for TLC; the cfgs choose the faults.            *)
EXTENDS PrimeSharing

NoFaults == {}
AllFaults == FaultKinds
=============================================================================
