------------------------------ MODULE MCScanOut ------------------------------
(* Instances of ScanOut for TLC; the cfgs choose the faults.                 *)
EXTENDS ScanOut

NoFaults == {}
AllFaults == FaultKinds
=============================================================================
