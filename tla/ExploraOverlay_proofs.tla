----------------------- MODULE ExploraOverlay_proofs ------------------------
(* Proofs about ExploraOverlay, for any number of starts, wherever power is  *)
(* lost and whichever call fails.                                            *)
EXTENDS ExploraOverlay, TLAPS

(* The directories before the one whose turn it is.                          *)
Done == {Order[i] : i \in 1 .. turn - 1}

(* Only what is made is bound and copied; the mounts, as long as none fails, *)
(* leave out nothing that has been made.                                     *)
Inv ==
  /\ pc \in {"off", "mkdir", "copy", "programs", "link", "mount", "run"}
  /\ turn \in 1 .. Len(Order)
  /\ bound \subseteq made /\ copied \subseteq made
  /\ ~Fail("mount") =>
       /\ pc = "mount" => Done \cap made \subseteq bound
       /\ pc = "run" => Dirs \cap made \subseteq bound

(* Both lists name the five directories.                                     *)
LEMMA OrderLength == Len(Order) = 5 /\ Len(Links) = 5
BY DEF Order, Links

(* A turn of a loop either goes on to the next directory or has done all.    *)
LEMMA Turn ==
  ASSUME NEW l, NEW next, turn \in 1 .. Len(Order), ThenNext(l, next)
  PROVE  /\ turn' \in 1 .. Len(Order)
         /\ \/ /\ pc' = l
               /\ Done' = Done \cup {Order[turn]}
            \/ /\ pc' = next /\ Done' = {}
               /\ Dirs = Done \cup {Order[turn]}
<1> USE OrderLength
<1>1. CASE turn < Len(Order)
  <2>1. turn' = turn + 1 /\ pc' = l
    BY <1>1 DEF ThenNext
  <2>2. \A i \in Nat : i \in 1 .. turn' - 1 <=> i \in 1 .. turn - 1 \/ i = turn
    BY <2>1
  <2>3. Done' = Done \cup {Order[turn]}
    BY <2>2 DEF Done
  <2> QED BY <1>1, <2>1, <2>3
<1>2. CASE turn = Len(Order)
  <2>1. turn' = 1 /\ pc' = next
    BY <1>2 DEF ThenNext, Goto
  <2>2. Done' = {}
    BY <2>1 DEF Done
  <2>3. Dirs = Done \cup {Order[turn]}
    BY <1>2 DEF Dirs, Done
  <2> QED BY <2>1, <2>2, <2>3
<1> QED BY <1>1, <1>2

(* The first directory is next.                                              *)
LEMMA First ==
  ASSUME NEW l, Goto(l)
  PROVE  pc' = l /\ turn' \in 1 .. Len(Order) /\ Done' = {}
<1>1. turn' = 1 /\ pc' = l
  BY DEF Goto
<1>2. Done' = {}
  BY <1>1 DEF Done
<1> QED BY <1>1, <1>2, OrderLength

(* Each step keeps what is on flash and what is bound in order.              *)
LEMMA NextInv == Inv /\ [Next]_vars => Inv'
<1> SUFFICES ASSUME Inv, [Next]_vars PROVE Inv'
  OBVIOUS
<1> USE DEF Fail
<1>1. CASE Start
  <2>1. /\ UNCHANGED <<dest, made, copied, added, bound>>
        /\ \/ Goto("mkdir") \/ Goto("mount")
    BY <1>1 DEF Start, flash
  <2> QED BY <2>1, First DEF Inv
<1>2. CASE MakeDestination
  <2>1. pc = "mkdir" /\ UNCHANGED <<pc, turn, made, copied, bound>>
    BY <1>2 DEF MakeDestination
  <2> QED BY <2>1 DEF Inv
<1>3. CASE Mkdir
  <2>1. /\ pc = "mkdir" /\ made \subseteq made'
        /\ ThenNext("mkdir", "copy") /\ UNCHANGED <<copied, bound>>
    BY <1>3 DEF Mkdir
  <2> QED BY <2>1, Turn DEF Inv
<1>4. CASE Copy
  <2>1. /\ pc = "copy" /\ ThenNext("copy", "programs")
        /\ UNCHANGED <<made, bound>> /\ (copied \subseteq made => copied' \subseteq made)
    BY <1>4 DEF Copy
  <2> QED BY <2>1, Turn DEF Inv
<1>5. CASE AddPrograms
  <2>1. /\ pc = "programs" /\ Goto("link") /\ made \subseteq made'
        /\ UNCHANGED <<copied, bound>>
    BY <1>5 DEF AddPrograms
  <2> QED BY <2>1, First DEF Inv
<1>6. CASE Link
  <2>1. /\ pc = "link" /\ ThenNext("link", "mount")
        /\ UNCHANGED <<made, copied, bound>>
    BY <1>6 DEF Link
  <2> QED BY <2>1, Turn DEF Inv
<1>7. CASE Mount
  <2>1. /\ pc = "mount" /\ ThenNext("mount", "run") /\ UNCHANGED <<made, copied>>
        /\ bound \subseteq bound' /\ bound' \subseteq bound \cup ({Order[turn]} \cap made)
        /\ ~Fail("mount") => {Order[turn]} \cap made \subseteq bound'
    BY <1>7 DEF Mount, flash
  <2> QED BY <2>1, Turn DEF Inv
<1>8. CASE Stop \/ PowerLoss
  <2>1. /\ Goto("off") /\ UNCHANGED <<made, copied>>
        /\ bound' \in {bound, {}}
    BY <1>8 DEF Stop, PowerLoss, flash
  <2> QED BY <2>1, First DEF Inv
<1>9. CASE UNCHANGED vars
  BY <1>9 DEF vars, flash, Inv, Done
<1> QED BY <1>1, <1>2, <1>3, <1>4, <1>5, <1>6, <1>7, <1>8, <1>9 DEF Next

(* The invariant holds from the first start on.                              *)
LEMMA Invariance == Spec => []Inv
<1>1. Init => Inv
  BY OrderLength DEF Init, Inv
<1> QED BY <1>1, NextInv, PTL DEF Spec

-----------------------------------------------------------------------------
(* If no mount fails, the comment about the copy is true of a start exactly  *)
(* if all is on flash that the first start puts there, whatever else failed, *)
(* and however often the script was killed or power was lost: the loop over  *)
(* the mounts makes up for an earlier one that was cut off, and a start that *)
(* breaks the comment does so by what it finds on flash.                     *)
THEOREM FlashDecides ==
  "mount" \notin Faults => (Spec => [](pc = "run" => (BoundIsCopy <=> Complete)))
<1> SUFFICES ASSUME "mount" \notin Faults
             PROVE  Spec => [](pc = "run" => (BoundIsCopy <=> Complete))
  OBVIOUS
<1>1. Inv => (pc = "run" => (BoundIsCopy <=> Complete))
  BY DEF Inv, BoundIsCopy, Complete, Fail
<1> QED BY <1>1, Invariance, PTL

(* A first start that was cut off, or had a call fail: DESTINATION is there, *)
(* not all is on flash, and nothing is at work on it.                        *)
CutOff == dest /\ ~Complete /\ pc \in {"off", "mount", "run"}

(* The comment is never true again once a first start was cut off after it   *)
(* made DESTINATION, or ended with a copy or a link that failed: no later    *)
(* start, with or without loss of power, changes what is on flash.           *)
THEOREM NeverRepaired ==
  Spec => [](CutOff => [](CutOff /\ (pc = "run" => ~BoundIsCopy)))
<1>1. CutOff /\ [Next]_vars => CutOff'
  <2> SUFFICES ASSUME CutOff, [Next]_vars PROVE CutOff'
    OBVIOUS
  <2>1. UNCHANGED flash /\ pc' \in {"off", "mount", "run"}
    <3>1. CASE Start
      BY <3>1 DEF Start, CutOff, Goto
    <3>2. CASE Mount
      BY <3>2 DEF Mount, ThenNext, Goto
    <3>3. CASE Stop \/ PowerLoss
      BY <3>3 DEF Stop, PowerLoss, Goto
    <3>4. CASE UNCHANGED vars
      BY <3>4 DEF vars, CutOff
    <3> QED
      BY <3>1, <3>2, <3>3, <3>4
      DEF Next, MakeDestination, Mkdir, Copy, AddPrograms, Link, CutOff
  <2> QED BY <2>1 DEF CutOff, Complete, flash
<1>2. CutOff => (pc = "run" => ~BoundIsCopy)
  BY DEF CutOff, BoundIsCopy
<1> QED BY <1>1, <1>2, PTL DEF Spec
=============================================================================
