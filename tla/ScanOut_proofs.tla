---------------------------- MODULE ScanOut_proofs --------------------------
(* Proofs about ScanOut, for any number of frames and of surface buffers.    *)
EXTENDS ScanOut, FiniteSetTheorems, TLAPS

(* ScanOut starts with a quiet crtc, whatever ValidModeSet found on it.      *)
LEMMA InitIInv == Init => IInv
<1> SUFFICES ASSUME Init PROVE IInv
  OBVIOUS
<1>1. /\ member \in {InvalidFb, ConsoleFb} /\ crtcFb \in {InvalidFb, ConsoleFb}
      /\ accepts \in BOOLEAN
  BY DEF Init
<1>2. ConsoleFb \notin Fbs /\ InvalidFb \notin Fbs
  BY ScanOutAssumption DEF Fbs, ConsoleFb, InvalidFb
<1>3. frames \in 0 .. MaxFrames /\ fbBo \in [Fbs -> Bos \cup {NoBo}]
  BY ScanOutAssumption DEF Init
<1>4. TypeOK
  <2>1. /\ front = NoBo /\ buf = NoBo /\ fbs = {} /\ pc = "render"
        /\ waiting = TRUE /\ ret = FALSE
        /\ fb = InvalidFb /\ pending = InvalidFb /\ events = 0
    BY DEF Init
  <2>2. waiting \in BOOLEAN /\ ret \in BOOLEAN
    BY <2>1
  <2>3. {member, fb, crtcFb, pending} \subseteq Fbs \cup {InvalidFb, ConsoleFb}
    BY <1>1, <2>1
  <2> QED BY <1>1, <1>3, <2>1, <2>2, <2>3 DEF TypeOK
<1> QED BY <1>1, <1>2, <1>4 DEF Init, IInv, Quiet

(* Each step of the compositor keeps the invariant.                          *)
LEMMA RenderIInv == IInv /\ Render => IInv'
<1> SUFFICES ASSUME IInv, Render PROVE IInv'
  OBVIOUS
<1>1. TypeOK'
  BY ScanOutAssumption DEF Render, IInv, TypeOK, kernelVars
<1>2. pc' = "lock" => (frames + 1 \in Fbs)'
  BY ScanOutAssumption DEF Render, IInv, TypeOK, Fbs
<1> QED
  BY <1>1, <1>2 DEF Render, IInv, Quiet, kernelVars, InvalidFb

(* Locking the front buffer.                                                 *)
LEMMA LockIInv == IInv /\ Lock => IInv'
<1> SUFFICES ASSUME IInv, Lock PROVE IInv'
  OBVIOUS
<1>1. TypeOK'
  BY DEF Lock, IInv, TypeOK, kernelVars
<1> QED BY <1>1 DEF Lock, IInv, Quiet, kernelVars, InvalidFb, Fbs

(* The new framebuffer is of the locked buffer.                              *)
LEMMA AddFbIInv == IInv /\ AddFb => IInv'
<1> SUFFICES ASSUME IInv, AddFb PROVE IInv'
  OBVIOUS
<1>1. frames + 1 \in Fbs /\ pc = "addfb" /\ Quiet
  BY DEF AddFb, IInv
<1>2. TypeOK'
  BY <1>1 DEF AddFb, IInv, TypeOK, InvalidFb
<1>3. pc' = "flip" => InHand'
  BY <1>1 DEF AddFb, IInv, TypeOK, InHand
<1> QED BY <1>1, <1>2, <1>3 DEF AddFb, IInv, Quiet, InvalidFb

(* A flip is asked for while nothing is pending.                             *)
LEMMA PageFlipIInv == IInv /\ PageFlip => IInv'
<1> SUFFICES ASSUME IInv, PageFlip PROVE IInv'
  OBVIOUS
<1>1. pc = "flip" /\ InHand /\ member = InvalidFb /\ Quiet /\ ~ret
  BY DEF PageFlip, IInv
<1>2. /\ UNCHANGED <<frames, front, buf, member, fb, ret,
                     fbs, fbBo, accepts, crtcFb, events>>
      /\ waiting' = TRUE
      /\ \/ pc' = "wait" /\ pending' = fb
         \/ pc' \in {"setcrtc", "done"} /\ pending' = pending
  BY DEF PageFlip, KeepLocked
<1>3. TypeOK'
  BY <1>1, <1>2 DEF IInv, TypeOK, InHand
<1>4. InHand'
  BY <1>1, <1>2 DEF InHand
<1>5. Quiet' \/ (pc' = "wait" /\ Flipping')
  BY <1>1, <1>2 DEF Quiet, Flipping
<1>6. pending' # InvalidFb => events' = 0
  BY <1>1, <1>2 DEF Quiet
<1>7. CASE pc' = "wait"
  BY <1>1, <1>2, <1>3, <1>4, <1>6, <1>7 DEF IInv, Quiet, Flipping
<1>8. CASE pc' \in {"setcrtc", "done"}
  BY <1>1, <1>2, <1>3, <1>4, <1>5, <1>6, <1>8 DEF IInv, Quiet
<1> QED BY <1>2, <1>7, <1>8

(* The event read is that of the flip asked for.                             *)
LEMMA HandleEventIInv == IInv /\ HandleEvent => IInv'
<1> SUFFICES ASSUME IInv, HandleEvent PROVE IInv'
  OBVIOUS
<1>1. /\ pc = "wait" /\ waiting /\ InHand /\ member = InvalidFb
      /\ ~ret /\ Flipped
  BY DEF HandleEvent, IInv, Flipping
<1>2. UNCHANGED <<frames, front, buf, fb, fbBo, accepts, crtcFb, pending>>
  BY DEF HandleEvent
<1>3. InvalidFb \notin Fbs
  BY ScanOutAssumption DEF Fbs, InvalidFb
<1>4. CASE /\ pc' = "wait" /\ waiting' = FALSE /\ ret' = TRUE
           /\ events' = 0 /\ member' = InvalidFb
           /\ fbs' = fbs \ {InvalidFb}
  <2>1. TypeOK'
    <3>1. waiting' \in BOOLEAN /\ ret' \in BOOLEAN
      BY <1>4
    <3> QED BY <1>2, <1>4, <3>1 DEF IInv, TypeOK
  <2>2. InHand'
    BY <1>1, <1>2, <1>3, <1>4 DEF InHand
  <2>3. Settled'
    BY <1>1, <1>2, <1>4 DEF Settled, Quiet, Flipped
  <2>4. pending' = InvalidFb
    BY <1>1, <1>2 DEF Flipped
  <2> QED BY <1>4, <2>1, <2>2, <2>3, <2>4 DEF IInv
<1>5. CASE /\ pc' = "done" /\ ret' = FALSE
           /\ UNCHANGED <<events, waiting, fbs, member>>
  <2>1. TypeOK'
    <3>1. ret' \in BOOLEAN
      BY <1>5
    <3> QED BY <1>2, <1>5, <3>1 DEF IInv, TypeOK
  <2>2. InHand' /\ Flipped' /\ member' = InvalidFb
    BY <1>1, <1>2, <1>5 DEF InHand, Flipped
  <2>3. pending' = InvalidFb
    BY <2>2 DEF Flipped
  <2> QED BY <1>5, <2>1, <2>2, <2>3 DEF IInv
<1>6. \/ /\ ret' = TRUE /\ waiting' = FALSE /\ member' = InvalidFb
         /\ fbs' = fbs \ {member} /\ pc' = pc /\ events' = events - 1
      \/ /\ pc' = "done" /\ ret' = FALSE
         /\ UNCHANGED <<events, waiting, fbs, member>>
  BY Zenon DEF HandleEvent, EventRead, FlagCleared
<1>7. pc = "wait" /\ events - 1 = 0
  BY <1>1 DEF Flipped
<1> QED BY <1>1, <1>4, <1>5, <1>6, <1>7, Zenon

(* A turn without an event changes nothing of the flip.                      *)
LEMMA WaitIInv == IInv /\ (WaitNoEvent \/ WaitDone) => IInv'
<1> SUFFICES ASSUME IInv, WaitNoEvent \/ WaitDone PROVE IInv'
  OBVIOUS
<1>1. UNCHANGED kernelVars /\ UNCHANGED <<buf, member, fb, ret>>
  BY DEF WaitNoEvent, WaitDone, PselectReported
<1>2. TypeOK'
  BY DEF WaitNoEvent, WaitDone, PselectReported, IInv, TypeOK, kernelVars
<1> QED
  BY <1>1, <1>2
  DEF WaitNoEvent, WaitDone, IInv, Quiet, Settled, Flipping, Flipped, InHand,
      kernelVars

(* Setting the crtc shows the framebuffer at once.                           *)
LEMMA SetCrtcIInv == IInv /\ SetCrtc => IInv'
<1> SUFFICES ASSUME IInv, SetCrtc PROVE IInv'
  OBVIOUS
<1>1. pc = "setcrtc" /\ InHand /\ member = InvalidFb /\ Quiet /\ ~ret
  BY DEF SetCrtc, IInv
<1>2. TypeOK'
  BY DEF SetCrtc, CrtcReported, IInv, TypeOK, InvalidFb
<1>3. InHand'
  BY <1>1 DEF SetCrtc, InHand
<1> QED
  BY <1>1, <1>2, <1>3 DEF SetCrtc, CrtcReported, IInv, Quiet, Settled, InvalidFb

(* The local framebuffer becomes the member.                                 *)
LEMMA DoneIInv == IInv /\ Done => IInv'
<1> SUFFICES ASSUME IInv, Done PROVE IInv'
  OBVIOUS
<1>1. TypeOK'
  BY DEF Done, IInv, TypeOK, kernelVars
<1> QED
  BY <1>1 DEF Done, IInv, Quiet, Settled, Flipping, Flipped, InHand, kernelVars

(* The buffer is released; the loop goes on only when it is settled.         *)
LEMMA UnlockIInv == IInv /\ Unlock => IInv'
<1> SUFFICES ASSUME IInv, Unlock PROVE IInv'
  OBVIOUS
<1>1. TypeOK'
  BY DEF Unlock, IInv, TypeOK, kernelVars
<1> QED
  BY <1>1 DEF Unlock, IInv, Quiet, Settled, InHand, kernelVars

(* So does a vertical blank, whenever it comes.                              *)
LEMMA VerticalBlankIInv == IInv /\ VerticalBlank => IInv'
<1> SUFFICES ASSUME IInv, VerticalBlank PROVE IInv'
  OBVIOUS
<1>1. /\ pending # InvalidFb /\ events = 0 /\ ~Quiet
      /\ UNCHANGED <<compVars, fbs, fbBo, accepts>>
  BY DEF VerticalBlank, IInv, Quiet
<1>2. TypeOK'
  BY <1>1 DEF VerticalBlank, IInv, TypeOK, compVars
<1>3. pc \in {"wait", "done", "unlock", "end"}
  BY <1>1 DEF IInv, TypeOK
<1>4. InHand => InHand'
  BY <1>1 DEF InHand, compVars
<1> QED
  BY <1>1, <1>2, <1>3, <1>4
  DEF VerticalBlank, IInv, Quiet, Settled, Flipping, Flipped, compVars,
      InvalidFb

(* Every step keeps the invariant.                                           *)
LEMMA NextIInv == IInv /\ [Next]_vars => IInv'
<1> SUFFICES ASSUME IInv, [Next]_vars PROVE IInv'
  OBVIOUS
<1>1. CASE UNCHANGED vars
  <2>1. TypeOK'
    BY <1>1 DEF IInv, TypeOK, vars
  <2> QED
    BY <1>1, <2>1
    DEF IInv, Quiet, Settled, Flipping, Flipped, InHand, vars
<1> QED
  BY <1>1, RenderIInv, LockIInv, AddFbIInv, PageFlipIInv, HandleEventIInv,
     WaitIInv, SetCrtcIInv, DoneIInv, UnlockIInv, VerticalBlankIInv
  DEF Next, CompositorStep, Ended

-----------------------------------------------------------------------------
(* The invariant holds at every step of Compositor::Render and ScanOut,      *)
(* whichever call fails and whenever the kernel flips.                       *)
THEOREM Invariance == Spec => []IInv
BY InitIInv, NextIInv, PTL DEF Spec

(* Every variable has its type, and the kernel never holds two events.       *)
THEOREM TypeCorrect == Spec => []TypeOK
<1>1. IInv => TypeOK
  BY DEF IInv
<1> QED BY <1>1, Invariance, PTL

(* A frame that ScanOut reported as shown is settled before the next one.    *)
THEOREM FrameSettledHolds == Spec => []FrameSettled
<1>1. IInv => FrameSettled
  BY DEF IInv, FrameSettled, Quiet
<1> QED BY <1>1, Invariance, PTL

(* A buffer the kernel is about to show is locked until it is shown.         *)
THEOREM LockedWhilePendingHolds == Spec => []LockedWhilePending
<1>1. IInv => LockedWhilePending
  BY DEF IInv, TypeOK, LockedWhilePending, Quiet, Settled, Flipping, Flipped,
         InHand
<1> QED BY <1>1, Invariance, PTL

(* drmModePageFlip is never asked while a flip is pending: the EBUSY branch  *)
(* of ScanOut is taken only for a reason outside this process.               *)
THEOREM NeverBusy == Spec => [](pc = "flip" => pending = InvalidFb)
<1>1. IInv => (pc = "flip" => pending = InvalidFb)
  BY DEF IInv, Quiet
<1> QED BY <1>1, Invariance, PTL

-----------------------------------------------------------------------------
(* The refinement.  The framebuffer in hand is that of the last frame, and so*)
(* is a pending one; when the loop comes round it is on the screen.          *)
Newest ==
  /\ pc \in {"flip", "wait", "setcrtc", "done"} => fb = frames + 1
  /\ pc = "unlock" /\ ret => fb = frames + 1
  /\ pending # InvalidFb => pending = frames + 1 /\ pending \in Fbs
  /\ pc = "render" => Screen = frames

(* Nothing has been rendered at the start.                                   *)
LEMMA InitNewest == Init => Newest
<1> SUFFICES ASSUME Init PROVE Newest
  OBVIOUS
<1>1. crtcFb \notin Fbs
  BY DEF Init, Fbs, InvalidFb, ConsoleFb
<1> QED BY <1>1 DEF Init, Newest, Screen

(* What is in hand stays the last frame.                                     *)
LEMMA NextNewest == IInv /\ Newest /\ [Next]_vars => Newest'
<1> SUFFICES ASSUME IInv, Newest, [Next]_vars PROVE Newest'
  OBVIOUS
<1>1. CASE Render \/ Lock
  <2>1. Quiet /\ pending' = pending /\ pc' \in {"lock", "addfb", "end"}
    BY <1>1 DEF Render, Lock, IInv, kernelVars
  <2> QED BY <2>1 DEF Newest, Quiet
<1>2. CASE AddFb
  <2>1. Quiet /\ UNCHANGED <<pending, frames>>
    BY <1>2 DEF AddFb, IInv
  <2>2. \/ pc' = "flip" /\ fb' = frames + 1
        \/ pc' = "unlock" /\ ~ret'
    BY <1>2 DEF AddFb
  <2> QED BY <2>1, <2>2 DEF Newest, Quiet
<1>3. CASE PageFlip
  <2>1. /\ fb = frames + 1 /\ fb \in Fbs /\ UNCHANGED <<frames, fb>>
        /\ pc' \in {"wait", "setcrtc", "done"}
        /\ pending' \in {pending, fb}
    BY <1>3 DEF PageFlip, KeepLocked, Newest, IInv, InHand
  <2> QED BY <2>1 DEF Newest
<1>4. CASE HandleEvent \/ WaitNoEvent \/ WaitDone
  <2>1. /\ fb = frames + 1 /\ UNCHANGED <<frames, fb, pending>>
        /\ pc' \in {"wait", "done"}
    BY <1>4 DEF HandleEvent, WaitNoEvent, WaitDone, Newest, kernelVars
  <2> QED BY <2>1 DEF Newest
<1>5. CASE SetCrtc \/ Done
  <2>1. fb = frames + 1 /\ UNCHANGED <<frames, fb>> /\ pc' \in {"done", "unlock"}
    BY <1>5 DEF SetCrtc, Done, Newest
  <2>2. pending' \in {pending, InvalidFb}
    BY <1>5 DEF SetCrtc, Done, kernelVars
  <2> QED BY <2>1, <2>2 DEF Newest
<1>6. CASE Unlock
  <2>1. pc = "unlock" /\ UNCHANGED <<frames, pending, crtcFb>>
    BY <1>6 DEF Unlock, kernelVars
  <2>2. CASE pc' = "end"
    BY <2>1, <2>2 DEF Newest
  <2>3. CASE ret /\ pc' = "render"
    <3>1. crtcFb = frames + 1 /\ crtcFb \in Fbs /\ frames \in Int
      BY <2>1, <2>3 DEF Newest, IInv, TypeOK, Settled, InHand
    <3>2. Screen' = frames'
      BY <2>1, <3>1 DEF Screen
    <3> QED BY <2>1, <2>3, <3>2 DEF Newest
  <2> QED BY <1>6, <2>2, <2>3 DEF Unlock
<1>7. CASE VerticalBlank
  <2>1. pc # "render" /\ pending' = InvalidFb /\ UNCHANGED compVars
    BY <1>7 DEF VerticalBlank, IInv, Quiet
  <2> QED BY <2>1 DEF Newest, compVars
<1>8. CASE UNCHANGED vars
  <2>1. Screen' = Screen
    BY <1>8 DEF Screen, vars
  <2> QED BY <1>8, <2>1 DEF Newest, vars
<1> QED
  BY <1>1, <1>2, <1>3, <1>4, <1>5, <1>6, <1>7, <1>8
  DEF Next, CompositorStep, Ended

(* A step that shows no frame and renders none.                              *)
LEMMA QuietDisplay ==
  ASSUME UNCHANGED <<frames, crtcFb>>, pc' = "end" \/ (pc # "end" /\ pc' # "end")
  PROVE  D!Next \/ UNCHANGED <<frames, Screen, pc # "end">>
<1>1. Screen' = Screen
  BY DEF Screen
<1>2. CASE pc' = "end"
  BY <1>1, <1>2 DEF D!Next, D!Stop
<1>3. CASE pc # "end" /\ pc' # "end"
  <2>1. (pc # "end")' = (pc # "end")
    BY <1>3
  <2> QED BY <1>1, <2>1
<1> QED BY <1>2, <1>3

(* A step that puts the framebuffer of the last frame on the screen.         *)
LEMMA ShowDisplay ==
  ASSUME UNCHANGED frames, crtcFb' \in Fbs, crtcFb' = frames + 1, frames \in Nat,
         (pc # "end")' = (pc # "end")
  PROVE  D!Next /\ Screen' = frames
<1>1. Screen' = frames
  BY DEF Screen
<1> QED BY <1>1 DEF D!Next, D!Show

(* Rendering is rendering, if the last frame is on the screen.               *)
LEMMA RenderDisplay ==
  ASSUME IInv, Newest, Render
  PROVE  D!Next \/ UNCHANGED <<frames, Screen, pc # "end">>
<1>1. pc = "render" /\ Screen = frames /\ UNCHANGED crtcFb
  BY DEF Render, Newest, kernelVars
<1>2. CASE pc' = "lock" /\ frames' = frames + 1 /\ frames < MaxFrames
  <2>1. Screen' = Screen
    BY <1>1 DEF Screen
  <2>2. (pc # "end") /\ (pc # "end")' = (pc # "end")
    BY <1>1, <1>2
  <2> QED BY <1>1, <1>2, <2>1, <2>2 DEF D!Next, D!Render
<1>3. CASE pc' = "end" /\ UNCHANGED frames
  BY <1>1, <1>3, QuietDisplay
<1> QED BY <1>2, <1>3 DEF Render

(* Every step of the compositor and of the kernel is a step of Display.      *)
LEMMA NextDisplay ==
  ASSUME IInv, Newest, [Next]_vars
  PROVE  D!Next \/ UNCHANGED <<frames, Screen, pc # "end">>
<1>1. frames \in Nat
  BY ScanOutAssumption DEF IInv, TypeOK
<1>2. CASE Render
  BY <1>2, RenderDisplay
<1>3. CASE SetCrtc
  <2>1. /\ fb = frames + 1 /\ fb \in Fbs /\ UNCHANGED frames
        /\ pc # "end" /\ pc' # "end"
    BY <1>3 DEF SetCrtc, Newest, IInv, InHand
  <2>2. crtcFb' = fb \/ UNCHANGED crtcFb
    BY <1>3 DEF SetCrtc
  <2> QED BY <1>1, <2>1, <2>2, QuietDisplay, ShowDisplay
<1>4. CASE VerticalBlank
  <2>1. /\ crtcFb' = frames + 1 /\ UNCHANGED <<frames, pc>>
    BY <1>4 DEF VerticalBlank, Newest, compVars
  <2>2. frames + 1 \in Fbs
    BY <1>4 DEF VerticalBlank, Newest
  <2> QED BY <1>1, <2>1, <2>2, ShowDisplay
<1>5. CASE \/ Lock \/ AddFb \/ PageFlip \/ HandleEvent \/ WaitNoEvent
           \/ WaitDone \/ Done \/ Unlock
  <2>1. UNCHANGED <<frames, crtcFb>> /\ pc # "end"
    BY <1>5 DEF Lock, AddFb, PageFlip, HandleEvent, WaitNoEvent, WaitDone, Done,
                Unlock, kernelVars
  <2> QED BY <2>1, QuietDisplay
<1>6. CASE UNCHANGED vars
  BY <1>6, QuietDisplay DEF vars
<1> QED
  BY <1>2, <1>3, <1>4, <1>5, <1>6 DEF Next, CompositorStep, Ended

(* The compositor and the kernel together implement Display: whatever fails, *)
(* no frame is rendered before the last one is shown, and none is skipped.   *)
THEOREM Refinement == Spec => DisplaySpec
<1>1. Init => D!Init
  <2>1. ASSUME Init PROVE frames = 0 /\ Screen = 0 /\ (pc # "end") = TRUE
    <3>1. crtcFb \notin Fbs
      BY <2>1 DEF Init, Fbs, InvalidFb, ConsoleFb
    <3> QED BY <2>1, <3>1 DEF Init, Screen
  <2> QED BY <2>1 DEF D!Init
<1>2. IInv /\ Newest /\ [Next]_vars => [D!Next]_<<frames, Screen, pc # "end">>
  BY NextDisplay
<1>3. Spec => []Newest
  BY InitNewest, NextNewest, Invariance, PTL DEF Spec
<1> QED BY <1>1, <1>2, <1>3, Invariance, PTL DEF Spec, DisplaySpec, D!Spec

(* Hence the screen shows every frame, in the order of their rendering: it   *)
(* moves on by one frame or not at all, whichever call fails.                *)
THEOREM NoFrameSkipped == Spec => [][Screen' \in {Screen, Screen + 1}]_vars
<1> DEFINE Behind == Screen \in Nat /\ frames \in {Screen, Screen + 1}
<1>1. D!Init => Behind
  BY DEF D!Init
<1>2. Behind /\ [D!Next]_<<frames, Screen, pc # "end">> =>
        Behind' /\ Screen' \in {Screen, Screen + 1}
  BY DEF D!Next, D!Render, D!Show, D!Stop
<1>3. DisplaySpec => [][Screen' \in {Screen, Screen + 1}]_<<frames, Screen, pc # "end">>
  BY <1>1, <1>2, PTL DEF DisplaySpec, D!Spec
<1>4. [Screen' \in {Screen, Screen + 1}]_<<frames, Screen, pc # "end">> =>
        [Screen' \in {Screen, Screen + 1}]_vars
  OBVIOUS
<1> QED BY <1>3, <1>4, Refinement, PTL

-----------------------------------------------------------------------------
(* The framebuffers that exist: one for every frame.  HandleEvent removes    *)
(* the member, which AddFb has made invalid.                                 *)
UpTo(n) == 2 .. n

Kept ==
  /\ pc \in {"render", "flip", "wait", "setcrtc", "done"} => fbs = UpTo(frames + 1)
  /\ pc = "unlock" /\ ret => fbs = UpTo(frames + 1)
  /\ pc \in {"lock", "addfb"} => fbs = UpTo(frames)

(* No step removes one, and each frame adds one.                             *)
LEMMA NextKept == IInv /\ Kept /\ [Next]_vars => Kept'
<1> SUFFICES ASSUME IInv, Kept, [Next]_vars PROVE Kept'
  OBVIOUS
<1>0. frames \in Nat
  BY ScanOutAssumption DEF IInv, TypeOK
<1>1. CASE Render \/ Lock
  BY <1>0, <1>1 DEF Render, Lock, Kept, kernelVars
<1>2. CASE AddFb
  <2>1. pc = "addfb" /\ fbs = UpTo(frames) /\ frames + 1 \in Fbs
    BY <1>2 DEF AddFb, Kept, IInv
  <2>2. UpTo(frames) \cup {frames + 1} = UpTo(frames + 1)
    BY <1>0, <2>1 DEF UpTo, Fbs
  <2>3. \/ /\ pc' = "flip" /\ fbs' = fbs \cup {frames + 1} /\ frames' = frames
        \/ pc' = "unlock" /\ ~ret'
    BY <1>2 DEF AddFb
  <2> QED BY <2>1, <2>2, <2>3 DEF Kept
<1>3. CASE HandleEvent
  <2>1. member = InvalidFb /\ fbs = UpTo(frames + 1)
    BY <1>3 DEF HandleEvent, IInv, Kept
  <2>2. fbs' \in {fbs, fbs \ {member}} /\ pc' \in {"wait", "done"}
        /\ frames' = frames
    BY <1>3 DEF HandleEvent
  <2>3. InvalidFb \notin UpTo(frames + 1)
    BY <1>0 DEF UpTo, InvalidFb
  <2> QED BY <2>1, <2>2, <2>3 DEF Kept
<1>4. CASE PageFlip \/ WaitNoEvent \/ WaitDone \/ SetCrtc \/ Done
  <2>1. /\ pc \in {"flip", "wait", "setcrtc", "done"}
        /\ pc' \in {"wait", "setcrtc", "done", "unlock"}
        /\ UNCHANGED <<fbs, frames>>
    BY <1>4 DEF PageFlip, KeepLocked, WaitNoEvent, WaitDone, SetCrtc, Done,
                kernelVars
  <2> QED BY <2>1 DEF Kept
<1>5. CASE Unlock
  BY <1>5 DEF Unlock, Kept, kernelVars
<1>6. CASE VerticalBlank
  BY <1>6 DEF VerticalBlank, Kept, compVars
<1>7. CASE UNCHANGED vars
  BY <1>7 DEF vars, Kept
<1> QED
  BY <1>1, <1>2, <1>3, <1>4, <1>5, <1>6, <1>7
  DEF Next, CompositorStep, Ended

(* The leak in numbers: when frame n + 1 is about to be rendered there are n *)
(* framebuffers, so that what the comments of ScanOut say of the previous    *)
(* one is true of the first two frames and of no later one.                  *)
THEOREM OneFbPerFrame ==
  Spec => [](pc = "render" => /\ Cardinality(fbs) = frames
                              /\ PreviousFbRemoved <=> frames <= 2)
<1>1. Init => Kept
  BY DEF Init, Kept, UpTo
<1>2. Spec => []Kept
  BY <1>1, NextKept, Invariance, PTL DEF Spec
<1>3. IInv /\ Kept =>
        (pc = "render" => /\ Cardinality(fbs) = frames
                          /\ PreviousFbRemoved <=> frames <= 2)
  <2> SUFFICES ASSUME IInv, Kept, pc = "render" PROVE Cardinality(fbs) = frames
    BY DEF PreviousFbRemoved
  <2>1. frames \in Nat /\ fbs = 2 .. frames + 1
    BY ScanOutAssumption DEF IInv, TypeOK, Kept, UpTo
  <2> QED BY <2>1, FS_Interval
<1> QED BY <1>2, <1>3, Invariance, PTL
=============================================================================
