------------------------------- MODULE ScanOut ------------------------------
(* How the compositor of drm-prime-multi.cpp brings a rendered frame on the  *)
(* screen: EGL::Render swaps, DRM::ScanOut locks the front buffer of the gbm *)
(* surface, makes a framebuffer of it, asks the kernel for a page flip and   *)
(* waits for its event before it unlocks.  The kernel flips at a vertical    *)
(* blank of its own choosing.                                                *)
(* Framebuffer ids: 0 is InvalidFb, 1 the one found on the crtc at start,    *)
(* n + 1 the one of frame n.                                                 *)
EXTENDS Integers, FiniteSets

CONSTANTS
  NumBos,     \* buffer objects of the gbm surface
  MaxFrames,  \* bound: frames the compositor renders
  Faults      \* the calls that may fail

FaultKinds ==
  {"lock", "addfb", "flip", "pselect", "handle", "crtc"}

ASSUME ScanOutAssumption ==
  /\ NumBos \in Nat \ {0}
  /\ MaxFrames \in Nat
  /\ Faults \subseteq FaultKinds

Bos == 1 .. NumBos
NoBo == 0                   \* InvalidBuf
InvalidFb == 0
ConsoleFb == 1
Fbs == 2 .. MaxFrames + 1   \* the ids AddFB2 hands out

VARIABLES
  pc,        \* where Compositor::Render is
  frames,    \* frames rendered so far
  front,     \* the bo eglSwapBuffers queued and nobody locked yet
  buf,       \* GBM::_buf, the locked bo
  member,    \* DRM::_fb
  fb,        \* the local _fb of ScanOut that hides it
  waiting,   \* the static _callback_data
  ret,       \* _ret of ScanOut
  fbs,       \* kernel: framebuffers added and not removed
  fbBo,      \* kernel: the bo of a framebuffer
  accepts,   \* kernel: the crtc takes page flips (a mode of its own is set)
  crtcFb,    \* kernel: what the screen shows
  pending,   \* kernel: the framebuffer of the flip not yet done
  events     \* kernel: page flip events not yet read

compVars == <<pc, frames, front, buf, member, fb, waiting, ret>>
kernelVars == <<fbs, fbBo, accepts, crtcFb, pending, events>>
vars == <<pc, frames, front, buf, member, fb, waiting, ret,
          fbs, fbBo, accepts, crtcFb, pending, events>>

May(call) == call \in Faults

(* ValidModeSet found a crtc, with a framebuffer or without, one that takes  *)
(* page flips or needs drmModeSetCrtc first.                                 *)
Init ==
  /\ pc = "render" /\ frames = 0
  /\ front = NoBo /\ buf = NoBo
  /\ fb = InvalidFb /\ waiting = TRUE /\ ret = FALSE
  /\ fbs = {} /\ fbBo = [f \in Fbs |-> NoBo]
  /\ accepts \in BOOLEAN
  /\ member \in {InvalidFb, ConsoleFb} /\ crtcFb = member
  /\ pending = InvalidFb /\ events = 0

-----------------------------------------------------------------------------
(* EGL::Render: eglSwapBuffers queues a bo that nobody has locked.  It fails *)
(* and ends the compositor, as the operator may at the prompt before it.     *)
Render ==
  /\ pc = "render"
  /\ \/ /\ frames < MaxFrames
        /\ front' \in Bos \ {buf}
        /\ frames' = frames + 1
        /\ pc' = "lock"
     \/ /\ pc' = "end"
        /\ UNCHANGED <<front, frames>>
  /\ UNCHANGED <<buf, member, fb, waiting, ret, kernelVars>>

(* GBM::Lock; when it fails ScanOut returns false.                           *)
Lock ==
  /\ pc = "lock"
  /\ \/ /\ buf = NoBo
        /\ buf' = front /\ front' = NoBo
        /\ pc' = "addfb"
     \/ /\ buf # NoBo \/ May("lock")
        /\ pc' = "end"
        /\ UNCHANGED <<buf, front>>
  /\ UNCHANGED <<frames, member, fb, waiting, ret, kernelVars>>

(* The previous framebuffer is forgotten, not removed; the new one is added. *)
AddFb ==
  /\ pc = "addfb"
  /\ member' = InvalidFb
  /\ ret' = FALSE
  /\ \/ /\ fb' = frames + 1
        /\ fbs' = fbs \cup {frames + 1}
        /\ fbBo' = [fbBo EXCEPT ![frames + 1] = buf]
        /\ pc' = "flip"
     \/ /\ May("addfb")
        /\ pc' = "unlock"
        /\ UNCHANGED <<fb, fbs, fbBo>>
  /\ UNCHANGED <<frames, front, buf, waiting, accepts, crtcFb, pending, events>>

(* drmModePageFlip: the kernel answers EINVAL until the crtc has been set and   *)
(* EBUSY while a flip is pending.                                            *)
UnlockEarly(to) == buf' = NoBo /\ pc' = to  \* mutant: Unlock before the flip
KeepLocked(to) == buf' = buf /\ pc' = to

PageFlip ==
  /\ pc = "flip"
  /\ waiting' = TRUE
  /\ \/ /\ accepts /\ pending = InvalidFb
        /\ pending' = fb
        /\ KeepLocked("wait")
     \/ /\ ~accepts \/ May("flip")
        /\ KeepLocked("setcrtc")
        /\ UNCHANGED pending
     \/ /\ pending # InvalidFb \/ May("flip")
        /\ KeepLocked("done")
        /\ UNCHANGED pending
  /\ UNCHANGED <<frames, front, member, fb, ret,
                 fbs, fbBo, accepts, crtcFb, events>>

(* The handler run by drmHandleEvent clears the flag.                        *)
EventKept == UNCHANGED events            \* mutant: the event is not consumed
EventRead == events' = events - 1
FlagKept == UNCHANGED waiting            \* mutant: the handler clears nothing
FlagCleared == waiting' = FALSE

(* One turn of the wait loop in which pselect reports the fd readable.  The  *)
(* removal of the previous framebuffer looks at the member AddFb has reset.  *)
HandleEvent ==
  /\ pc = "wait" /\ waiting
  /\ events > 0
  /\ \/ /\ ret' = TRUE
        /\ EventRead /\ FlagCleared
        /\ fbs' = fbs \ {member}
        /\ member' = InvalidFb
        /\ UNCHANGED pc
     \/ /\ May("handle")
        /\ ret' = FALSE /\ pc' = "done"
        /\ UNCHANGED <<events, waiting, fbs, member>>
  /\ UNCHANGED <<frames, front, buf, fb, fbBo, accepts, crtcFb, pending>>

(* A turn without an event: a timeout tries again, an error gives up.        *)
PselectIgnored == ret' = TRUE            \* mutant: the error counts as done
PselectReported == UNCHANGED ret

WaitNoEvent ==
  /\ pc = "wait" /\ waiting
  /\ \/ /\ events = 0
        /\ UNCHANGED <<pc, ret>>
     \/ /\ May("pselect")
        /\ pc' = "done" /\ PselectReported
  /\ UNCHANGED <<frames, front, buf, member, fb, waiting, kernelVars>>

WaitDone ==
  /\ pc = "wait" /\ ~waiting
  /\ pc' = "done"
  /\ UNCHANGED <<frames, front, buf, member, fb, waiting, ret, kernelVars>>

CrtcIgnored == ret' = TRUE               \* mutant: a failed mode set is done
CrtcReported == UNCHANGED ret

(* The EINVAL branch: drmModeGetCrtc, drmModeSetCrtc.                        *)
SetCrtc ==
  /\ pc = "setcrtc"
  /\ pc' = "done"
  /\ \/ /\ ret' = TRUE
        /\ accepts' = TRUE /\ crtcFb' = fb /\ pending' = InvalidFb
     \/ /\ May("crtc") /\ CrtcReported
        /\ UNCHANGED <<accepts, crtcFb, pending>>
  /\ UNCHANGED <<frames, front, buf, member, fb, waiting, fbs, fbBo, events>>

(* DRM::_fb = _fb, whatever came of the flip.                                *)
Done ==
  /\ pc = "done"
  /\ member' = fb
  /\ pc' = "unlock"
  /\ UNCHANGED <<frames, front, buf, fb, waiting, ret, kernelVars>>

(* GBM::Unlock; a false result ends Compositor::Run.                         *)
Unlock ==
  /\ pc = "unlock"
  /\ buf' = NoBo
  /\ pc' = IF ret THEN "render" ELSE "end"
  /\ UNCHANGED <<frames, front, member, fb, waiting, ret, kernelVars>>

(* The kernel: at a vertical blank the pending flip is done and reported.    *)
VerticalBlank ==
  /\ pending # InvalidFb
  /\ crtcFb' = pending
  /\ pending' = InvalidFb
  /\ events' = events + 1
  /\ UNCHANGED <<compVars, fbs, fbBo, accepts>>

Ended == pc = "end" /\ UNCHANGED vars

-----------------------------------------------------------------------------
CompositorStep ==
  \/ Render \/ Lock \/ AddFb \/ PageFlip \/ HandleEvent \/ WaitNoEvent
  \/ WaitDone \/ SetCrtc \/ Done \/ Unlock

Next == CompositorStep \/ VerticalBlank \/ Ended

Spec == Init /\ [][Next]_vars

(* The process is scheduled and the display keeps scanning; nobody makes a   *)
(* call of the wait loop fail.                                               *)
WaitFails == pc = "wait" /\ waiting /\ pc' # pc

FairSpec ==
  Spec /\ WF_vars(CompositorStep /\ ~WaitFails) /\ WF_vars(VerticalBlank)

-----------------------------------------------------------------------------
(* The variables have their types; the kernel never has two events for the   *)
(* compositor.                                                               *)
TypeOK ==
  /\ pc \in {"render", "lock", "addfb", "flip", "wait", "setcrtc", "done",
             "unlock", "end"}
  /\ frames \in 0 .. MaxFrames
  /\ front \in Bos \cup {NoBo} /\ buf \in Bos \cup {NoBo}
  /\ {member, fb, crtcFb, pending} \subseteq Fbs \cup {InvalidFb, ConsoleFb}
  /\ waiting \in BOOLEAN /\ ret \in BOOLEAN /\ accepts \in BOOLEAN
  /\ fbs \subseteq Fbs
  /\ fbBo \in [Fbs -> Bos \cup {NoBo}]
  /\ events \in 0 .. 1

(* When ScanOut has succeeded and the next frame is rendered, the previous   *)
(* one is settled: it is what the screen shows, its framebuffer exists, no   *)
(* flip is pending and no event is left that the next wait would take for    *)
(* its own.                                                                  *)
FrameSettled ==
  pc \in {"render", "lock"} /\ member \in Fbs =>
    /\ crtcFb = member /\ member \in fbs
    /\ pending = InvalidFb /\ events = 0

(* The buffer the kernel is about to show stays locked until it is shown:    *)
(* EGL gets no chance to draw in it before the flip.                         *)
LockedWhilePending ==
  pending # InvalidFb /\ pc # "end" => buf = fbBo[pending]

(* The inductive invariant: from AddFb to Unlock the local framebuffer is of *)
(* the locked bo; the flip asked for is pending, or done and not yet read,   *)
(* or settled; and a true result is given only for a settled one.            *)
Quiet == pending = InvalidFb /\ events = 0
Settled == Quiet /\ crtcFb = fb
Flipping == pending = fb /\ events = 0
Flipped == pending = InvalidFb /\ events = 1 /\ crtcFb = fb
InHand == fb \in Fbs /\ fb \in fbs /\ fbBo[fb] = buf

IInv ==
  /\ TypeOK
  /\ pc \in {"lock", "addfb"} => frames + 1 \in Fbs
  /\ pc \in {"render", "lock"} =>
       Quiet /\ (member \in Fbs => crtcFb = member /\ member \in fbs)
  /\ pc = "addfb" => Quiet
  /\ pc \in {"flip", "wait", "setcrtc", "done"} =>
       InHand /\ member = InvalidFb
  /\ pc \in {"flip", "setcrtc"} => Quiet /\ ~ret
  /\ pc = "wait" => IF waiting THEN ~ret /\ (Flipping \/ Flipped)
                              ELSE ret /\ Settled
  /\ pc \in {"done", "unlock"} =>
       /\ ret => Settled
       /\ Quiet \/ (InHand /\ (Flipping \/ Flipped))
  /\ pc = "unlock" /\ ret => InHand /\ member = fb
  /\ pending # InvalidFb => events = 0

(* The crtc as Display sees it.                                              *)
Screen == IF crtcFb \in Fbs THEN crtcFb - 1 ELSE 0

D == INSTANCE Display WITH screen <- Screen, running <- (pc # "end")

(* However the kernel's flips and the calls that fail fall, no frame is      *)
(* rendered before the last one is on the screen, and none is skipped.       *)
DisplaySpec == D!Spec

(* The wait for the page flip ends, and not for want of an error.            *)
WaitEnds == pc = "wait" ~> pc # "wait"

(* Every frame that EGL rendered gets on the screen, the first one on a crtc *)
(* without a mode included, or is the last one: none is dropped quietly.     *)
EveryFrameShown ==
  \A f \in Fbs :
    frames + 1 = f ~> crtcFb = f \/ (pc = "end" /\ frames + 1 = f)

(* The comments of ScanOut say the previous framebuffer is removed after the *)
(* flip: only the one shown and the one about to be shown exist.             *)
PreviousFbRemoved == Cardinality(fbs) <= 2
=============================================================================
