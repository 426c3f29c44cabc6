------------------------------ MODULE PrimePair -----------------------------
(* drm-prime-simple.cpp and drm-prime-tile.cpp: a child that draws a frame   *)
(* for every 'c' the operator types and sends its prime fd, and a parent     *)
(* that brings it on the screen.  In simple the parent scans out the very    *)
(* buffer the child drew; in tile it draws the received image on a surface   *)
(* of its own and scans that out.                                            *)
(* Frame f is the f-th the child draws; a framebuffer is named by its frame. *)
EXTENDS Integers, Sequences, FiniteSets

CONSTANTS
  NumBos,      \* buffer objects of the child's gbm surface
  MaxFrames,   \* bound: frames the child draws
  SocketCap,   \* bound: messages the socket holds before SendFd blocks
  MsgLen,      \* bytes of a message: 6 in "FD : 7"
  WordSizes,   \* of a size_t on the machines the program runs on
  EventSpace,  \* unread events the kernel keeps for the parent's drm fd
  Faults       \* the calls that may fail

FaultKinds == {"init", "gl", "lock", "fd", "receive", "import", "addfb",
               "flip", "pselect", "handle", "crtc", "kill"}

ASSUME PrimePairAssumption ==
  /\ NumBos \in Nat \ {0} /\ MaxFrames \in Nat
  /\ SocketCap \in Nat \ {0} /\ EventSpace \in Nat \ {0}
  /\ MsgLen \in Nat \ {0} /\ WordSizes \subseteq Nat \ {0}
  /\ Faults \subseteq FaultKinds

Bos == 1 .. NumBos
NoBo == 0
Frames == 1 .. MaxFrames
NoFrame == 0    \* InvalidGBMbo and InvalidGBMprime; on the screen: the console
NoFlip == 0

VARIABLES
  tile,      \* which of the two programs this is
  word,      \* sizeof (_message.size ()): bytes ReceiveFd asks for
  faults,    \* the calls that may fail this time: none or Faults
  hasty,     \* the operator typed 'c' before the last frame was shown
  cpc,       \* where the child is
  drawn,     \* frames drawn so far
  content,   \* the frame last drawn in each bo of the child
  front,     \* the bo of the last swap
  bo,        \* settings.gbm.bo of the child, locked
  boOf,      \* the bo whose fd was exported for a frame
  sent,      \* the last frame sent
  sock,      \* messages and fds under way, named by their frame
  rest,      \* bytes in front of them, of the message received last
  ppc,       \* where the parent is
  prime,     \* settings.gbm.prime of the parent
  pfds,      \* prime fds the parent has open
  pbo,       \* settings.gbm.bo of the parent, named by its frame
  flag,      \* the static _callback_data of ScanOut
  accepts,   \* kernel: the crtc takes page flips
  screen,    \* kernel: the frame on the screen
  pending,   \* kernel: the frame of the flip not yet done
  events     \* kernel: page flip events the parent has not read

setting == <<tile, word, faults>>  \* nothing changes them
childVars == <<setting, hasty, cpc, drawn, content, front, bo, boOf, sent>>
kernelVars == <<accepts, screen, pending, events>>
parentVars == <<ppc, prime, pfds, pbo, flag>>
socketVars == <<sock, rest>>
vars == <<setting, hasty, cpc, drawn, content, front, bo, boOf, sent, sock, rest,
          ppc, prime, pfds, pbo, flag, accepts, screen, pending, events>>

May(call) == call \in faults

(* Both processes after the fork, on a crtc that takes flips or needs a      *)
(* drmModeSetCrtc first.                                                     *)
Init ==
  /\ tile \in BOOLEAN /\ hasty = FALSE
  /\ word \in WordSizes /\ faults \in {{}, Faults}
  /\ cpc = "init" /\ ppc = "init"
  /\ drawn = 0 /\ sent = NoFrame /\ sock = <<>> /\ rest = 0
  /\ content = [b \in Bos |-> NoFrame]
  /\ front = NoBo /\ bo = NoBo
  /\ boOf = [f \in Frames |-> NoBo]
  /\ prime = NoFrame /\ pfds = {} /\ pbo = NoFrame
  /\ flag = TRUE
  /\ accepts \in BOOLEAN
  /\ screen = NoFrame /\ pending = NoFlip /\ events = 0

-----------------------------------------------------------------------------
(* The child: Init, then the loop over ReadKey.                              *)
StartChild ==
  /\ cpc = "init"
  /\ \/ cpc' = "key"
     \/ May("init") /\ cpc' = "exit"
  /\ UNCHANGED <<setting, hasty, drawn, content, front, bo, boOf, sent, socketVars,
                 parentVars, kernelVars>>

(* 'c' makes a frame, another single character is ignored; 'q', a line of    *)
(* another length and the end of the input end the child.                    *)
ReadKey ==
  /\ cpc = "key"
  /\ \E k \in {"c", "other", "q", "Enter", "eof"} :
       \/ /\ k = "c" /\ drawn < MaxFrames
          /\ hasty' = (hasty \/ screen # drawn)
          /\ cpc' = "draw"
       \/ k = "other" /\ UNCHANGED <<hasty, cpc>>
       \/ k \in {"q", "Enter", "eof"} /\ cpc' = "exit" /\ UNCHANGED hasty
  /\ UNCHANGED <<setting, drawn, content, front, bo, boOf, sent, socketVars, parentVars,
                 kernelVars>>

ReleasedFirst == Bos          \* mutant: the old bo is released before the swap
BackBos == Bos \ {bo}

(* BufferColorFill and eglSwapBuffers: EGL draws in a bo that is not locked. *)
(* A fill or swap that fails spoils the bo it drew in.                       *)
SwapIgnored == "export"       \* mutant: a failed fill or swap goes unnoticed
SwapFailed == "key"

Draw ==
  /\ cpc = "draw"
  /\ \E b \in BackBos :
       \/ /\ drawn' = drawn + 1
          /\ content' = [content EXCEPT ![b] = drawn + 1]
          /\ front' = b
          /\ cpc' = "export"
       \/ /\ May("gl")
          /\ content' = [content EXCEPT ![b] = NoFrame]
          /\ cpc' = SwapFailed
          /\ UNCHANGED <<drawn, front>>
  /\ UNCHANGED <<setting, hasty, bo, boOf, sent, socketVars, parentVars, kernelVars>>

(* The bo of the previous frame is released, the front buffer locked and     *)
(* exported.                                                                 *)
Export ==
  /\ cpc = "export"
  /\ \/ /\ bo' = front
        /\ boOf' = [boOf EXCEPT ![drawn] = front]
        /\ cpc' = "send"
     \/ /\ \/ May("lock") /\ bo' = NoBo
           \/ May("fd") /\ bo' = front
        /\ cpc' = "key"
        /\ UNCHANGED boOf
  /\ UNCHANGED <<setting, hasty, drawn, content, front, sent, socketVars,
                 parentVars, kernelVars>>

(* Each process closes the other's end of the socket pair after the fork.    *)
ChildKeepsEnd == TRUE                    \* mutant: no close (_sv [0])
HasReader == ppc # "exit"
ParentKeepsEnd == FALSE                  \* mutant: no close (_sv [1])
Disconnected == cpc = "exit"

(* SendFd, whose result is ignored.  Without a reader SIGPIPE ends the child *)
(* or the call it was blocked in fails.                                      *)
Send ==
  /\ cpc = "send"
  /\ \/ /\ HasReader /\ Len(sock) < SocketCap
        /\ sock' = Append(sock, drawn) /\ sent' = drawn
        /\ cpc' = "key"
     \/ /\ ~HasReader
        /\ cpc' \in {"key", "exit"}
        /\ UNCHANGED <<sock, sent>>
  /\ UNCHANGED <<setting, hasty, drawn, content, front, bo, boOf, rest,
                 parentVars, kernelVars>>

KillChild ==
  /\ May("kill") /\ cpc # "exit"
  /\ cpc' = "exit"
  /\ UNCHANGED <<setting, hasty, drawn, content, front, bo, boOf, sent, socketVars,
                 parentVars, kernelVars>>

-----------------------------------------------------------------------------
(* The parent: Init and FindModeSet, then the loop over ReceiveFd.           *)

(* Deinit and the end of the process: the kernel takes everything back.      *)
ParentEnds ==
  /\ ppc' = "exit"
  /\ prime' = NoFrame /\ pfds' = {} /\ pbo' = NoFrame
  /\ screen' = NoFrame /\ pending' = NoFlip /\ events' = 0
  /\ UNCHANGED <<flag, accepts>>

StartParent ==
  /\ ppc = "init"
  /\ \/ /\ ppc' = "loop"
        /\ UNCHANGED <<prime, pfds, pbo, flag, kernelVars>>
     \/ May("init") /\ ParentEnds
  /\ UNCHANGED <<childVars, socketVars>>

KeepPrime == pfds                  \* mutant: close (prime) forgotten
DropPrime == pfds \ {prime}

(* The head of the loop closes the prime of the previous frame.              *)
ClosePrime ==
  /\ ppc = "loop"
  /\ pfds' = DropPrime /\ prime' = NoFrame
  /\ ppc' = "receive"
  /\ UNCHANGED <<childVars, socketVars, pbo, flag, kernelVars>>

(* recvmsg stops in or after the first message that has an fd; what its      *)
(* buffer has no room for stays in the stream, without the fd.               *)
Receive ==
  /\ ppc = "receive" /\ sock # <<>> /\ rest < word
  /\ prime' = Head(sock) /\ pfds' = pfds \cup {Head(sock)}
  /\ sock' = Tail(sock)
  /\ rest' = IF rest + MsgLen > word THEN rest + MsgLen - word ELSE 0
  /\ ppc' = "import"
  /\ UNCHANGED <<childVars, pbo, flag, kernelVars>>

(* The end of the stream, or bytes without an fd: the parent ends.           *)
ReceiveNothing ==
  /\ ppc = "receive"
  /\ \/ sock = <<>> /\ rest = 0 /\ Disconnected
     \/ sock = <<>> /\ rest > 0
     \/ rest >= word
  /\ ParentEnds
  /\ UNCHANGED <<childVars, socketVars>>

ReceiveFails ==
  /\ ppc = "receive" /\ May("receive")
  /\ ParentEnds
  /\ UNCHANGED <<childVars, socketVars>>

(* Mutant: an import that fails goes unnoticed.                              *)
ImportUnnoticed ==
  /\ ppc = "import"
  /\ \/ pbo' = prime
     \/ May("import") /\ pbo' = NoFrame
  /\ ppc' = "flip"
  /\ UNCHANGED <<childVars, socketVars, prime, pfds, flag, kernelVars>>

(* simple: the bo of the previous frame is destroyed, the received one made. *)
(* tile: image, drawing, swap and lock; a frame not drawn is not scanned out *)
(* and neither is one that has no bo.                                        *)
Import ==
  /\ ppc = "import"
  /\ \/ pbo' = prime /\ ppc' = "flip"
     \/ May("import") /\ pbo' = NoFrame /\ ppc' = "loop"
  /\ UNCHANGED <<childVars, socketVars, prime, pfds, flag, kernelVars>>

(* ScanOut is over: back in the loop, tile releases its bo.                  *)
KeepBo == pbo' = pbo               \* mutant: gbm_surface_release_buffer forgotten
ReleaseBo == pbo' = IF tile THEN NoFrame ELSE pbo
Return == ppc' = "loop" /\ ReleaseBo

NoModeSet == "loop"                \* mutant: EINVAL is an error like any other
MissingSetCrtc == "setcrtc"

(* ScanOut gets its settings by value, so the framebuffer it adds is known   *)
(* to nobody afterwards and never removed.  Its flag is set once, when the   *)
(* program starts, and cleared by the first event.                           *)
PageFlip ==
  /\ ppc = "flip"
  /\ \/ /\ accepts /\ pending = NoFlip /\ events < EventSpace
        /\ pending' = pbo
        /\ IF flag THEN ppc' = "wait" /\ UNCHANGED pbo ELSE Return
     \/ /\ ~accepts \/ May("flip")
        /\ ppc' = MissingSetCrtc
        /\ UNCHANGED <<pbo, pending>>
     \/ /\ \/ pending # NoFlip \/ events = EventSpace
           \/ May("flip") \/ May("addfb")
        /\ Return
        /\ UNCHANGED pending
  /\ UNCHANGED <<childVars, socketVars, prime, pfds, flag, accepts, screen, events>>

FlagKept == UNCHANGED flag         \* mutant: the handler clears nothing
FlagCleared == flag' = FALSE

(* drmHandleEvent reads every event there is.                                *)
HandleEvent ==
  /\ ppc = "wait" /\ flag /\ events > 0
  /\ events' = 0 /\ FlagCleared
  /\ UNCHANGED <<childVars, socketVars, ppc, prime, pfds, pbo, accepts, screen,
                 pending>>

(* pselect ran into its timeout: retry.                                      *)
WaitTimeout == ppc = "wait" /\ flag /\ events = 0 /\ UNCHANGED vars

(* The flag is cleared.                                                      *)
LeaveWait ==
  /\ ppc = "wait" /\ ~flag
  /\ Return
  /\ UNCHANGED <<childVars, socketVars, prime, pfds, flag, kernelVars>>

(* pselect or drmHandleEvent fails.                                          *)
WaitFails ==
  /\ ppc = "wait" /\ flag
  /\ May("pselect") \/ (May("handle") /\ events > 0)
  /\ Return
  /\ UNCHANGED <<childVars, socketVars, prime, pfds, flag, kernelVars>>

(* drmModeGetCrtc, drmModeSetCrtc; the latter waits for a pending flip.      *)
SetCrtc ==
  /\ ppc = "setcrtc"
  /\ \/ pending = NoFlip /\ screen' = pbo /\ accepts' = TRUE
     \/ May("crtc") /\ UNCHANGED <<screen, accepts>>
  /\ Return
  /\ UNCHANGED <<childVars, socketVars, prime, pfds, flag, pending, events>>

KillParent ==
  /\ May("kill") /\ ppc # "exit"
  /\ ParentEnds
  /\ UNCHANGED <<childVars, socketVars>>

(* The kernel: at a vertical blank the pending flip is done and reported.    *)
VerticalBlank ==
  /\ pending # NoFlip
  /\ screen' = pending /\ pending' = NoFlip
  /\ events' = events + 1
  /\ UNCHANGED <<childVars, socketVars, parentVars, accepts>>

Ended == cpc = "exit" /\ ppc = "exit" /\ UNCHANGED vars

-----------------------------------------------------------------------------
ChildStep == StartChild \/ Draw \/ Export \/ Send
ParentStep ==
  \/ StartParent \/ ClosePrime \/ Receive \/ ReceiveNothing \/ Import
  \/ PageFlip \/ HandleEvent \/ LeaveWait \/ WaitTimeout \/ SetCrtc

Next ==
  \/ ChildStep \/ ReadKey \/ ParentStep \/ VerticalBlank
  \/ ReceiveFails \/ WaitFails \/ KillChild \/ KillParent \/ Ended

Spec == Init /\ [][Next]_vars

(* Both processes are scheduled and the display keeps scanning; nobody       *)
(* promises that the operator types, or makes a call that waits fail.        *)
FairSpec ==
  Spec /\ WF_vars(ChildStep) /\ WF_vars(ParentStep) /\ WF_vars(VerticalBlank)

-----------------------------------------------------------------------------
(* The variables have their types.                                           *)
TypeOK ==
  /\ tile \in BOOLEAN /\ hasty \in BOOLEAN
  /\ word \in WordSizes /\ faults \subseteq Faults
  /\ cpc \in {"init", "key", "draw", "export", "send", "exit"}
  /\ drawn \in 0 .. MaxFrames /\ sent \in 0 .. MaxFrames
  /\ content \in [Bos -> 0 .. MaxFrames]
  /\ front \in Bos \cup {NoBo} /\ bo \in Bos \cup {NoBo}
  /\ boOf \in [Frames -> Bos \cup {NoBo}]
  /\ sock \in Seq(Frames) /\ rest \in 0 .. MsgLen
  /\ ppc \in {"init", "loop", "receive", "import", "flip", "wait", "setcrtc",
              "exit"}
  /\ prime \in 0 .. MaxFrames /\ pbo \in 0 .. MaxFrames
  /\ pfds \subseteq Frames
  /\ flag \in BOOLEAN /\ accepts \in BOOLEAN
  /\ screen \in 0 .. MaxFrames /\ pending \in 0 .. MaxFrames
  /\ events \in 0 .. EventSpace

(* However many frames come and whichever of them fail, the parent has one   *)
(* prime fd open at most: the one it works on.                               *)
OnePrime == pfds \subseteq {prime} \ {NoFrame}

(* tile: whatever ScanOut answers, the surface has its bo back before the    *)
(* next frame is drawn, so eglSwapBuffers does not run out of them.          *)
BoReturned == tile /\ ppc \in {"loop", "receive", "import"} => pbo = NoFrame

(* The frame sent last is never drawn over before the next one is sent: the  *)
(* child releases its bo only after it has swapped.  This takes a lock and   *)
(* an export that do not fail, and a parent that is there.                   *)
Sure == faults \cap {"lock", "fd"} = {}
SentIntact == Sure /\ HasReader /\ sent # NoFrame => content[boOf[sent]] = sent

(* The parts of the inductive invariant that are no property of their own.   *)
(* There is a frame to draw, to export, to import; there is room for the     *)
(* event of the pending flip.                                                *)
InHand ==
  /\ cpc = "draw" => drawn < MaxFrames
  /\ cpc \in {"export", "send"} => drawn \in Frames /\ front \in Bos
  /\ ppc = "import" => prime \in Frames
  /\ pending # NoFlip => events < EventSpace

(* Nothing is left of a frame when the next one is received.                 *)
Clean ==
  /\ ppc = "receive" => prime = NoFrame
  /\ tile /\ ppc = "init" => pbo = NoFrame

(* The bo of the frame sent last is the locked one until the next is sent.   *)
SentLocked ==
  Sure /\ HasReader =>
    /\ sent <= drawn /\ (sent # NoFrame => boOf[sent] \in Bos)
    /\ cpc \in {"init", "key", "draw", "export"} /\ sent # NoFrame =>
         boOf[sent] = bo
    /\ cpc \in {"export", "send"} => sent < drawn /\ content[front] = drawn
    /\ cpc = "send" => bo = front /\ boOf[drawn] = front

(* simple, a patient operator, no call failing: the child never draws in the *)
(* bo the screen shows.                                                      *)
ShownIntact ==
  ~tile /\ ~hasty /\ faults = {} /\ screen # NoFrame =>
    content[boOf[screen]] = screen

(* What the last property rests on: the frame sent last is in one place, the *)
(* socket, the parent's hands, the pending flip or the screen, and the next  *)
(* one is drawn when it is on the screen.                                    *)
Patient == ~tile /\ ~hasty /\ faults = {} /\ HasReader

InOnePlace ==
  Patient =>
    LET inHand == ppc \in {"import", "flip", "setcrtc"}
    IN /\ sock \in {<<>>, <<sent>>} /\ pending \in {NoFlip, sent}
       /\ ppc = "import" => prime = sent
       /\ ppc \in {"flip", "setcrtc"} => pbo = sent
       /\ screen \in {sent - 1, sent}
       /\ sock # <<>> => ~inHand
       /\ sock # <<>> \/ inHand => pending = NoFlip
       /\ screen = sent => sock = <<>> /\ ~inHand /\ pending = NoFlip

SentWhenShown ==
  /\ Patient /\ cpc \notin {"export", "send"} => sent = drawn
  /\ Patient /\ cpc \in {"export", "send"} => sent = drawn - 1
  /\ Patient /\ cpc \in {"draw", "export", "send"} => screen = sent
  /\ ~HasReader => screen = NoFrame /\ pending = NoFlip

(* The frames under way are in the order they were drawn in, each newer than *)
(* the screen and the pending flip: in the socket, and before that in the    *)
(* hands of the parent.                                                      *)
Newer(f) == screen < f /\ pending < f
InOrder ==
  /\ sent <= drawn /\ (cpc \in {"export", "send"} => sent < drawn)
  /\ screen <= sent /\ pending <= sent
  /\ pending # NoFlip => screen < pending
  /\ ppc = "import" => Newer(prime) /\ prime <= sent
  /\ ppc \in {"flip", "setcrtc"} => Newer(pbo) /\ pbo <= sent
  /\ \A i \in 1 .. Len(sock) :
       /\ Newer(sock[i]) /\ sock[i] <= sent
       /\ ppc = "import" => prime < sock[i]
       /\ ppc \in {"flip", "setcrtc"} => pbo < sock[i]
       /\ \A j \in 1 .. Len(sock) : i < j => sock[i] < sock[j]

(* Whatever fails and however fast the operator types, the screen never goes *)
(* back: drmModeSetCrtc and the flip that is still pending do not overtake   *)
(* each other, and no frame is shown a second time.                          *)
ScreenAdvances == [][screen' # screen => screen' > screen \/ ppc' = "exit"]_vars

IInv ==
  /\ TypeOK /\ InHand
  /\ OnePrime /\ BoReturned /\ Clean
  /\ SentLocked /\ SentIntact
  /\ InOrder
  /\ InOnePlace /\ SentWhenShown /\ ShownIntact

(* A patient operator sees every frame, although ScanOut stops waiting after *)
(* the first one, as long as no call fails and the kernel has room for the   *)
(* events nobody reads.                                                      *)
EveryFrameShown ==
  \A f \in Frames :
    sent = f ~> screen = f \/ hasty \/ faults # {} \/ events = EventSpace
                \/ ppc = "exit"

(* However the child ends, the parent shows what is under way and ends.      *)
ParentFollows == cpc = "exit" ~> ppc = "exit"

(* The child is never blocked in SendFd for ever.                            *)
SendReturns == cpc = "send" ~> cpc # "send"

(* The parent is never in the wait for a page flip for ever.                 *)
WaitEnds == ppc = "wait" ~> ppc # "wait"

(* With no call failing the parent goes on as long as the child does.        *)
ParentStays == faults = {} /\ ppc = "exit" => cpc = "exit"

(* "Wait until the scan out happens": ScanOut returns when the flip is done. *)
WaitsForScanOut == ppc \in {"loop", "receive"} => pending = NoFlip
=============================================================================
