---------------------------- MODULE PrimeSharing ----------------------------
(* The compositor and its render clients (drm-prime-multi.cpp): one parent   *)
(* process forks MaxRenderClients children, all of which read the SAME end   *)
(* of one stream socket.  For every 'c' the operator types, the compositor   *)
(* creates a gbm buffer, sends its prime fd down the socket, waits for the   *)
(* operator to name the client that received it, imports the buffer in the   *)
(* EGL image slot of that client and composes all slots on the screen.       *)
(* Buffers are numbered in the order of their creation; pixels are left out. *)
EXTENDS Integers, Sequences, FiniteSets

CONSTANTS
  MaxRenderClients,  \* Compositor::_max_renderclients
  MaxImages,         \* EGL::_max_images, the image slots of the compositor
  MaxBuffers,        \* bound: how often the operator may type 'c'
  SocketCap,         \* bound: messages the socket holds before Send blocks
  FdLimit,           \* bound: descriptors a client may open for buffers
  Faults             \* the external calls that may fail, see Outcome

FaultKinds == {"fork", "init", "bo", "fd", "image", "gl", "present", "kill"}

ASSUME PrimeSharingAssumption ==
  /\ MaxRenderClients \in Nat \ {0}
  /\ MaxImages \in Nat \ {0}
  /\ MaxBuffers \in Nat
  /\ SocketCap \in Nat \ {0}
  /\ FdLimit \in Nat
  /\ Faults \subseteq FaultKinds

Clients == 1 .. MaxRenderClients
Slots   == 0 .. MaxImages - 1
Buffers == 1 .. MaxBuffers
NoBuf    == 0      \* InvalidBuf, InvalidFd, InvalidImage
NoClient == 0      \* the compositor's own id

VARIABLES
  cpc,        \* where the parent / the compositor is
  numChilds,  \* _num_childs: the child the next fork creates
  key,        \* what the last ReadKey returned
  cin,        \* std::cin is still good (it is never cleared)
  prime,      \* GBM::_prime: its bo and the buffer its fd refers to
  bos,        \* gbm buffer objects the compositor has not destroyed
  created,    \* buffers created so far
  img,        \* EGL::_img of the compositor: slot -> buffer
  index,      \* _index: the slot to import in, then the slot being rendered
  sock,       \* prime fds under way, oldest first
  pc,         \* where each client is
  cprime,     \* the _prime each client received last
  fds,        \* buffers for which a client holds an open fd
  cimg,       \* EGL::_img [0] of each client
  receiver,   \* history: the client that received the buffer
  honest      \* history: every answer named the client that had received

compVars == <<cpc, numChilds, key, cin, prime, bos, created, img, index, honest>>
clientVars == <<pc, cprime, fds, cimg, receiver>>
vars == <<cpc, numChilds, key, cin, prime, bos, created, img, index, sock,
          pc, cprime, fds, cimg, receiver, honest>>

Outcome(call) == IF call \in Faults THEN BOOLEAN ELSE {TRUE}

NoPrime == [buf |-> NoBuf, fd |-> NoBuf]
NoImages == [s \in Slots |-> NoBuf]

Gone == {"exit", "failed", "killed"}
(* The lines ReadKey tells apart: "id" is one of '1' .. MaxImages, "other"   *)
(* any other single character, "Enter" a line of another length, "eof" a     *)
(* stream that is no longer good (its end, an error, a line too long).       *)
Keys == {"c", "q", "id", "other", "Enter", "eof"}

Init ==
  /\ cpc = "fork" /\ numChilds = 1
  /\ key = "Enter" /\ cin = TRUE
  /\ prime = NoPrime /\ bos = {} /\ created = 0
  /\ img = NoImages /\ index = 0
  /\ sock = <<>>
  /\ pc = [c \in Clients |-> "unborn"]
  /\ cprime = [c \in Clients |-> NoBuf]
  /\ fds = [c \in Clients |-> {}]
  /\ cimg = [c \in Clients |-> NoBuf]
  /\ receiver = [b \in Buffers |-> NoClient]
  /\ honest = TRUE

-----------------------------------------------------------------------------
(* The parent process: main, then Compositor::Run.                           *)

(* The process ends: the kernel drops its fds, buffers and images.           *)
CompositorEnds(how) ==
  /\ cpc' = how
  /\ prime' = NoPrime /\ bos' = {} /\ img' = NoImages /\ index' = 0

MoreChildsThanFit == numChilds <= MaxRenderClients  \* mutant: off by one
MoreChilds == numChilds < MaxRenderClients

Fork ==
  /\ cpc = "fork"
  /\ \/ /\ pc' = [pc EXCEPT ![numChilds] = "forked"]
        /\ IF MoreChilds
           THEN numChilds' = numChilds + 1 /\ UNCHANGED cpc
           ELSE cpc' = "construct" /\ UNCHANGED numChilds
        /\ UNCHANGED <<prime, bos, img, index>>
     \/ /\ FALSE \in Outcome("fork")
        /\ CompositorEnds("failed")
        /\ UNCHANGED <<pc, numChilds>>
  /\ UNCHANGED <<key, cin, created, sock, cprime, fds, cimg, receiver, honest>>

(* close (_sv [1]), the constructors, and the Status test of Run.            *)
Construct ==
  /\ cpc = "construct"
  /\ \/ /\ cpc' = "awaitCreate"
        /\ UNCHANGED <<prime, bos, img, index>>
     \/ /\ FALSE \in Outcome("init")
        /\ CompositorEnds("failed")
  /\ UNCHANGED <<numChilds, key, cin, created, sock, clientVars, honest>>

(* ReadKey gives k; a stream that failed once fails for ever.                *)
ReadKey(k) ==
  /\ k # "eof" => cin
  /\ key' = k
  /\ cin' = (k # "eof")

AwaitRequestCreateSharingBuffer ==
  /\ cpc = "awaitCreate"
  /\ \E k \in Keys :
       /\ ReadKey(k)
       /\ \/ /\ k = "c" /\ created < MaxBuffers
             /\ cpc' = "create"
             /\ UNCHANGED <<prime, bos, img, index>>
          \/ /\ k \in {"q", "eof"}
             /\ CompositorEnds("exit")
          \/ /\ k \in {"id", "other", "Enter"}
             /\ UNCHANGED <<cpc, prime, bos, img, index>>
  /\ UNCHANGED <<numChilds, created, sock, clientVars, honest>>

(* The buffer objects GBM::DestroyPrime leaves: all when the fd is invalid.  *)
DestroyPrime == IF prime.fd # NoBuf THEN bos \ {prime.buf} ELSE bos

(* Mutant: an existing buffer is used again, as the TODO there suggests.     *)
ReuseSharedBuffer ==
  /\ cpc = "create"
  /\ created' = 1 /\ prime' = [buf |-> 1, fd |-> 1] /\ bos' = {1}
  /\ cpc' = "share"
  /\ UNCHANGED <<numChilds, key, cin, img, index, sock, clientVars, honest>>

(* CreateSharedBuffer: DestroySharedBuffer, then GBM::CreatePrime.  The bo   *)
(* may not come; come with several planes, and _prime keeps it; or have no   *)
(* fd, and is destroyed.  _prime then has no fd and Run gives up.            *)
NewBuffer == created + 1

CreateSharedBuffer ==
  /\ cpc = "create"
  /\ \/ /\ created' = NewBuffer
        /\ prime' = [buf |-> NewBuffer, fd |-> NewBuffer]
        /\ bos' = DestroyPrime \cup {NewBuffer}
        /\ cpc' = "share"
     \/ /\ FALSE \in Outcome("bo")
        /\ \/ created' = created /\ prime' = NoPrime /\ bos' = DestroyPrime
           \/ /\ created' = NewBuffer
              /\ prime' = [buf |-> NewBuffer, fd |-> NoBuf]
              /\ bos' = DestroyPrime \cup {NewBuffer}
        /\ cpc' = "giveUp"
     \/ /\ FALSE \in Outcome("fd")
        /\ created' = NewBuffer /\ prime' = NoPrime /\ bos' = DestroyPrime
        /\ cpc' = "giveUp"
  /\ UNCHANGED <<numChilds, key, cin, img, index, sock, clientVars, honest>>

(* Mutant: Run waits for the next 'c' after a creation that failed.          *)
TryAgain ==
  /\ cpc = "giveUp"
  /\ cpc' = "awaitCreate"
  /\ UNCHANGED <<numChilds, key, cin, prime, bos, created, img, index, sock, clientVars,
                 honest>>

(* Run says that it cannot render a shared buffer and leaves its loop.       *)
GiveUp ==
  /\ cpc = "giveUp"
  /\ CompositorEnds("failed")
  /\ UNCHANGED <<numChilds, key, cin, created, sock, clientVars, honest>>

(* A child holds the clients' end of the socket from its fork to its end.    *)
Alive(c) == pc[c] \notin {"unborn", "exit"}
ParentKeepsEnd == TRUE                   \* mutant: no close (_sv [1])
HasReader == \E c \in Clients : Alive(c)

(* Base::ShareBuffer (true) and Send.  The call blocks while the socket is   *)
(* full; without a reader SIGPIPE ends the process (no MSG_NOSIGNAL), or     *)
(* the call it was blocked in fails.                                         *)
ShareBuffer ==
  /\ cpc = "share"
  /\ \/ /\ HasReader
        /\ Len(sock) < SocketCap
        /\ sock' = Append(sock, prime.fd)
        /\ cpc' = "awaitComplete"
        /\ UNCHANGED <<prime, bos, img, index>>
     \/ /\ ~HasReader
        /\ \E how \in {"killed", "failed"} : CompositorEnds(how)
        /\ UNCHANGED sock
  /\ UNCHANGED <<numChilds, key, cin, created, clientVars, honest>>

SwappedSlot(id) == MaxImages - id        \* mutant: ids in reverse order
SlotOf(id) == id - 1

(* The loop of AwaitRequestCompleteSharingBuffer: an id chooses its slot,    *)
(* 'q' and the end of the input leave the loop with slot 0.                  *)
AwaitRequestCompleteSharingBuffer ==
  /\ cpc = "awaitComplete"
  /\ \E k \in Keys :
       /\ ReadKey(k)
       /\ \/ /\ k = "id"
             /\ \E id \in 1 .. MaxImages :
                  /\ index' = SlotOf(id)
                  /\ honest' = (honest /\ id \in Clients /\ receiver[prime.fd] = id)
             /\ cpc' = "import"
          \/ /\ k \in {"q", "eof"}
             /\ index' = 0 /\ cpc' = "import" /\ honest' = FALSE
          \/ /\ k \in {"c", "Enter", "other"}
             /\ UNCHANGED <<index, cpc, honest>>
  /\ UNCHANGED <<numChilds, prime, bos, created, img, sock, clientVars>>

(* Mutant: the result of the import is ignored.                              *)
ImportUnchecked ==
  /\ cpc = "import"
  /\ \E b \in {NoBuf, prime.fd} : img' = [img EXCEPT ![index] = b]
  /\ index' = 0 /\ cpc' = "render"
  /\ UNCHANGED <<numChilds, key, cin, prime, bos, created, sock, clientVars, honest>>

(* The call of EGL::ImportBuffer that ends AwaitRequestComplete...: the old  *)
(* image of the slot is destroyed, then the new one is created.              *)
ImportBuffer ==
  /\ cpc = "import"
  /\ \/ /\ img' = [img EXCEPT ![index] = prime.fd]
        /\ index' = 0 /\ cpc' = "render"
        /\ UNCHANGED <<prime, bos>>
     \/ /\ FALSE \in Outcome("image")
        /\ CompositorEnds("failed")
  /\ UNCHANGED <<numChilds, key, cin, created, sock, clientVars, honest>>

(* One turn of the loop of Compositor::Render: a slot that renders keeps     *)
(* _ret true, a slot that does not ends the loop only while _ret is false,   *)
(* which is before any slot has rendered.                                    *)
RenderSlot ==
  /\ cpc = "render" /\ index < MaxImages
  /\ \/ /\ img[index] # NoBuf \/ index > 0
        /\ index' = index + 1
        /\ UNCHANGED <<cpc, prime, bos, img>>
     \/ /\ index = 0
        /\ img[index] = NoBuf \/ FALSE \in Outcome("gl")
        /\ CompositorEnds("failed")
  /\ UNCHANGED <<numChilds, key, cin, created, sock, clientVars, honest>>

(* The end of Compositor::Render: EGL::Render and DRM::ScanOut.              *)
Present ==
  /\ cpc = "render" /\ index = MaxImages
  /\ \/ /\ cpc' = "awaitCreate" /\ index' = 0
        /\ UNCHANGED <<prime, bos, img>>
     \/ /\ FALSE \in Outcome("present")
        /\ CompositorEnds("failed")
  /\ UNCHANGED <<numChilds, key, cin, created, sock, clientVars, honest>>

KillCompositor ==
  /\ FALSE \in Outcome("kill")
  /\ cpc \notin Gone
  /\ CompositorEnds("killed")
  /\ UNCHANGED <<numChilds, key, cin, created, sock, clientVars, honest>>

-----------------------------------------------------------------------------
(* A child process: RenderClient::Run.                                       *)

(* The child ends; with the last reader the messages under way are dropped.  *)
ClientEnds(c, left) ==
  /\ pc' = [pc EXCEPT ![c] = "exit"]
  /\ cprime' = [cprime EXCEPT ![c] = NoBuf]
  /\ fds' = [fds EXCEPT ![c] = {}]
  /\ cimg' = [cimg EXCEPT ![c] = NoBuf]
  /\ sock' = IF HasReader' THEN left ELSE <<>>

(* The child closes its copy of the compositor's end and constructs.         *)
StartClient(c) ==
  /\ pc[c] = "forked"
  /\ \/ /\ pc' = [pc EXCEPT ![c] = "receive"]
        /\ UNCHANGED <<cprime, fds, cimg, sock>>
     \/ /\ FALSE \in Outcome("init")
        /\ ClientEnds(c, sock)
  /\ UNCHANGED <<compVars, receiver>>

(* Mutant: the children do not close (_sv [0]).                              *)
ChildKeepsEnd == cpc \in Gone /\ \A c \in Clients : ~Alive(c)

(* The read end reports end-of-file once no process has the other end open:  *)
(* neither the parent nor a child that has not closed its copy yet.          *)
Disconnected == cpc \in Gone /\ \A c \in Clients : pc[c] # "forked"

(* Base::ShareBuffer (false), the call of Receive.  With no descriptor left  *)
(* recvmsg delivers the bytes without the fd, which ends the child.          *)
Receive(c) ==
  /\ pc[c] = "receive" /\ sock # <<>>
  /\ \/ /\ Cardinality(fds[c]) < FdLimit
        /\ pc' = [pc EXCEPT ![c] = "import"]
        /\ cprime' = [cprime EXCEPT ![c] = Head(sock)]
        /\ fds' = [fds EXCEPT ![c] = @ \cup {Head(sock)}]
        /\ receiver' = [receiver EXCEPT ![Head(sock)] = c]
        /\ sock' = Tail(sock)
        /\ UNCHANGED cimg
     \/ /\ Cardinality(fds[c]) >= FdLimit
        /\ ClientEnds(c, Tail(sock))
        /\ UNCHANGED receiver
  /\ UNCHANGED compVars

ReceiveEof(c) ==
  /\ pc[c] = "receive" /\ sock = <<>>
  /\ Disconnected
  /\ ClientEnds(c, sock)
  /\ UNCHANGED <<compVars, receiver>>

(* Base::ShareBuffer (false), EGL::ImportBuffer of the local _prime, slot 0. *)
Import(c) ==
  /\ pc[c] = "import"
  /\ \/ /\ pc' = [pc EXCEPT ![c] = "render"]
        /\ cimg' = [cimg EXCEPT ![c] = cprime[c]]
        /\ UNCHANGED <<cprime, fds, sock>>
     \/ /\ FALSE \in Outcome("image")
        /\ ClientEnds(c, sock)
  /\ UNCHANGED <<compVars, receiver>>

(* Mutant: after its first buffer a client does not receive again.           *)
RenderAgain(c) ==
  /\ pc[c] = "render"
  /\ \/ /\ pc' = [pc EXCEPT ![c] = "import"]
        /\ UNCHANGED <<cprime, fds, cimg, sock>>
     \/ /\ FALSE \in Outcome("gl")
        /\ ClientEnds(c, sock)
  /\ UNCHANGED <<compVars, receiver>>

(* RenderClient::Render draws in the image of slot 0; DestroyRemoteBuffer    *)
(* only prints, so the fd and the image stay.                                *)
Render(c) ==
  /\ pc[c] = "render"
  /\ \/ /\ pc' = [pc EXCEPT ![c] = "receive"]
        /\ UNCHANGED <<cprime, fds, cimg, sock>>
     \/ /\ FALSE \in Outcome("gl")
        /\ ClientEnds(c, sock)
  /\ UNCHANGED <<compVars, receiver>>

KillClient(c) ==
  /\ FALSE \in Outcome("kill")
  /\ Alive(c)
  /\ ClientEnds(c, sock)
  /\ UNCHANGED <<compVars, receiver>>

(* Every process has ended (a child that was never forked included).         *)
Finished ==
  /\ cpc \in Gone
  /\ \A c \in Clients : ~Alive(c)
  /\ UNCHANGED vars

-----------------------------------------------------------------------------
CompositorStep ==
  \/ Fork \/ Construct \/ CreateSharedBuffer \/ GiveUp \/ ShareBuffer
  \/ ImportBuffer \/ RenderSlot \/ Present

Operator ==
  AwaitRequestCreateSharingBuffer \/ AwaitRequestCompleteSharingBuffer

ClientStep(c) ==
  StartClient(c) \/ Receive(c) \/ ReceiveEof(c) \/ Import(c) \/ Render(c)

Next ==
  \/ CompositorStep
  \/ Operator
  \/ KillCompositor
  \/ \E c \in Clients : ClientStep(c) \/ KillClient(c)
  \/ Finished

Spec == Init /\ [][Next]_vars

(* The kernel schedules every process; nobody promises that the operator     *)
(* ever types a key.                                                         *)
Fairness == WF_vars(CompositorStep) /\ \A c \in Clients : WF_vars(ClientStep(c))

FairSpec == Spec /\ Fairness
-----------------------------------------------------------------------------
(* The variables have their types.                                           *)
TypeOK ==
  /\ cpc \in {"fork", "construct", "awaitCreate", "create", "giveUp", "share",
              "awaitComplete", "import", "render"} \cup Gone
  /\ numChilds \in Clients
  /\ key \in Keys /\ cin \in BOOLEAN
  /\ prime \in [buf : Buffers \cup {NoBuf}, fd : Buffers \cup {NoBuf}]
  /\ bos \subseteq Buffers
  /\ created \in 0 .. MaxBuffers
  /\ img \in [Slots -> Buffers \cup {NoBuf}]
  /\ index \in 0 .. MaxImages
  /\ sock \in Seq(Buffers)
  /\ pc \in [Clients ->
              {"unborn", "forked", "receive", "import", "render", "exit"}]
  /\ cprime \in [Clients -> Buffers \cup {NoBuf}]
  /\ fds \in [Clients -> SUBSET Buffers]
  /\ cimg \in [Clients -> Buffers \cup {NoBuf}]
  /\ receiver \in [Buffers -> Clients \cup {NoClient}]
  /\ honest \in BOOLEAN

InTransit == {sock[i] : i \in 1 .. Len(sock)}

(* Both clients read the same end of the socket, yet a buffer one client has *)
(* is neither open in another client nor still under way to one: no two      *)
(* clients ever draw in the same buffer.                                     *)
OneReceiver ==
  \A c \in Clients :
    /\ fds[c] \cap InTransit = {}
    /\ \A d \in Clients \ {c} : fds[c] \cap fds[d] = {}

(* Compositor::Run never loses a gbm buffer object, whichever step of a      *)
(* creation fails: the only one alive is the one _prime names, and its fd is *)
(* of that buffer, unless its planes made CreatePrime fail; then Run ends    *)
(* before the next creation, which would lose a buffer without an fd.        *)
BoNotLost ==
  /\ bos = {prime.buf} \ {NoBuf}
  /\ prime.fd = prime.buf \/ (cpc = "giveUp" /\ prime.fd = NoBuf)

(* Two image slots never show the same buffer: every id the operator types   *)
(* is answered with a buffer no other slot has.                              *)
DistinctSlots ==
  \A s, t \in Slots : s # t /\ img[s] # NoBuf => img[s] # img[t]

(* EGL::ImportBuffer never puts an older buffer back in a slot: what the     *)
(* compositor shows of a client only gets newer.                             *)
SlotsAdvance ==
  [][\A s \in Slots : img'[s] # img[s] => img'[s] > img[s] \/ cpc' \in Gone]_vars

(* As long as the operator has named the client that received the buffer,    *)
(* slot i shows a buffer that client i + 1, and no other, received.          *)
SlotOfClient ==
  honest => \A s \in Slots : img[s] # NoBuf => receiver[img[s]] = s + 1

(* As long as the operator has named the client that received the buffer,    *)
(* what is rendered is what is drawn: the slot of every running client that  *)
(* has a buffer shows the buffer it draws in, not one it drew in before.     *)
ShownIsDrawn ==
  honest /\ cpc = "render" =>
    \A c \in Clients :
      Alive(c) /\ cprime[c] # NoBuf => c - 1 \in Slots /\ img[c - 1] = cprime[c]

(* The parts of the inductive invariant that are no property of their own.   *)
SockOrdered ==
  \A i, j \in 1 .. Len(sock) : i < j => sock[i] < sock[j]

SockFresh ==
  \A i \in 1 .. Len(sock) :
    sock[i] <= created /\ receiver[sock[i]] = NoClient

NotYetReceived == \A b \in Buffers : b > created => receiver[b] = NoClient

FdsReceived == \A c \in Clients : \A b \in fds[c] : receiver[b] = c

ShareFresh ==
  cpc = "share" =>
    /\ receiver[created] = NoClient
    /\ \A i \in 1 .. Len(sock) : sock[i] < created

PrimeNewest ==
  /\ cpc = "create" => created < MaxBuffers
  /\ cpc = "import" => index \in Slots
  /\ cpc \in {"share", "awaitComplete", "import"} =>
       /\ prime.fd = created /\ created > 0
       /\ \A s \in Slots : img[s] < created
  /\ \A s \in Slots : img[s] <= created

(* What holds in every state and is kept by every step: buffers in the       *)
(* socket are in the order of their creation and nobody has received them.   *)
IInv ==
  /\ TypeOK /\ BoNotLost /\ DistinctSlots
  /\ SockOrdered /\ SockFresh /\ NotYetReceived
  /\ FdsReceived /\ ShareFresh /\ PrimeNewest

(* What SlotOfClient needs besides: of the buffer about to be imported, too. *)
AnsweredTrue == honest /\ cpc = "import" => receiver[prime.fd] = index + 1

(* The buffers as Handoff sees them.                                         *)
Owner ==
  [b \in Buffers |->
     IF receiver[b] # NoClient THEN receiver[b]
     ELSE IF b > created THEN 0
     ELSE IF cpc = "share" /\ b = prime.fd THEN -1
     ELSE IF b \in InTransit THEN -2
     ELSE -3]

H == INSTANCE Handoff WITH owner <- Owner

(* Compositor, socket and clients together hand every buffer over at most    *)
(* once, oldest first, and never take one back.                              *)
HandoffSpec == H!Spec

(* A buffer that was sent is received or, when no client is left or the      *)
(* receiver has no descriptor or image for it, lost; it is not in the socket *)
(* for ever.                                                                 *)
TransitEnds == \A b \in Buffers : b \in InTransit ~> b \notin InTransit

(* The compositor is never blocked in Send for ever: the clients drain the   *)
(* socket or end, and their end ends it.                                     *)
SendReturns == cpc = "share" ~> cpc # "share"

(* When the compositor ends, however it ends, every client ends too: the     *)
(* loop of RenderClient::Run breaks on the disconnected channel.             *)
ClientsFollow == cpc \in Gone ~> \A c \in Clients : ~Alive(c)

(* The operator who waits with an answer is sooner or later able to give a   *)
(* truthful one: a client receives the buffer, unless a client has ended.    *)
AnswerComes ==
  cpc = "awaitComplete" ~>
    \/ cpc # "awaitComplete" \/ receiver[prime.fd] # NoClient
    \/ \E c \in Clients : pc[c] = "exit"

(* The prompt of AwaitRequestCompleteSharingBuffer says 'q' quits: nothing   *)
(* is imported or rendered after it.                                         *)
QuitQuits == key = "q" => cpc \notin {"import", "render"}

(* The prompt asks for the id of the client that received the buffer: with   *)
(* no call failing, true answers do not end the compositor with an error.    *)
TrueAnswerAccepted == honest => cpc # "failed"

(* Each frame ends with DestroyRemoteBuffer, and EGL::ImportBuffer says that *)
(* the previous prime is destroyed: a client has at most one buffer open.    *)
ClientHoldsOneBuffer == \A c \in Clients : Cardinality(fds[c]) <= 1
=============================================================================
