------------------------- MODULE PrimeSharing_proofs ------------------------
(* Proofs about PrimeSharing, for any number of clients, image slots and     *)
(* buffers: the inductive invariant and what follows from it.                *)
EXTENDS PrimeSharing, SequenceTheorems, TLAPS

(* The start satisfies the invariant.                                        *)
LEMMA InitIInv == Init => IInv
BY PrimeSharingAssumption
DEF Init, IInv, TypeOK, BoNotLost, DistinctSlots, SockOrdered, SockFresh,
    NotYetReceived, FdsReceived, ShareFresh, PrimeNewest, Gone, Keys,
    NoPrime, NoImages, NoBuf, NoClient, Clients, Slots, Buffers

(* What the end of the compositor (whatever the cause) leaves behind keeps   *)
(* the parts of the invariant that are about the compositor.                 *)
LEMMA CompositorEndsIInv ==
  ASSUME IInv, NEW how \in Gone, CompositorEnds(how),
         created' \in 0 .. MaxBuffers, created' >= created,
         UNCHANGED <<sock, clientVars>>, honest' \in BOOLEAN,
         numChilds' \in Clients, key' \in Keys, cin' \in BOOLEAN
  PROVE  IInv'
<1> USE PrimeSharingAssumption
<1>1. TypeOK'
  BY DEF IInv, TypeOK, CompositorEnds, Gone, NoPrime, NoImages, NoBuf,
         NoClient, clientVars, Slots, Buffers, Clients
<1>2. BoNotLost' /\ DistinctSlots' /\ ShareFresh' /\ PrimeNewest'
  BY <1>1 DEF TypeOK, CompositorEnds, BoNotLost, DistinctSlots, ShareFresh,
              PrimeNewest, Gone, NoPrime, NoImages, NoBuf, Slots
<1>3. SockOrdered' /\ FdsReceived'
  BY DEF IInv, SockOrdered, FdsReceived, clientVars
<1>4. SockFresh' /\ NotYetReceived'
  BY DEF IInv, TypeOK, SockFresh, NotYetReceived, clientVars, Buffers
<1> QED BY <1>1, <1>2, <1>3, <1>4 DEF IInv

(* A step that leaves the socket and what was received alone keeps what the  *)
(* invariant says of them.                                                   *)
LEMMA SocketFrame ==
  ASSUME IInv, UNCHANGED <<created, sock, fds, receiver>>
  PROVE  SockOrdered' /\ SockFresh' /\ NotYetReceived' /\ FdsReceived'
BY DEF IInv, SockOrdered, SockFresh, NotYetReceived, FdsReceived

(* The fork loop and the constructors of the compositor.                     *)
LEMMA ForkIInv == IInv /\ Fork => IInv'
<1> SUFFICES ASSUME IInv, Fork PROVE IInv'
  OBVIOUS
<1> USE PrimeSharingAssumption
<1>1. CASE /\ pc' = [pc EXCEPT ![numChilds] = "forked"]
           /\ IF MoreChilds
              THEN numChilds' = numChilds + 1 /\ UNCHANGED cpc
              ELSE cpc' = "construct" /\ UNCHANGED numChilds
           /\ UNCHANGED <<prime, bos, img, index>>
  <2>1. numChilds' \in Clients /\ cpc' \in {"fork", "construct"}
    BY <1>1 DEF Fork, MoreChilds, IInv, TypeOK, Clients
  <2>2. TypeOK'
    BY <1>1, <2>1 DEF Fork, IInv, TypeOK
  <2>3. BoNotLost' /\ DistinctSlots' /\ ShareFresh' /\ PrimeNewest'
    BY <1>1, <2>1 DEF Fork, IInv, BoNotLost, DistinctSlots, ShareFresh,
                      PrimeNewest
  <2> QED BY <2>2, <2>3, SocketFrame DEF Fork, IInv
<1>2. CASE CompositorEnds("failed") /\ UNCHANGED <<pc, numChilds>>
  BY <1>2, CompositorEndsIInv DEF Fork, IInv, TypeOK, Gone, clientVars
<1> QED BY <1>1, <1>2 DEF Fork

(* Closing the clients' end and constructing the compositor keeps it.        *)
LEMMA ConstructIInv == IInv /\ Construct => IInv'
<1> SUFFICES ASSUME IInv, Construct PROVE IInv'
  OBVIOUS
<1> USE PrimeSharingAssumption
<1>1. CASE cpc' = "awaitCreate" /\ UNCHANGED <<prime, bos, img, index>>
  <2>1. TypeOK'
    BY <1>1 DEF Construct, IInv, TypeOK, clientVars
  <2>2. BoNotLost' /\ DistinctSlots' /\ ShareFresh' /\ PrimeNewest'
    BY <1>1 DEF Construct, IInv, BoNotLost, DistinctSlots, ShareFresh,
                PrimeNewest
  <2> QED BY <2>1, <2>2, SocketFrame DEF Construct, IInv, clientVars
<1>2. CASE CompositorEnds("failed")
  BY <1>2, CompositorEndsIInv DEF Construct, IInv, TypeOK, Gone
<1> QED BY <1>1, <1>2 DEF Construct

(* The two prompts.                                                          *)
LEMMA AwaitCreateIInv == IInv /\ AwaitRequestCreateSharingBuffer => IInv'
<1> SUFFICES ASSUME IInv, AwaitRequestCreateSharingBuffer PROVE IInv'
  OBVIOUS
<1> USE PrimeSharingAssumption
<1>1. PICK k \in Keys :
        /\ ReadKey(k)
        /\ \/ /\ k = "c" /\ created < MaxBuffers
              /\ cpc' = "create"
              /\ UNCHANGED <<prime, bos, img, index>>
           \/ /\ k \in {"q", "eof"}
              /\ CompositorEnds("exit")
           \/ /\ k \in {"id", "other", "Enter"}
              /\ UNCHANGED <<cpc, prime, bos, img, index>>
  BY DEF AwaitRequestCreateSharingBuffer
<1>2. key' \in Keys /\ cin' \in BOOLEAN
  BY <1>1 DEF ReadKey
<1>3. UNCHANGED <<numChilds, created, sock, clientVars, honest>> /\ cpc = "awaitCreate"
  BY DEF AwaitRequestCreateSharingBuffer
<1>4. CASE CompositorEnds("exit")
  BY <1>2, <1>3, <1>4, CompositorEndsIInv DEF IInv, TypeOK, Gone
<1>5. CASE /\ cpc' = "create" /\ created < MaxBuffers
           /\ UNCHANGED <<prime, bos, img, index>>
  <2>1. TypeOK'
    BY <1>2, <1>3, <1>5 DEF IInv, TypeOK, clientVars
  <2>2. BoNotLost' /\ DistinctSlots' /\ ShareFresh' /\ PrimeNewest'
    BY <1>3, <1>5 DEF IInv, BoNotLost, DistinctSlots, ShareFresh, PrimeNewest
  <2> QED BY <1>3, <2>1, <2>2, SocketFrame DEF IInv, clientVars
<1>6. CASE UNCHANGED <<cpc, prime, bos, img, index>>
  <2>1. TypeOK'
    BY <1>2, <1>3, <1>6 DEF IInv, TypeOK, clientVars
  <2>2. BoNotLost' /\ DistinctSlots' /\ ShareFresh' /\ PrimeNewest'
    BY <1>3, <1>6 DEF IInv, BoNotLost, DistinctSlots, ShareFresh, PrimeNewest
  <2> QED BY <1>3, <2>1, <2>2, SocketFrame DEF IInv, clientVars
<1> QED BY <1>1, <1>4, <1>5, <1>6

(* Naming a client changes the slot to import in, and nothing else.          *)
LEMMA AwaitCompleteIInv == IInv /\ AwaitRequestCompleteSharingBuffer => IInv'
<1> SUFFICES ASSUME IInv, AwaitRequestCompleteSharingBuffer PROVE IInv'
  OBVIOUS
<1> USE PrimeSharingAssumption
<1>1. key' \in Keys /\ cin' \in BOOLEAN /\ honest' \in BOOLEAN
  BY DEF AwaitRequestCompleteSharingBuffer, ReadKey, IInv, TypeOK
<1>2. /\ UNCHANGED <<numChilds, prime, bos, created, img, sock, clientVars>>
      /\ cpc = "awaitComplete"
  BY DEF AwaitRequestCompleteSharingBuffer
<1>3. CASE cpc' = "import" /\ index' \in Slots
  <2>1. TypeOK'
    BY <1>1, <1>2, <1>3 DEF IInv, TypeOK, clientVars, Slots
  <2>2. BoNotLost' /\ DistinctSlots' /\ ShareFresh' /\ PrimeNewest'
    BY <1>2, <1>3 DEF IInv, BoNotLost, DistinctSlots, ShareFresh, PrimeNewest
  <2> QED BY <1>2, <2>1, <2>2, SocketFrame DEF IInv, clientVars
<1>4. CASE UNCHANGED <<index, cpc>>
  <2>1. TypeOK'
    BY <1>1, <1>2, <1>4 DEF IInv, TypeOK, clientVars
  <2>2. BoNotLost' /\ DistinctSlots' /\ ShareFresh' /\ PrimeNewest'
    BY <1>2, <1>4 DEF IInv, BoNotLost, DistinctSlots, ShareFresh, PrimeNewest
  <2> QED BY <1>2, <2>1, <2>2, SocketFrame DEF IInv, clientVars
<1> QED
  BY <1>3, <1>4 DEF AwaitRequestCompleteSharingBuffer, SlotOf, Slots

(* The compositor between two prompts.                                       *)
LEMMA CreateIInv == IInv /\ CreateSharedBuffer => IInv'
<1> SUFFICES ASSUME IInv, CreateSharedBuffer PROVE IInv'
  OBVIOUS
<1> USE PrimeSharingAssumption
<1>1. created \in 0 .. MaxBuffers - 1 /\ created + 1 \in Buffers
  BY DEF CreateSharedBuffer, IInv, TypeOK, PrimeNewest, Buffers
<1>2. /\ cpc = "create"
      /\ UNCHANGED <<numChilds, key, cin, sock, clientVars, honest>>
  BY DEF CreateSharedBuffer
<1>3. DestroyPrime = {}
  BY <1>2 DEF IInv, BoNotLost, DestroyPrime
<1>4. CASE /\ created' = created + 1
           /\ prime' = [buf |-> created + 1, fd |-> created + 1]
           /\ bos' = DestroyPrime \cup {created + 1}
           /\ cpc' = "share"
  <2>1. bos' = {created + 1} /\ UNCHANGED <<img, index>>
    BY <1>2, <1>4, <1>3 DEF CreateSharedBuffer
  <2>2. TypeOK'
    BY <1>1, <1>2, <1>4, <2>1 DEF IInv, TypeOK, clientVars
  <2>3. BoNotLost' /\ DistinctSlots'
    BY <1>1, <1>4, <2>1 DEF IInv, BoNotLost, DistinctSlots, NoBuf
  <2>4. PrimeNewest'
    <3>1. \A s \in Slots : img[s] \in Nat /\ img[s] <= created
      BY DEF IInv, TypeOK, PrimeNewest, Buffers, NoBuf
    <3> QED BY <1>1, <1>4, <2>1, <3>1 DEF PrimeNewest
  <2>5. SockOrdered' /\ SockFresh' /\ NotYetReceived' /\ FdsReceived'
    <3>1. \A i \in 1 .. Len(sock) : sock[i] \in Buffers
      BY DEF IInv, TypeOK
    <3> QED
      BY <1>1, <1>2, <1>4, <3>1
      DEF IInv, TypeOK, SockOrdered, SockFresh, NotYetReceived, FdsReceived,
          clientVars, Buffers
  <2>6. ShareFresh'
    <3>1. \A i \in 1 .. Len(sock) : sock[i] \in Buffers
      BY DEF IInv, TypeOK
    <3> QED
      BY <1>1, <1>2, <1>4, <3>1
      DEF IInv, SockFresh, NotYetReceived, ShareFresh, clientVars, Buffers
  <2> QED BY <2>2, <2>3, <2>4, <2>5, <2>6 DEF IInv
<1>5. CASE /\ cpc' = "giveUp" /\ created' \in {created, created + 1}
           /\ \/ prime' = NoPrime /\ bos' = {}
              \/ /\ prime' = [buf |-> created + 1, fd |-> NoBuf]
                 /\ bos' = {created + 1}
  <2>1. UNCHANGED <<img, index>>
    BY DEF CreateSharedBuffer
  <2>2. created' \in 0 .. MaxBuffers /\ created' >= created
    BY <1>1, <1>5
  <2>3. prime' \in [buf : Buffers \cup {NoBuf}, fd : Buffers \cup {NoBuf}]
        /\ bos' \subseteq Buffers
    BY <1>1, <1>5 DEF NoPrime
  <2>4. TypeOK'
    BY <1>2, <1>5, <2>1, <2>2, <2>3 DEF IInv, TypeOK, clientVars
  <2>5. BoNotLost' /\ DistinctSlots' /\ ShareFresh'
    BY <1>1, <1>5, <2>1
    DEF IInv, BoNotLost, DistinctSlots, ShareFresh, NoPrime, NoBuf, Buffers
  <2>6. PrimeNewest'
    <3>1. \A s \in Slots : img[s] \in Nat /\ img[s] <= created
      BY DEF IInv, TypeOK, PrimeNewest, Buffers, NoBuf
    <3> QED BY <1>1, <1>5, <2>1, <2>2, <3>1 DEF PrimeNewest
  <2>7. SockOrdered' /\ SockFresh' /\ NotYetReceived' /\ FdsReceived'
    <3>1. \A i \in 1 .. Len(sock) : sock[i] \in Buffers
      BY DEF IInv, TypeOK
    <3> QED
      BY <1>1, <1>2, <2>2, <3>1
      DEF IInv, TypeOK, SockOrdered, SockFresh, NotYetReceived, FdsReceived,
          clientVars, Buffers
  <2> QED BY <2>4, <2>5, <2>6, <2>7 DEF IInv
<1> QED BY <1>4, <1>5, <1>3 DEF CreateSharedBuffer, NewBuffer

(* The end of the process after it.                                          *)
LEMMA GiveUpIInv == IInv /\ GiveUp => IInv'
<1> SUFFICES ASSUME IInv, GiveUp PROVE IInv'
  OBVIOUS
<1> QED BY CompositorEndsIInv DEF GiveUp, IInv, TypeOK, Gone

(* Sending appends the newest buffer, so the socket stays ordered.           *)
LEMMA ShareIInv == IInv /\ ShareBuffer => IInv'
<1> SUFFICES ASSUME IInv, ShareBuffer PROVE IInv'
  OBVIOUS
<1> USE PrimeSharingAssumption
<1>1. /\ cpc = "share"
      /\ UNCHANGED <<numChilds, key, cin, created, clientVars, honest>>
  BY DEF ShareBuffer
<1>2. CASE /\ sock' = Append(sock, prime.fd)
           /\ cpc' = "awaitComplete"
           /\ UNCHANGED <<prime, bos, img, index>>
  <2>1. prime.fd = created /\ created \in Buffers
    BY <1>1 DEF IInv, TypeOK, PrimeNewest, Buffers
  <2>2. TypeOK'
    BY <1>1, <1>2, <2>1 DEF IInv, TypeOK, clientVars
  <2>3. BoNotLost' /\ DistinctSlots' /\ ShareFresh' /\ PrimeNewest'
    BY <1>1, <1>2 DEF IInv, BoNotLost, DistinctSlots, ShareFresh, PrimeNewest
  <2>4. /\ Len(sock') = Len(sock) + 1
        /\ Len(sock) \in Nat
        /\ \A i \in 1 .. Len(sock) : sock'[i] = sock[i]
        /\ sock'[Len(sock) + 1] = created
    BY <1>2, <2>1 DEF IInv, TypeOK
  <2>5. \A i \in 1 .. Len(sock) : sock[i] < created
    BY <1>1 DEF IInv, ShareFresh
  <2>6. SockOrdered'
    BY <2>4, <2>5 DEF IInv, SockOrdered
  <2>7. receiver[created] = NoClient
    BY <1>1 DEF IInv, ShareFresh
  <2>8. SockFresh'
    BY <1>1, <2>1, <2>4, <2>7 DEF IInv, SockFresh, clientVars, Buffers
  <2>9. NotYetReceived' /\ FdsReceived'
    BY <1>1 DEF IInv, NotYetReceived, FdsReceived, clientVars
  <2> QED BY <2>2, <2>3, <2>6, <2>8, <2>9 DEF IInv
<1>3. ASSUME NEW how \in {"killed", "failed"}, CompositorEnds(how),
             UNCHANGED sock
      PROVE  IInv'
  BY <1>1, <1>3, CompositorEndsIInv DEF IInv, TypeOK, Gone
<1> QED BY <1>2, <1>3 DEF ShareBuffer

(* The imported buffer is newer than that of every slot.                     *)
LEMMA ImportBufferIInv == IInv /\ ImportBuffer => IInv'
<1> SUFFICES ASSUME IInv, ImportBuffer PROVE IInv'
  OBVIOUS
<1> USE PrimeSharingAssumption
<1>1. /\ cpc = "import"
      /\ UNCHANGED <<numChilds, key, cin, created, sock, clientVars, honest>>
  BY DEF ImportBuffer
<1>2. CASE /\ img' = [img EXCEPT ![index] = prime.fd]
           /\ index' = 0 /\ cpc' = "render"
           /\ UNCHANGED <<prime, bos>>
  <2>1. /\ index \in Slots /\ prime.fd = created /\ created \in Buffers
        /\ \A s \in Slots : img[s] < created
    BY <1>1 DEF IInv, TypeOK, PrimeNewest, Buffers
  <2>2. TypeOK'
    BY <1>1, <1>2, <2>1 DEF IInv, TypeOK, clientVars
  <2>3. BoNotLost' /\ ShareFresh'
    BY <1>1, <1>2 DEF IInv, BoNotLost, ShareFresh
  <2>4. DistinctSlots' /\ PrimeNewest'
    BY <1>1, <1>2, <2>1
    DEF IInv, TypeOK, DistinctSlots, PrimeNewest, Buffers, NoBuf
  <2> QED BY <1>1, <2>2, <2>3, <2>4, SocketFrame DEF IInv, clientVars
<1>3. CASE CompositorEnds("failed")
  BY <1>1, <1>3, CompositorEndsIInv DEF IInv, TypeOK, Gone
<1> QED BY <1>2, <1>3 DEF ImportBuffer

(* Rendering a slot only advances the index.                                 *)
LEMMA RenderSlotIInv == IInv /\ RenderSlot => IInv'
<1> SUFFICES ASSUME IInv, RenderSlot PROVE IInv'
  OBVIOUS
<1> USE PrimeSharingAssumption
<1>1. /\ cpc = "render" /\ index < MaxImages
      /\ UNCHANGED <<numChilds, key, cin, created, sock, clientVars, honest>>
  BY DEF RenderSlot
<1>2. CASE index' = index + 1 /\ UNCHANGED <<cpc, prime, bos, img>>
  <2>1. TypeOK'
    BY <1>1, <1>2 DEF IInv, TypeOK, clientVars
  <2>2. BoNotLost' /\ DistinctSlots' /\ ShareFresh' /\ PrimeNewest'
    BY <1>1, <1>2 DEF IInv, BoNotLost, DistinctSlots, ShareFresh, PrimeNewest
  <2> QED BY <1>1, <2>1, <2>2, SocketFrame DEF IInv, clientVars
<1>3. CASE CompositorEnds("failed")
  BY <1>1, <1>3, CompositorEndsIInv DEF IInv, TypeOK, Gone
<1> QED BY <1>2, <1>3 DEF RenderSlot

(* Presenting only returns to the prompt.                                    *)
LEMMA PresentIInv == IInv /\ Present => IInv'
<1> SUFFICES ASSUME IInv, Present PROVE IInv'
  OBVIOUS
<1> USE PrimeSharingAssumption
<1>1. /\ cpc = "render"
      /\ UNCHANGED <<numChilds, key, cin, created, sock, clientVars, honest>>
  BY DEF Present
<1>2. CASE cpc' = "awaitCreate" /\ index' = 0 /\ UNCHANGED <<prime, bos, img>>
  <2>1. TypeOK'
    BY <1>1, <1>2 DEF IInv, TypeOK, clientVars
  <2>2. BoNotLost' /\ DistinctSlots' /\ ShareFresh' /\ PrimeNewest'
    BY <1>1, <1>2 DEF IInv, BoNotLost, DistinctSlots, ShareFresh, PrimeNewest
  <2> QED BY <1>1, <2>1, <2>2, SocketFrame DEF IInv, clientVars
<1>3. CASE CompositorEnds("failed")
  BY <1>1, <1>3, CompositorEndsIInv DEF IInv, TypeOK, Gone
<1> QED BY <1>2, <1>3 DEF Present

(* A killed compositor leaves the socket as it is.                           *)
LEMMA KillCompositorIInv == IInv /\ KillCompositor => IInv'
BY CompositorEndsIInv, PrimeSharingAssumption
DEF KillCompositor, IInv, TypeOK, Gone

(* What is left of the socket after a message was taken, or after the last   *)
(* reader ended: still in order, still received by nobody.                   *)
LEMMA Leftover ==
  ASSUME IInv, NEW s, s = sock \/ s = <<>> \/ (sock # <<>> /\ s = Tail(sock))
  PROVE  /\ s \in Seq(Buffers)
         /\ \A i, j \in 1 .. Len(s) : i < j => s[i] < s[j]
         /\ \A i \in 1 .. Len(s) : \E k \in 1 .. Len(sock) :
              s[i] = sock[k] /\ (s # sock => k > 1)
<1>1. CASE s = sock
  BY <1>1 DEF IInv, TypeOK, SockOrdered
<1>2. CASE s = <<>>
  BY <1>2
<1>3. CASE sock # <<>> /\ s = Tail(sock)
  <2>1. /\ s \in Seq(Buffers) /\ Len(sock) \in Nat \ {0}
        /\ Len(s) = Len(sock) - 1
        /\ \A i \in 1 .. Len(s) : s[i] = sock[i + 1]
    BY <1>3 DEF IInv, TypeOK
  <2>2. \A i \in 1 .. Len(s) : i + 1 \in 1 .. Len(sock) /\ i + 1 > 1
    BY <2>1
  <2>3. \A i, j \in 1 .. Len(s) : i < j => s[i] < s[j]
    BY <2>1, <2>2 DEF IInv, SockOrdered
  <2> QED BY <2>1, <2>2, <2>3
<1> QED BY <1>1, <1>2, <1>3

(* The end of a client, whatever its cause, keeps the invariant.             *)
LEMMA ClientEndsIInv ==
  ASSUME IInv, NEW c \in Clients, NEW left, ClientEnds(c, left),
         left = sock \/ (sock # <<>> /\ left = Tail(sock)),
         UNCHANGED <<compVars, receiver>>
  PROVE  IInv'
<1> USE PrimeSharingAssumption
<1>1. sock' = left \/ sock' = <<>>
  BY DEF ClientEnds
<1>2. /\ sock' \in Seq(Buffers)
      /\ \A i, j \in 1 .. Len(sock') : i < j => sock'[i] < sock'[j]
      /\ \A i \in 1 .. Len(sock') : \E k \in 1 .. Len(sock) :
           sock'[i] = sock[k]
  BY <1>1, Leftover
<1>3. TypeOK'
  BY <1>2 DEF ClientEnds, IInv, TypeOK, compVars
<1>4. SockOrdered' /\ SockFresh' /\ ShareFresh'
  BY <1>2 DEF IInv, SockOrdered, SockFresh, ShareFresh, compVars
<1>5. BoNotLost' /\ DistinctSlots' /\ NotYetReceived' /\ PrimeNewest'
  BY DEF IInv, BoNotLost, DistinctSlots, NotYetReceived, PrimeNewest, compVars
<1>6. FdsReceived'
  BY DEF ClientEnds, IInv, TypeOK, FdsReceived
<1> QED BY <1>3, <1>4, <1>5, <1>6 DEF IInv

(* A client that receives: the message leaves the socket, and of what is     *)
(* left nothing is the buffer just received.                                 *)
LEMMA ReceiveIInv ==
  ASSUME IInv, NEW c \in Clients, Receive(c)
  PROVE  IInv'
<1> USE PrimeSharingAssumption
<1>1. pc[c] = "receive" /\ sock # <<>> /\ UNCHANGED compVars
  BY DEF Receive
<1>2. CASE /\ pc' = [pc EXCEPT ![c] = "import"]
           /\ cprime' = [cprime EXCEPT ![c] = Head(sock)]
           /\ fds' = [fds EXCEPT ![c] = @ \cup {Head(sock)}]
           /\ receiver' = [receiver EXCEPT ![Head(sock)] = c]
           /\ sock' = Tail(sock)
           /\ UNCHANGED cimg
  <2>1. /\ Head(sock) = sock[1] /\ 1 \in 1 .. Len(sock)
        /\ Head(sock) \in Buffers
    BY <1>1 DEF IInv, TypeOK
  <2>2. /\ sock' \in Seq(Buffers)
        /\ \A i, j \in 1 .. Len(sock') : i < j => sock'[i] < sock'[j]
        /\ \A i \in 1 .. Len(sock') : \E k \in 1 .. Len(sock) :
             sock'[i] = sock[k] /\ k > 1
    <3>1. Len(sock') # Len(sock)
      BY <1>1, <1>2 DEF IInv, TypeOK
    <3> QED BY <1>1, <1>2, <3>1, Leftover
  <2>3. TypeOK'
    BY <1>1, <1>2, <2>1, <2>2 DEF IInv, TypeOK, compVars
  <2>4. SockOrdered'
    BY <2>2 DEF SockOrdered
  <2>5. /\ receiver[Head(sock)] = NoClient
        /\ Head(sock) <= created
        /\ cpc = "share" => Head(sock) < created
    BY <2>1 DEF IInv, SockFresh, ShareFresh
  <2>6. \A b \in Buffers : b # Head(sock) => receiver'[b] = receiver[b]
    BY <1>2 DEF IInv, TypeOK
  <2>7. \A i \in 1 .. Len(sock') : /\ sock'[i] \in Buffers
                                   /\ sock'[i] # Head(sock)
                                   /\ sock'[i] <= created
                                   /\ receiver[sock'[i]] = NoClient
                                   /\ cpc = "share" => sock'[i] < created
    <3>1. \A k \in 1 .. Len(sock) :
            /\ sock[k] \in Buffers
            /\ k > 1 => sock[1] < sock[k]
      BY <2>1 DEF IInv, TypeOK, SockOrdered
    <3>2. sock[1] \in Int /\ \A k \in 1 .. Len(sock) : sock[k] \in Int
      BY <2>1, <3>1 DEF Buffers
    <3> QED BY <2>1, <2>2, <3>1, <3>2 DEF IInv, SockFresh, ShareFresh
  <2>8. SockFresh'
    BY <1>1, <2>6, <2>7 DEF SockFresh, compVars
  <2>9. NotYetReceived'
    BY <1>1, <2>1, <2>5, <2>6
    DEF IInv, TypeOK, NotYetReceived, compVars, Buffers
  <2>10. FdsReceived'
    BY <1>2, <2>1, <2>5, <2>6 DEF IInv, TypeOK, FdsReceived, Clients, NoClient
  <2>11. ShareFresh'
    <3> SUFFICES ASSUME cpc = "share"
                 PROVE  /\ receiver'[created] = NoClient
                        /\ \A i \in 1 .. Len(sock') : sock'[i] < created
      BY <1>1 DEF ShareFresh, compVars
    <3>1. created \in Buffers /\ Head(sock) # created
      BY <2>1, <2>5 DEF IInv, TypeOK, PrimeNewest, Buffers
    <3> QED BY <2>6, <2>7, <3>1 DEF IInv, ShareFresh
  <2>12. BoNotLost' /\ DistinctSlots' /\ PrimeNewest'
    BY <1>1 DEF IInv, BoNotLost, DistinctSlots, PrimeNewest, compVars
  <2> QED
    BY <2>3, <2>4, <2>8, <2>9, <2>10, <2>11, <2>12 DEF IInv
<1>3. CASE ClientEnds(c, Tail(sock)) /\ UNCHANGED receiver
  BY <1>1, <1>3, ClientEndsIInv
<1> QED BY <1>2, <1>3 DEF Receive

(* The other steps of a client.                                              *)
LEMMA ClientStepIInv ==
  ASSUME IInv, NEW c \in Clients, ClientStep(c) \/ KillClient(c)
  PROVE  IInv'
<1> USE PrimeSharingAssumption
<1>1. ASSUME NEW to \in {"receive", "render"},
             pc' = [pc EXCEPT ![c] = to],
             UNCHANGED <<compVars, cprime, fds, sock, receiver>>,
             cimg' \in [Clients -> Buffers \cup {NoBuf}]
      PROVE  IInv'
  <2>1. TypeOK'
    BY <1>1 DEF IInv, TypeOK, compVars
  <2>2. BoNotLost' /\ DistinctSlots' /\ ShareFresh' /\ PrimeNewest'
    BY <1>1 DEF IInv, BoNotLost, DistinctSlots, ShareFresh, PrimeNewest, compVars
  <2> QED BY <1>1, <2>1, <2>2, SocketFrame DEF IInv, compVars
<1>2. CASE StartClient(c)
  BY <1>1, <1>2, ClientEndsIInv DEF StartClient, IInv, TypeOK
<1>3. CASE Receive(c)
  BY <1>3, ReceiveIInv
<1>4. CASE ReceiveEof(c)
  BY <1>4, ClientEndsIInv DEF ReceiveEof
<1>5. CASE Import(c)
  BY <1>1, <1>5, ClientEndsIInv DEF Import, IInv, TypeOK
<1>6. CASE Render(c)
  BY <1>1, <1>6, ClientEndsIInv DEF Render, IInv, TypeOK
<1>7. CASE KillClient(c)
  BY <1>7, ClientEndsIInv DEF KillClient
<1> QED BY <1>2, <1>3, <1>4, <1>5, <1>6, <1>7 DEF ClientStep

(* The invariant is inductive.                                               *)
LEMMA NextIInv == IInv /\ [Next]_vars => IInv'
<1> SUFFICES ASSUME IInv, [Next]_vars PROVE IInv'
  OBVIOUS
<1>1. CASE CompositorStep
  BY <1>1, ForkIInv, ConstructIInv, CreateIInv, GiveUpIInv, ShareIInv, ImportBufferIInv,
     RenderSlotIInv, PresentIInv DEF CompositorStep
<1>2. CASE Operator
  BY <1>2, AwaitCreateIInv, AwaitCompleteIInv DEF Operator
<1>3. CASE KillCompositor
  BY <1>3, KillCompositorIInv
<1>4. CASE \E c \in Clients : ClientStep(c) \/ KillClient(c)
  BY <1>4, ClientStepIInv
<1>5. CASE UNCHANGED vars
  <2>1. TypeOK'
    BY <1>5 DEF IInv, TypeOK, vars
  <2>2. BoNotLost' /\ DistinctSlots' /\ ShareFresh' /\ PrimeNewest'
    BY <1>5 DEF IInv, BoNotLost, DistinctSlots, ShareFresh, PrimeNewest, vars
  <2> QED BY <1>5, <2>1, <2>2, SocketFrame DEF IInv, vars
<1> QED BY <1>1, <1>2, <1>3, <1>4, <1>5 DEF Next, Finished

-----------------------------------------------------------------------------
(* The invariant holds in every reachable state: main, Compositor::Run and   *)
(* RenderClient::Run keep it, whatever fails and whoever is killed.          *)
THEOREM Invariance == Spec => []IInv
BY InitIInv, NextIInv, PTL DEF Spec

(* Every variable has its type in every reachable state.                     *)
THEOREM TypeCorrect == Spec => []TypeOK
<1>1. IInv => TypeOK
  BY DEF IInv
<1> QED BY <1>1, Invariance, PTL

(* No two clients ever have the same buffer, and none has one that is still  *)
(* under way: a buffer shared through the common socket end has one drawer.  *)
THEOREM OneReceiverHolds == Spec => []OneReceiver
<1>1. IInv => OneReceiver
  <2> SUFFICES ASSUME IInv PROVE OneReceiver
    OBVIOUS
  <2>1. \A c \in Clients : \A b \in fds[c] : receiver[b] = c
    BY DEF IInv, FdsReceived
  <2>2. \A b \in InTransit : receiver[b] = NoClient
    BY DEF IInv, SockFresh, InTransit
  <2> QED BY <2>1, <2>2 DEF OneReceiver, Clients, NoClient
<1> QED BY <1>1, Invariance, PTL

(* The compositor never loses a buffer object on its way round the loop.     *)
THEOREM BoNotLostHolds == Spec => []BoNotLost
<1>1. IInv => BoNotLost
  BY DEF IInv
<1> QED BY <1>1, Invariance, PTL

(* Two image slots of the compositor never show the same buffer.             *)
THEOREM DistinctSlotsHolds == Spec => []DistinctSlots
<1>1. IInv => DistinctSlots
  BY DEF IInv
<1> QED BY <1>1, Invariance, PTL

(* A slot only ever moves on to a newer buffer, until the compositor ends.   *)
THEOREM SlotsAdvanceHolds == Spec => SlotsAdvance
<1> DEFINE Advance ==
      \A s \in Slots : img'[s] # img[s] => img'[s] > img[s] \/ cpc' \in Gone
<1>1. IInv /\ [Next]_vars => [Advance]_vars
  <2> SUFFICES ASSUME IInv, Next PROVE Advance
    BY DEF vars
  <2>1. CASE UNCHANGED img
    BY <2>1
  <2>2. CASE cpc' \in Gone
    BY <2>2
  <2>3. CASE ImportBuffer
    <3>1. CASE img' = [img EXCEPT ![index] = prime.fd]
      <4>1. \A s \in Slots : img[s] < prime.fd /\ img[s] \in Int
        BY <2>3 DEF ImportBuffer, IInv, TypeOK, PrimeNewest, Buffers, NoBuf
      <4>2. prime.fd \in Int
        BY <2>3 DEF ImportBuffer, IInv, TypeOK, PrimeNewest
      <4> QED BY <3>1, <4>1, <4>2 DEF IInv, TypeOK
    <3>2. CASE CompositorEnds("failed")
      BY <3>2 DEF CompositorEnds, Gone
    <3> QED BY <2>3, <3>1, <3>2 DEF ImportBuffer
  <2>4. CASE CompositorStep /\ ~ImportBuffer
    <3>1. UNCHANGED img \/ \E how \in Gone : CompositorEnds(how)
      BY <2>4 DEF CompositorStep, Fork, Construct, CreateSharedBuffer,
                  GiveUp, ShareBuffer, RenderSlot, Present, Gone
    <3> QED BY <2>1, <2>2, <3>1 DEF CompositorEnds
  <2>5. CASE Operator \/ KillCompositor
    <3>1. UNCHANGED img \/ \E how \in Gone : CompositorEnds(how)
      BY <2>5 DEF Operator, AwaitRequestCreateSharingBuffer,
                  AwaitRequestCompleteSharingBuffer, KillCompositor, Gone
    <3> QED BY <2>1, <2>2, <3>1 DEF CompositorEnds
  <2>6. CASE \/ Finished
             \/ \E c \in Clients : ClientStep(c) \/ KillClient(c)
    BY <2>1, <2>6 DEF Finished, ClientStep, KillClient, StartClient, Receive,
                      ReceiveEof, Import, Render, compVars, vars
  <2> QED BY <2>3, <2>4, <2>5, <2>6 DEF Next
<1> QED BY <1>1, Invariance, PTL DEF Spec, SlotsAdvance

(* What is asked of the operator's answers, as long as they are true.        *)
TruthIInv == SlotOfClient /\ AnsweredTrue

(* A step that leaves the answers, the slots and the receivers alone.        *)
LEMMA TruthFrame ==
  ASSUME TruthIInv, UNCHANGED <<cpc, index, prime, img, receiver, honest>>
  PROVE  TruthIInv'
BY DEF TruthIInv, SlotOfClient, AnsweredTrue

(* Steps that neither answer nor fill a slot, the end of the compositor too. *)
LEMMA TruthKept ==
  ASSUME IInv, TruthIInv, cpc' # "import", UNCHANGED <<receiver, honest>>,
         img' = img \/ img' = NoImages
  PROVE  TruthIInv'
BY DEF TruthIInv, SlotOfClient, AnsweredTrue, NoImages

(* An answer is true when it names the client that received the buffer, and  *)
(* the slot of that client is the one to import in.                          *)
LEMMA AnswerTruth ==
  ASSUME IInv, TruthIInv, AwaitRequestCompleteSharingBuffer
  PROVE  TruthIInv'
<1>1. UNCHANGED <<prime, img, receiver>> /\ cpc = "awaitComplete"
  BY DEF AwaitRequestCompleteSharingBuffer, clientVars
<1>2. CASE UNCHANGED <<index, cpc, honest>>
  BY <1>1, <1>2, TruthFrame
<1>3. CASE honest' = FALSE
  BY <1>3 DEF TruthIInv, SlotOfClient, AnsweredTrue
<1>4. ASSUME NEW id \in 1 .. MaxImages, index' = SlotOf(id),
             honest' = (honest /\ id \in Clients /\ receiver[prime.fd] = id)
      PROVE  TruthIInv'
  <2>1. honest' => honest /\ receiver[prime.fd] = id
    BY <1>4
  <2>2. index' + 1 = id
    BY <1>4 DEF SlotOf
  <2>3. SlotOfClient'
    BY <1>1, <2>1 DEF TruthIInv, SlotOfClient
  <2>4. AnsweredTrue'
    BY <1>1, <2>1, <2>2 DEF AnsweredTrue
  <2> QED BY <2>3, <2>4 DEF TruthIInv
<1> QED BY <1>2, <1>3, <1>4 DEF AwaitRequestCompleteSharingBuffer

(* The import puts the buffer in the slot of the client that was named.      *)
LEMMA ImportTruth ==
  ASSUME IInv, TruthIInv, ImportBuffer
  PROVE  TruthIInv'
<1>1. cpc = "import" /\ UNCHANGED <<receiver, honest>>
  BY DEF ImportBuffer, clientVars
<1>2. CASE CompositorEnds("failed")
  BY <1>1, <1>2, TruthKept DEF CompositorEnds
<1>3. CASE img' = [img EXCEPT ![index] = prime.fd] /\ cpc' = "render"
  <2>1. AnsweredTrue'
    BY <1>3 DEF AnsweredTrue
  <2>2. honest => receiver[prime.fd] = index + 1
    BY <1>1 DEF TruthIInv, AnsweredTrue
  <2>3. \A s \in Slots : img'[s] = IF s = index THEN prime.fd ELSE img[s]
    BY <1>3 DEF IInv, TypeOK
  <2>4. SlotOfClient'
    BY <1>1, <2>2, <2>3 DEF TruthIInv, SlotOfClient
  <2> QED BY <2>1, <2>4 DEF TruthIInv
<1> QED BY <1>2, <1>3 DEF ImportBuffer

(* The buffer a client receives had no receiver, so no slot shows it.        *)
LEMMA ReceiveTruth ==
  ASSUME IInv, TruthIInv, NEW c \in Clients, Receive(c)
  PROVE  TruthIInv'
<1>1. UNCHANGED <<cpc, index, prime, img, honest>>
  BY DEF Receive, compVars
<1>2. CASE UNCHANGED receiver
  BY <1>1, <1>2, TruthFrame
<1>3. CASE receiver' = [receiver EXCEPT ![Head(sock)] = c]
  <2>1. Head(sock) = sock[1] /\ 1 \in 1 .. Len(sock)
    BY DEF Receive, IInv, TypeOK
  <2>2. receiver[Head(sock)] = NoClient
    BY <2>1 DEF IInv, SockFresh
  <2>3. \A b \in Buffers : receiver[b] # NoClient => receiver'[b] = receiver[b]
    BY <1>3, <2>2 DEF IInv, TypeOK
  <2>4. SlotOfClient'
    <3>1. ASSUME NEW s \in Slots, img[s] # NoBuf, honest
          PROVE  receiver'[img[s]] = s + 1
      <4>1. img[s] \in Buffers
        BY <3>1 DEF IInv, TypeOK
      <4>2. receiver[img[s]] = s + 1 /\ s + 1 # NoClient
        BY <3>1, PrimeSharingAssumption
        DEF TruthIInv, SlotOfClient, Slots, NoClient
      <4> QED BY <2>3, <4>1, <4>2
    <3> QED BY <1>1, <3>1 DEF SlotOfClient
  <2>5. AnsweredTrue'
    <3>1. ASSUME honest, cpc = "import" PROVE receiver'[prime.fd] = index + 1
      <4>1. prime.fd \in Buffers /\ index \in Nat
        BY <3>1 DEF IInv, TypeOK, PrimeNewest, Buffers
      <4>2. receiver[prime.fd] = index + 1 /\ index + 1 # NoClient
        BY <3>1, <4>1 DEF TruthIInv, AnsweredTrue, NoClient
      <4> QED BY <2>3, <4>1, <4>2
    <3> QED BY <1>1, <3>1 DEF AnsweredTrue
  <2> QED BY <2>4, <2>5 DEF TruthIInv
<1> QED BY <1>2, <1>3 DEF Receive

(* Every step keeps the slots true to the answers.                           *)
LEMMA NextTruth == IInv /\ TruthIInv /\ [Next]_vars => TruthIInv'
<1> SUFFICES ASSUME IInv, TruthIInv, [Next]_vars PROVE TruthIInv'
  OBVIOUS
<1>1. CASE ImportBuffer
  BY <1>1, ImportTruth
<1>2. CASE CompositorStep /\ ~ImportBuffer
  <2>1. cpc' # "import" /\ UNCHANGED <<receiver, honest>>
    BY <1>2 DEF CompositorStep, Fork, Construct, CreateSharedBuffer,
                GiveUp, ShareBuffer, RenderSlot, Present, CompositorEnds, clientVars
  <2>2. img' = img \/ img' = NoImages
    BY <1>2 DEF CompositorStep, Fork, Construct, CreateSharedBuffer,
                GiveUp, ShareBuffer, RenderSlot, Present, CompositorEnds
  <2> QED BY <2>1, <2>2, TruthKept
<1>3. CASE AwaitRequestCreateSharingBuffer \/ KillCompositor
  <2>1. cpc' # "import" /\ UNCHANGED <<receiver, honest>>
    BY <1>3 DEF AwaitRequestCreateSharingBuffer, KillCompositor,
                CompositorEnds, clientVars
  <2>2. img' = img \/ img' = NoImages
    BY <1>3 DEF AwaitRequestCreateSharingBuffer, KillCompositor, CompositorEnds
  <2> QED BY <2>1, <2>2, TruthKept
<1>4. CASE AwaitRequestCompleteSharingBuffer
  BY <1>4, AnswerTruth
<1>5. ASSUME NEW c \in Clients, ClientStep(c) \/ KillClient(c)
      PROVE  TruthIInv'
  <2>1. CASE Receive(c)
    BY <2>1, ReceiveTruth
  <2>2. CASE \/ StartClient(c) \/ ReceiveEof(c) \/ Import(c) \/ Render(c)
             \/ KillClient(c)
    BY <2>2, TruthFrame
    DEF StartClient, ReceiveEof, Import, Render, KillClient, compVars
  <2> QED BY <1>5, <2>1, <2>2 DEF ClientStep
<1>6. CASE UNCHANGED vars
  BY <1>6, TruthFrame DEF vars
<1> QED
  BY <1>1, <1>2, <1>3, <1>4, <1>5, <1>6 DEF Next, Operator, Finished

(* With an operator who answers truly, slot i shows what client i + 1        *)
(* received, whatever fails and in whatever order the clients receive.       *)
THEOREM SlotOfClientHolds == Spec => []SlotOfClient
<1>1. Init => TruthIInv
  BY DEF Init, TruthIInv, SlotOfClient, AnsweredTrue, NoImages
<1>2. Spec => []TruthIInv
  BY <1>1, NextTruth, Invariance, PTL DEF Spec
<1>3. TruthIInv => SlotOfClient
  BY DEF TruthIInv
<1> QED BY <1>2, <1>3, PTL

-----------------------------------------------------------------------------
(* The refinement: how each kind of step looks in the owners of the buffers. *)
LEMMA InitHandoff == Init => H!Init
BY DEF Init, H!Init, Owner, NoClient, NoBuf, H!Buffers, Buffers, H!Unmade

(* A step in which buffers only leave the hands of the compositor or the     *)
(* socket, if they change owner at all, is one of Handoff's losses.          *)
LEMMA LoseHandoff ==
  ASSUME IInv,
         \A b \in Buffers : \/ Owner'[b] = Owner[b]
                            \/ Owner[b] \in {-1, -2} /\ Owner'[b] = -3
  PROVE  H!Lose
<1> DEFINE S == {b \in Buffers : Owner'[b] # Owner[b]}
<1>1. S \in SUBSET {b \in H!Buffers : Owner[b] \in {H!Held, H!Transit}}
  BY DEF H!Buffers, Buffers, H!Held, H!Transit
<1>2. Owner' = [b \in H!Buffers |-> IF b \in S THEN H!Lost ELSE Owner[b]]
  <2>1. Owner' = [b \in Buffers |-> Owner'[b]]
    BY DEF Owner
  <2>2. \A b \in Buffers : Owner'[b] = IF b \in S THEN H!Lost ELSE Owner[b]
    BY DEF H!Lost
  <2> QED BY <2>1, <2>2 DEF H!Buffers, Buffers
<1> QED BY <1>1, <1>2 DEF H!Lose

(* A step that only drops buffers held or under way is H!Lose.               *)
LEMMA LoseStep ==
  ASSUME IInv, UNCHANGED <<receiver, created>>,
         InTransit' \subseteq InTransit,
         cpc' = "share" => cpc = "share" /\ prime' = prime
  PROVE  H!Lose
<1> SUFFICES ASSUME NEW b \in Buffers
             PROVE  \/ Owner'[b] = Owner[b]
                    \/ Owner[b] \in {-1, -2} /\ Owner'[b] = -3
  BY LoseHandoff
<1>1. CASE receiver[b] # NoClient \/ b > created
  BY <1>1 DEF Owner
<1>2. CASE receiver[b] = NoClient /\ ~(b > created)
  <2>1. /\ Owner[b] = IF cpc = "share" /\ b = prime.fd THEN -1
                      ELSE IF b \in InTransit THEN -2 ELSE -3
        /\ Owner'[b] = IF cpc' = "share" /\ b = prime'.fd THEN -1
                       ELSE IF b \in InTransit' THEN -2 ELSE -3
    BY <1>2 DEF Owner
  <2>2. cpc = "share" /\ b = prime.fd => b \notin InTransit
    BY DEF IInv, TypeOK, PrimeNewest, ShareFresh, InTransit, Buffers
  <2> QED BY <2>1, <2>2
<1> QED BY <1>1, <1>2

(* A step that changes nothing of what Owner looks at.                       *)
LEMMA QuietStep ==
  ASSUME IInv, UNCHANGED <<receiver, created, sock>>,
         cpc' # "share" \/ UNCHANGED <<cpc, prime>>
  PROVE  H!Lose
<1>1. InTransit' = InTransit
  BY DEF InTransit
<1> QED BY <1>1, LoseStep

(* Owner' when one buffer changes owner.                                     *)
LEMMA OwnerExcept ==
  ASSUME NEW n \in Buffers, NEW o, Owner'[n] = o,
         \A b \in Buffers : b # n => Owner'[b] = Owner[b]
  PROVE  Owner' = [Owner EXCEPT ![n] = o]
<1>1. /\ Owner' = [b \in Buffers |-> Owner'[b]]
      /\ Owner = [b \in Buffers |-> Owner[b]]
  BY DEF Owner
<1> QED BY <1>1

(* Creating a buffer is H!Make, failing to is H!Make or H!Lose.              *)
LEMMA MakeHandoff == IInv /\ CreateSharedBuffer => H!Next
<1> SUFFICES ASSUME IInv, CreateSharedBuffer PROVE H!Next
  OBVIOUS
<1>1. /\ cpc = "create" /\ cpc' # "create"
      /\ UNCHANGED <<sock, receiver>>
      /\ created \in Nat /\ created + 1 \in Buffers
  <2>1. created < MaxBuffers /\ created \in 0 .. MaxBuffers
    BY DEF CreateSharedBuffer, IInv, TypeOK, PrimeNewest
  <2>2. created \in Nat /\ created + 1 \in Buffers
    BY <2>1, PrimeSharingAssumption DEF Buffers
  <2> QED
    BY <2>2 DEF CreateSharedBuffer, clientVars
<1>2. CASE /\ created' = created + 1
           /\ \/ cpc' = "share" /\ prime'.fd = created + 1
              \/ cpc' = "giveUp"
  <2> DEFINE n == created + 1
             o == IF cpc' = "share" THEN -1 ELSE -3
  <2>1. n \notin InTransit /\ receiver[n] = NoClient
    BY <1>1 DEF IInv, TypeOK, SockFresh, NotYetReceived, InTransit, Buffers
  <2>2. Owner[n] = 0 /\ Owner'[n] = o
    <3>1. InTransit' = InTransit
      BY <1>1 DEF InTransit
    <3> QED BY <1>1, <1>2, <2>1, <3>1 DEF Owner
  <2>3. \A b \in Buffers : b # n => Owner'[b] = Owner[b]
    <3>1. InTransit' = InTransit
      BY <1>1 DEF InTransit
    <3>2. \A b \in Buffers : b # n => (b > created' <=> b > created)
      BY <1>1, <1>2 DEF Buffers
    <3> QED BY <1>1, <1>2, <3>1, <3>2 DEF Owner
  <2>4. Owner' = [Owner EXCEPT ![n] = o]
    BY <1>1, <2>2, <2>3, OwnerExcept
  <2>5. \A a \in Buffers : a < n => Owner[a] # 0
    BY <1>1, PrimeSharingAssumption
    DEF Owner, IInv, TypeOK, NoClient, Clients, Buffers
  <2>6. \A a \in Buffers : Owner[a] # -1
    BY <1>1, PrimeSharingAssumption
    DEF Owner, IInv, TypeOK, NoClient, Clients, Buffers
  <2>7. H!Make(n)
    BY <1>1, <2>2, <2>4, <2>5, <2>6
    DEF H!Make, H!Unmade, H!Held, H!Lost, H!Buffers, Buffers
  <2> QED BY <1>1, <2>7 DEF H!Next, H!Buffers, Buffers
<1>3. CASE created' = created /\ cpc' = "giveUp"
  BY <1>1, <1>3, QuietStep DEF H!Next
<1>4. \/ /\ created' = created + 1 /\ cpc' = "share"
         /\ prime' = [buf |-> created + 1, fd |-> created + 1]
      \/ created' \in {created, created + 1} /\ cpc' = "giveUp"
  BY DEF CreateSharedBuffer, NewBuffer
<1> QED BY <1>2, <1>3, <1>4

(* Sending is H!Send, or H!Lose when no reader is left.                      *)
LEMMA SendHandoff == IInv /\ ShareBuffer => H!Next
<1> SUFFICES ASSUME IInv, ShareBuffer PROVE H!Next
  OBVIOUS
<1>1. /\ cpc = "share" /\ UNCHANGED <<created, receiver>>
      /\ prime.fd = created /\ created \in Buffers
      /\ receiver[created] = NoClient
  BY DEF ShareBuffer, clientVars, IInv, TypeOK, PrimeNewest, ShareFresh, Buffers
<1>2. CASE sock' = Append(sock, prime.fd) /\ cpc' = "awaitComplete"
  <2>1. InTransit' = InTransit \cup {created}
    <3>1. /\ Len(sock') = Len(sock) + 1
          /\ Len(sock) \in Nat
          /\ \A i \in 1 .. Len(sock) : sock'[i] = sock[i]
          /\ sock'[Len(sock) + 1] = created
      BY <1>1, <1>2 DEF IInv, TypeOK
    <3>2. InTransit \cup {created} \subseteq InTransit'
      BY <3>1 DEF InTransit
    <3>3. ASSUME NEW i \in 1 .. Len(sock')
          PROVE  sock'[i] \in InTransit \cup {created}
      BY <3>1 DEF InTransit
    <3> QED BY <3>2, <3>3 DEF InTransit
  <2>2. Owner[created] = -1 /\ Owner'[created] = -2
    BY <1>1, <1>2, <2>1 DEF Owner, Buffers
  <2>3. \A b \in Buffers : b # created => Owner'[b] = Owner[b]
    BY <1>1, <1>2, <2>1 DEF Owner
  <2>4. Owner' = [Owner EXCEPT ![created] = -2]
    BY <1>1, <2>2, <2>3, OwnerExcept
  <2> QED
    BY <1>1, <2>2, <2>4
    DEF H!Next, H!Send, H!Held, H!Transit, H!Buffers, Buffers
<1>3. CASE UNCHANGED sock /\ cpc' \in {"killed", "failed"}
  BY <1>1, <1>3, QuietStep DEF H!Next
<1> QED BY <1>2, <1>3 DEF ShareBuffer, CompositorEnds

(* The end of a client drops nothing, the head or the whole socket.          *)
LEMMA ClientEndsHandoff ==
  ASSUME IInv, NEW c \in Clients, NEW left, ClientEnds(c, left),
         left = sock \/ (sock # <<>> /\ left = Tail(sock)),
         UNCHANGED <<compVars, receiver>>
  PROVE  H!Next
<1>1. sock' = left \/ sock' = <<>>
  BY DEF ClientEnds
<1>2. \A i \in 1 .. Len(sock') : \E k \in 1 .. Len(sock) : sock'[i] = sock[k]
  BY <1>1, Leftover
<1>3. InTransit' \subseteq InTransit
  BY <1>2 DEF InTransit
<1> QED BY <1>3, LoseStep DEF compVars, H!Next

(* The buffer a client receives is the oldest under way, and becomes its own.*)
LEMMA TakeHandoff ==
  ASSUME IInv, NEW c \in Clients, Receive(c)
  PROVE  H!Next
<1>1. /\ sock # <<>> /\ sock \in Seq(Buffers)
      /\ UNCHANGED <<cpc, prime, created>> /\ UNCHANGED compVars
  BY DEF Receive, compVars, IInv, TypeOK
<1>2. CASE /\ receiver' = [receiver EXCEPT ![Head(sock)] = c]
           /\ sock' = Tail(sock)
  <2> DEFINE h == Head(sock)
  <2>1. /\ h = sock[1] /\ 1 \in 1 .. Len(sock) /\ h \in Buffers
        /\ \A k \in 1 .. Len(sock) : sock[k] \in Buffers
    BY <1>1
  <2>2. \A k \in 1 .. Len(sock) : k > 1 => h < sock[k]
    BY <2>1 DEF IInv, SockOrdered
  <2>3. /\ Len(sock) \in Nat /\ Len(sock') = Len(sock) - 1
        /\ \A i \in 1 .. Len(sock') : sock'[i] = sock[i + 1]
    BY <1>1, <1>2
  <2>4. InTransit = InTransit' \cup {h}
    <3>1. ASSUME NEW k \in 1 .. Len(sock) PROVE sock[k] \in InTransit' \cup {h}
      <4>1. CASE k = 1
        BY <2>1, <4>1
      <4>2. CASE k # 1
        <5>1. k - 1 \in 1 .. Len(sock') /\ sock'[k - 1] = sock[k]
          BY <2>3, <4>2
        <5> QED BY <5>1 DEF InTransit
      <4> QED BY <4>1, <4>2
    <3>2. ASSUME NEW i \in 1 .. Len(sock') PROVE sock'[i] \in InTransit
      BY <2>3 DEF InTransit
    <3> QED BY <2>1, <3>1, <3>2 DEF InTransit
  <2>5. \A b \in Buffers : b # h => receiver'[b] = receiver[b]
    BY <1>2 DEF IInv, TypeOK
  <2>6. receiver'[h] = c /\ c # NoClient
    BY <1>2, <2>1 DEF IInv, TypeOK, Clients, NoClient
  <2>7. \A b \in Buffers : b # h => Owner'[b] = Owner[b]
    BY <1>1, <2>4, <2>5 DEF Owner
  <2>8. Owner' = [Owner EXCEPT ![h] = c]
    BY <2>1, <2>6, <2>7, OwnerExcept DEF Owner
  <2>9. Owner[h] = -2
    <3>1. receiver[h] = NoClient /\ h <= created /\ h \in InTransit
      BY <2>1 DEF IInv, SockFresh, InTransit
    <3>2. ~(cpc = "share" /\ h = prime.fd)
      BY <2>1 DEF IInv, ShareFresh, PrimeNewest, Buffers
    <3>3. ~(h > created)
      BY <2>1, <3>1 DEF IInv, TypeOK, Buffers
    <3> QED BY <2>1, <3>1, <3>2, <3>3 DEF Owner
  <2>10. \A a \in Buffers : Owner[a] = -2 => h <= a
    <3> SUFFICES ASSUME NEW a \in Buffers, Owner[a] = -2 PROVE h <= a
      OBVIOUS
    <3>1. a \in InTransit
      BY DEF Owner, IInv, TypeOK, Clients, NoClient
    <3>2. PICK k \in 1 .. Len(sock) : a = sock[k]
      BY <3>1 DEF InTransit
    <3> QED BY <2>1, <2>2, <2>3, <3>2 DEF Buffers
  <2>11. H!Take(h, c)
    BY <2>8, <2>9, <2>10
    DEF H!Take, H!Oldest, H!Transit, H!Buffers, Buffers
  <2> QED
    BY <2>1, <2>11 DEF H!Next, H!Buffers, Buffers, H!Clients, Clients
<1>3. CASE ClientEnds(c, Tail(sock)) /\ UNCHANGED receiver
  BY <1>1, <1>3, ClientEndsHandoff
<1> QED BY <1>2, <1>3 DEF Receive

(* Every step is a step of Handoff or leaves the owners alone.               *)
LEMMA NextHandoff == IInv /\ [Next]_vars => [H!Next]_Owner
<1> SUFFICES ASSUME IInv, [Next]_vars PROVE H!Next
  OBVIOUS
<1>1. CASE CreateSharedBuffer
  BY <1>1, MakeHandoff
<1>2. CASE ShareBuffer
  BY <1>2, SendHandoff
<1>3. CASE Fork \/ Construct \/ GiveUp \/ ImportBuffer \/ RenderSlot \/ Present
  <2>1. UNCHANGED <<receiver, created, sock>> /\ cpc' # "share"
    BY <1>3 DEF Fork, Construct, GiveUp, ImportBuffer, RenderSlot, Present,
                CompositorEnds, clientVars
  <2> QED BY <2>1, QuietStep DEF H!Next
<1>4. CASE Operator \/ KillCompositor
  <2>1. UNCHANGED <<receiver, created, sock>> /\ cpc' # "share"
    BY <1>4 DEF Operator, AwaitRequestCreateSharingBuffer, KillCompositor,
                AwaitRequestCompleteSharingBuffer, CompositorEnds, clientVars
  <2> QED BY <2>1, QuietStep DEF H!Next
<1>5. ASSUME NEW c \in Clients, ClientStep(c) \/ KillClient(c)
      PROVE  H!Next
  <2>1. CASE Receive(c)
    BY <2>1, TakeHandoff
  <2>2. CASE \/ StartClient(c) \/ ReceiveEof(c) \/ Import(c) \/ Render(c)
             \/ KillClient(c)
    <3>1. /\ UNCHANGED <<compVars, receiver>>
          /\ UNCHANGED sock \/ ClientEnds(c, sock)
      BY <2>2 DEF StartClient, ReceiveEof, Import, Render, KillClient
    <3>2. CASE UNCHANGED sock
      BY <3>1, <3>2, QuietStep DEF compVars, H!Next
    <3>3. CASE ClientEnds(c, sock)
      BY <3>1, <3>3, ClientEndsHandoff
    <3> QED BY <3>1, <3>2, <3>3
  <2> QED BY <1>5, <2>1, <2>2 DEF ClientStep
<1>6. CASE UNCHANGED vars
  BY <1>6, QuietStep DEF vars, H!Next
<1> QED
  BY <1>1, <1>2, <1>3, <1>4, <1>5, <1>6 DEF Next, CompositorStep, Finished

(* The processes and their socket implement Handoff: every buffer is made    *)
(* once and handed over at most once, oldest first, to one client for good.  *)
THEOREM Refinement == Spec => HandoffSpec
BY InitHandoff, NextHandoff, Invariance, PTL DEF Spec, HandoffSpec, H!Spec
=============================================================================
