------------------------- MODULE SharingTruth_proofs ------------------------
(* More proofs about PrimeSharing: what a client has of the buffers it       *)
(* received, and what the compositor shows of them when the operator's       *)
(* answers are true.                                                         *)
EXTENDS PrimeSharing_proofs

-----------------------------------------------------------------------------
(* What a client knows.  Children are forked one after the other, and one    *)
(* that is not yet forked has received nothing.                              *)
ForkedInTurn ==
  cpc = "fork" => \A c \in Clients : c >= numChilds => pc[c] = "unborn"

NothingUnborn ==
  \A c \in Clients : pc[c] = "unborn" => \A b \in Buffers : receiver[b] # c

(* A client that runs has an open fd for every buffer it ever received.      *)
FdsKept ==
  \A c \in Clients :
    fds[c] = IF Alive(c) THEN {b \in Buffers : receiver[b] = c} ELSE {}

(* The buffer a client draws in is the newest of them.                       *)
DrawsInNewest ==
  \A c \in Clients :
    IF fds[c] = {} THEN cprime[c] = NoBuf
    ELSE cprime[c] \in fds[c] /\ \A b \in fds[c] : b <= cprime[c]

(* Nothing that is under way is older than a buffer received.                *)
NoOvertaking ==
  \A b \in Buffers :
    receiver[b] # NoClient => \A i \in 1 .. Len(sock) : b < sock[i]

Knows ==
  ForkedInTurn /\ NothingUnborn /\ FdsKept /\ DrawsInNewest /\ NoOvertaking

(* Nobody has anything at the start.                                         *)
LEMMA InitKnows == Init => Knows
<1> SUFFICES ASSUME Init PROVE Knows
  OBVIOUS
<1>1. /\ \A c \in Clients : /\ pc[c] = "unborn" /\ fds[c] = {}
                            /\ cprime[c] = NoBuf /\ ~Alive(c)
      /\ \A b \in Buffers : receiver[b] = NoClient
  BY DEF Init, Alive
<1>2. \A c \in Clients : c # NoClient
  BY DEF Clients, NoClient
<1> QED
  BY <1>1, <1>2
  DEF Knows, ForkedInTurn, NothingUnborn, FdsKept, DrawsInNewest, NoOvertaking

(* Steps of the compositor, but for a send: no client takes part.            *)
LEMMA CompositorKnows ==
  ASSUME Knows, UNCHANGED <<clientVars, sock>>,
         cpc' # "fork" \/ UNCHANGED <<cpc, numChilds>>
  PROVE  Knows'
<1>1. \A c \in Clients : Alive(c)' <=> Alive(c)
  BY DEF Alive, clientVars
<1> QED
  BY <1>1 DEF Knows, ForkedInTurn, NothingUnborn, FdsKept, DrawsInNewest,
              NoOvertaking, clientVars

(* The next child is forked with nothing received.                           *)
LEMMA ForkKnows == IInv /\ Knows /\ Fork => Knows'
<1> SUFFICES ASSUME IInv, Knows, Fork PROVE Knows'
  OBVIOUS
<1>1. CASE CompositorEnds("failed") /\ UNCHANGED <<pc, numChilds>>
  BY <1>1, CompositorKnows DEF Fork, CompositorEnds, clientVars
<1>2. CASE /\ pc' = [pc EXCEPT ![numChilds] = "forked"]
           /\ IF MoreChilds
              THEN numChilds' = numChilds + 1 /\ UNCHANGED cpc
              ELSE cpc' = "construct" /\ UNCHANGED numChilds
  <2>1. /\ cpc = "fork" /\ pc[numChilds] = "unborn" /\ numChilds \in Clients
        /\ UNCHANGED <<sock, cprime, fds, receiver>>
    BY DEF Fork, Knows, ForkedInTurn, IInv, TypeOK, Clients
  <2>2. \A c \in Clients :
          pc'[c] = IF c = numChilds THEN "forked" ELSE pc[c]
    BY <1>2 DEF IInv, TypeOK
  <2>3. ForkedInTurn'
    <3> SUFFICES ASSUME cpc' = "fork", NEW c \in Clients, c >= numChilds'
                 PROVE  pc'[c] = "unborn"
      BY DEF ForkedInTurn
    <3>1. numChilds' = numChilds + 1
      BY <1>2
    <3>2. c >= numChilds /\ c # numChilds
      BY <2>1, <3>1 DEF Clients
    <3> QED BY <2>1, <2>2, <3>2 DEF Knows, ForkedInTurn
  <2>4. NothingUnborn'
    BY <2>1, <2>2 DEF Knows, NothingUnborn
  <2>5. FdsKept'
    <3> SUFFICES ASSUME NEW c \in Clients
                 PROVE  fds[c] = IF Alive(c)' THEN {b \in Buffers : receiver[b] = c}
                                 ELSE {}
      BY <2>1 DEF FdsKept
    <3>1. fds[c] = IF Alive(c) THEN {b \in Buffers : receiver[b] = c} ELSE {}
      BY DEF Knows, FdsKept
    <3>2. CASE c = numChilds
      <4>1. {b \in Buffers : receiver[b] = c} = {}
        BY <2>1, <3>2 DEF Knows, NothingUnborn
      <4> QED BY <3>1, <4>1
    <3>3. CASE c # numChilds
      BY <2>2, <3>1, <3>3 DEF Alive
    <3> QED BY <3>2, <3>3
  <2> QED
    BY <2>1, <2>3, <2>4, <2>5 DEF Knows, DrawsInNewest, NoOvertaking
<1> QED BY <1>1, <1>2 DEF Fork

(* What is sent is newer than everything received.                           *)
LEMMA ShareKnows == IInv /\ Knows /\ ShareBuffer => Knows'
<1> SUFFICES ASSUME IInv, Knows, ShareBuffer PROVE Knows'
  OBVIOUS
<1>1. CASE UNCHANGED sock /\ cpc' # "fork"
  BY <1>1, CompositorKnows DEF ShareBuffer
<1>2. CASE sock' = Append(sock, prime.fd) /\ cpc' = "awaitComplete"
  <2>1. /\ cpc = "share" /\ prime.fd = created /\ created \in Buffers
        /\ receiver[created] = NoClient /\ UNCHANGED clientVars
    BY DEF ShareBuffer, IInv, TypeOK, PrimeNewest, ShareFresh, Buffers
  <2>2. /\ Len(sock) \in Nat /\ Len(sock') = Len(sock) + 1
        /\ \A i \in 1 .. Len(sock') :
             sock'[i] = IF i = Len(sock) + 1 THEN created ELSE sock[i]
    BY <1>2, <2>1 DEF IInv, TypeOK
  <2>3. \A b \in Buffers : receiver[b] # NoClient => b < created
    <3>1. \A b \in Buffers : receiver[b] # NoClient => ~(b > created)
      BY DEF IInv, NotYetReceived
    <3> QED BY <2>1, <3>1 DEF Buffers
  <2>4. NoOvertaking'
    BY <2>1, <2>2, <2>3 DEF Knows, NoOvertaking, clientVars
  <2>5. \A c \in Clients : Alive(c)' <=> Alive(c)
    BY <2>1 DEF Alive, clientVars
  <2> QED
    BY <1>2, <2>1, <2>4, <2>5
    DEF Knows, ForkedInTurn, NothingUnborn, FdsKept, DrawsInNewest, clientVars
<1>3. \/ sock' = Append(sock, prime.fd) /\ cpc' = "awaitComplete"
      \/ UNCHANGED sock /\ cpc' # "fork"
  BY DEF ShareBuffer, CompositorEnds
<1> QED BY <1>1, <1>2, <1>3

(* A client goes from one of its calls to the next.                          *)
LEMMA GoesOnKnows ==
  ASSUME IInv, Knows, NEW c \in Clients, Alive(c),
         NEW to \in {"receive", "import", "render"}, pc' = [pc EXCEPT ![c] = to],
         UNCHANGED <<compVars, cprime, fds, sock, receiver>>
  PROVE  Knows'
<1>1. \A d \in Clients : pc'[d] = IF d = c THEN to ELSE pc[d]
  BY DEF IInv, TypeOK
<1>2. pc[c] # "unborn" /\ \A d \in Clients : Alive(d)' <=> Alive(d)
  BY <1>1 DEF Alive
<1>3. \A d \in Clients : pc'[d] = "unborn" <=> pc[d] = "unborn"
  BY <1>1, <1>2
<1> QED
  BY <1>2, <1>3
  DEF Knows, ForkedInTurn, NothingUnborn, FdsKept, DrawsInNewest, NoOvertaking,
      compVars

(* A client that ends loses its fds; what is left under way was so before.   *)
LEMMA ClientEndsKnows ==
  ASSUME IInv, Knows, NEW c \in Clients, Alive(c), NEW left, ClientEnds(c, left),
         left = sock \/ (sock # <<>> /\ left = Tail(sock)),
         UNCHANGED <<compVars, receiver>>
  PROVE  Knows'
<1>1. \A d \in Clients : /\ pc'[d] = IF d = c THEN "exit" ELSE pc[d]
                         /\ fds'[d] = IF d = c THEN {} ELSE fds[d]
                         /\ cprime'[d] = IF d = c THEN NoBuf ELSE cprime[d]
  BY DEF ClientEnds, IInv, TypeOK
<1>2. \A d \in Clients : Alive(d)' <=> Alive(d) /\ d # c
  BY <1>1 DEF Alive
<1>3. sock' = left \/ sock' = <<>>
  BY DEF ClientEnds
<1>4. \A i \in 1 .. Len(sock') : \E k \in 1 .. Len(sock) : sock'[i] = sock[k]
  BY <1>3, Leftover
<1>5. NoOvertaking'
  BY <1>4 DEF Knows, NoOvertaking
<1>6. ForkedInTurn' /\ NothingUnborn'
  BY <1>1 DEF Knows, ForkedInTurn, NothingUnborn, compVars, Alive
<1>7. FdsKept' /\ DrawsInNewest'
  BY <1>1, <1>2 DEF Knows, FdsKept, DrawsInNewest
<1> QED BY <1>5, <1>6, <1>7 DEF Knows

(* What a client receives is newer than all it has, and becomes its own.     *)
LEMMA ReceiveKnows ==
  ASSUME IInv, Knows, NEW c \in Clients, Receive(c)
  PROVE  Knows'
<1>1. pc[c] = "receive" /\ sock # <<>> /\ UNCHANGED compVars /\ Alive(c)
  BY DEF Receive, Alive
<1>2. CASE ClientEnds(c, Tail(sock)) /\ UNCHANGED receiver
  BY <1>1, <1>2, ClientEndsKnows
<1>3. CASE /\ pc' = [pc EXCEPT ![c] = "import"]
           /\ cprime' = [cprime EXCEPT ![c] = Head(sock)]
           /\ fds' = [fds EXCEPT ![c] = @ \cup {Head(sock)}]
           /\ receiver' = [receiver EXCEPT ![Head(sock)] = c]
           /\ sock' = Tail(sock)
  <2> DEFINE h == Head(sock)
  <2>1. /\ h = sock[1] /\ 1 \in 1 .. Len(sock) /\ h \in Buffers
        /\ Len(sock) \in Nat
    BY <1>1 DEF IInv, TypeOK
  <2>2. receiver[h] = NoClient
    BY <2>1 DEF IInv, SockFresh
  <2>3. /\ \A d \in Clients : /\ pc'[d] = IF d = c THEN "import" ELSE pc[d]
                              /\ cprime'[d] = IF d = c THEN h ELSE cprime[d]
                              /\ fds'[d] = IF d = c THEN fds[d] \cup {h}
                                                    ELSE fds[d]
        /\ \A b \in Buffers : receiver'[b] = IF b = h THEN c ELSE receiver[b]
    BY <1>3, <2>1 DEF IInv, TypeOK
  <2>4. \A d \in Clients : Alive(d)' <=> Alive(d)
    BY <1>1, <2>3 DEF Alive
  <2>5. \A d \in Clients : d # NoClient
    BY DEF Clients, NoClient
  <2>6. ForkedInTurn'
    BY <1>1, <2>3 DEF Knows, ForkedInTurn, compVars
  <2>7. NothingUnborn'
    BY <1>1, <2>3 DEF Knows, NothingUnborn
  <2>8. FdsKept'
    <3> SUFFICES ASSUME NEW d \in Clients
                 PROVE  fds'[d] = IF Alive(d)' THEN {b \in Buffers : receiver'[b] = d}
                                  ELSE {}
      BY DEF FdsKept
    <3>1. fds[d] = IF Alive(d) THEN {b \in Buffers : receiver[b] = d} ELSE {}
      BY DEF Knows, FdsKept
    <3>2. CASE d = c
      <4>1. {b \in Buffers : receiver'[b] = d} =
              {b \in Buffers : receiver[b] = d} \cup {h}
        BY <2>1, <2>3, <3>2
      <4> QED BY <1>1, <2>3, <2>4, <3>1, <3>2, <4>1
    <3>3. CASE d # c
      <4>1. {b \in Buffers : receiver'[b] = d} = {b \in Buffers : receiver[b] = d}
        BY <2>2, <2>3, <2>5, <3>3
      <4> QED BY <2>3, <2>4, <3>1, <3>3, <4>1
    <3> QED BY <3>2, <3>3
  <2>9. \A b \in fds[c] : b \in Buffers /\ b < h
    <3>1. \A b \in fds[c] : b \in Buffers /\ receiver[b] = c
      BY DEF IInv, TypeOK, FdsReceived
    <3> QED BY <2>1, <2>5, <3>1 DEF Knows, NoOvertaking
  <2>10. DrawsInNewest'
    <3> SUFFICES ASSUME NEW d \in Clients
                 PROVE  IF fds'[d] = {} THEN cprime'[d] = NoBuf
                        ELSE /\ cprime'[d] \in fds'[d]
                             /\ \A b \in fds'[d] : b <= cprime'[d]
      BY DEF DrawsInNewest
    <3>1. CASE d = c
      <4>1. fds'[d] = fds[c] \cup {h} /\ cprime'[d] = h
        BY <2>3, <3>1, Zenon
      <4>2. \A b \in fds[c] \cup {h} : b <= h
        BY <2>1, <2>9 DEF Buffers
      <4> QED BY <4>1, <4>2
    <3>2. CASE d # c
      BY <2>3, <3>2 DEF Knows, DrawsInNewest
    <3> QED BY <3>1, <3>2
  <2>11. NoOvertaking'
    <3> SUFFICES ASSUME NEW b \in Buffers, receiver'[b] # NoClient,
                        NEW i \in 1 .. Len(sock')
                 PROVE  b < sock'[i]
      BY DEF NoOvertaking
    <3>1. /\ i + 1 \in 1 .. Len(sock) /\ sock'[i] = sock[i + 1]
          /\ 1 < i + 1
      BY <1>1, <1>3, <2>1 DEF IInv, TypeOK
    <3>2. CASE b = h
      BY <2>1, <3>1, <3>2 DEF IInv, SockOrdered
    <3>3. CASE b # h
      BY <2>3, <3>1, <3>3 DEF Knows, NoOvertaking
    <3> QED BY <3>2, <3>3
  <2> QED BY <2>6, <2>7, <2>8, <2>10, <2>11 DEF Knows
<1> QED BY <1>2, <1>3 DEF Receive

(* Every step of a client.                                                   *)
LEMMA ClientKnows ==
  ASSUME IInv, Knows, NEW c \in Clients, ClientStep(c) \/ KillClient(c)
  PROVE  Knows'
<1>1. CASE Receive(c)
  BY <1>1, ReceiveKnows
<1>2. CASE StartClient(c) \/ ReceiveEof(c) \/ Import(c) \/ Render(c) \/ KillClient(c)
  <2>1. Alive(c) /\ UNCHANGED <<compVars, receiver>>
    BY <1>2 DEF StartClient, ReceiveEof, Import, Render, KillClient, Alive
  <2>2. \/ /\ \E to \in {"receive", "import", "render"} :
                pc' = [pc EXCEPT ![c] = to]
           /\ UNCHANGED <<cprime, fds, sock>>
        \/ ClientEnds(c, sock)
    BY <1>2 DEF StartClient, ReceiveEof, Import, Render, KillClient
  <2> QED BY <2>1, <2>2, GoesOnKnows, ClientEndsKnows
<1> QED BY <1>1, <1>2 DEF ClientStep

(* Every step keeps it.                                                      *)
LEMMA NextKnows == IInv /\ Knows /\ [Next]_vars => Knows'
<1> SUFFICES ASSUME IInv, Knows, [Next]_vars PROVE Knows'
  OBVIOUS
<1>1. CASE Fork \/ ShareBuffer
  BY <1>1, ForkKnows, ShareKnows
<1>2. CASE \/ Construct \/ CreateSharedBuffer \/ GiveUp \/ ImportBuffer \/ RenderSlot
           \/ Present \/ KillCompositor \/ Operator
  <2>1. UNCHANGED <<clientVars, sock>> /\ cpc' # "fork"
    BY <1>2 DEF Construct, CreateSharedBuffer, GiveUp, ImportBuffer, RenderSlot, Present,
         KillCompositor, Operator, AwaitRequestCreateSharingBuffer,
         AwaitRequestCompleteSharingBuffer, CompositorEnds
  <2> QED BY <2>1, CompositorKnows
<1>3. CASE \E c \in Clients : ClientStep(c) \/ KillClient(c)
  BY <1>3, ClientKnows
<1>4. CASE UNCHANGED vars
  BY <1>4, CompositorKnows DEF vars, clientVars
<1> QED BY <1>1, <1>2, <1>3, <1>4 DEF Next, CompositorStep, Finished

(* It holds in every reachable state.                                        *)
LEMMA KnowsHolds == Spec => []Knows
BY InitKnows, NextKnows, Invariance, PTL DEF Spec

(* A running client has an open fd for each buffer it ever received, a       *)
(* client that ended for none: DestroyRemoteBuffer closes nothing.           *)
THEOREM FdsKeptHolds == Spec => []FdsKept
<1>1. Knows => FdsKept
  BY DEF Knows
<1> QED BY <1>1, KnowsHolds, PTL

(* What a client draws in only gets newer, whoever else reads the socket.    *)
THEOREM ClientsAdvance ==
  Spec => [][\A c \in Clients :
               cprime'[c] # cprime[c] => cprime'[c] > cprime[c] \/ pc'[c] = "exit"]_vars
<1> DEFINE Advance ==
      \A c \in Clients :
        cprime'[c] # cprime[c] => cprime'[c] > cprime[c] \/ pc'[c] = "exit"
<1>1. IInv /\ Knows /\ [Next]_vars => [Advance]_vars
  <2> SUFFICES ASSUME IInv, Knows, Next, NEW c \in Clients, cprime'[c] # cprime[c]
               PROVE  cprime'[c] > cprime[c] \/ pc'[c] = "exit"
    OBVIOUS
  <2>1. cprime' # cprime
    OBVIOUS
  <2>2. PICK d \in Clients : ClientStep(d) \/ KillClient(d)
    BY <2>1
    DEF Next, CompositorStep, Operator, Finished, Fork, Construct, CreateSharedBuffer,
        GiveUp, ShareBuffer, ImportBuffer, RenderSlot, Present, KillCompositor,
        AwaitRequestCreateSharingBuffer, AwaitRequestCompleteSharingBuffer,
        clientVars, vars
  <2>3. CASE \E left : ClientEnds(d, left)
    <3>1. c = d
      BY <2>3 DEF ClientEnds, IInv, TypeOK
    <3>2. pc' = [pc EXCEPT ![d] = "exit"]
      BY <2>3 DEF ClientEnds
    <3> QED BY <3>1, <3>2 DEF IInv, TypeOK
  <2>4. CASE /\ cprime' = [cprime EXCEPT ![d] = Head(sock)]
             /\ sock # <<>>
    <3>1. /\ c = d /\ cprime'[c] = sock[1] /\ 1 \in 1 .. Len(sock)
          /\ sock[1] \in Buffers /\ sock \in Seq(Buffers)
      BY <2>4 DEF IInv, TypeOK
    <3>2. CASE fds[c] = {}
      <4>1. cprime[c] = 0
        BY <3>2 DEF Knows, DrawsInNewest, NoBuf
      <4> QED BY <3>1, <4>1 DEF Buffers
    <3>3. CASE fds[c] # {}
      <4>1. cprime[c] \in fds[c]
        BY <3>3 DEF Knows, DrawsInNewest
      <4>2. cprime[c] \in Buffers /\ receiver[cprime[c]] = c /\ c # NoClient
        BY <4>1 DEF IInv, TypeOK, FdsReceived, Clients, NoClient
      <4>3. cprime[c] < sock[1]
        BY <3>1, <4>2 DEF Knows, NoOvertaking
      <4> QED BY <3>1, <4>2, <4>3 DEF Buffers
    <3> QED BY <3>2, <3>3
  <2>5. \/ UNCHANGED cprime
        \/ \E left : ClientEnds(d, left)
        \/ cprime' = [cprime EXCEPT ![d] = Head(sock)] /\ sock # <<>>
    BY <2>2
    DEF ClientStep, StartClient, Receive, ReceiveEof, Import, Render, KillClient
  <2> QED BY <2>1, <2>3, <2>4, <2>5
<1> QED BY <1>1, Invariance, KnowsHolds, PTL DEF Spec

(* The receiver of a buffer never changes: the history that the answers of   *)
(* the operator are measured by is written once.                             *)
THEOREM ReceivedOnce ==
  Spec => [][\A b \in Buffers : receiver[b] # NoClient => receiver'[b] = receiver[b]]_vars
<1> DEFINE Once ==
      \A b \in Buffers : receiver[b] # NoClient => receiver'[b] = receiver[b]
<1>1. IInv /\ [Next]_vars => [Once]_vars
  <2> SUFFICES ASSUME IInv, Next PROVE Once
    OBVIOUS
  <2>1. CASE UNCHANGED receiver
    BY <2>1
  <2>2. ASSUME NEW c \in Clients, Receive(c)
        PROVE  Once
    <3>1. sock # <<>> /\ (UNCHANGED receiver \/ receiver' = [receiver EXCEPT ![Head(sock)] = c])
      BY <2>2 DEF Receive
    <3>2. Head(sock) = sock[1] /\ 1 \in 1 .. Len(sock)
      BY <3>1 DEF IInv, TypeOK
    <3>3. receiver[Head(sock)] = NoClient
      BY <3>2 DEF IInv, SockFresh
    <3> QED BY <3>1, <3>3 DEF IInv, TypeOK
  <2>3. UNCHANGED receiver \/ \E c \in Clients : Receive(c)
    BY DEF Next, CompositorStep, Operator, Finished, Fork, Construct,
        CreateSharedBuffer, GiveUp, ShareBuffer, ImportBuffer, RenderSlot, Present,
        KillCompositor, AwaitRequestCreateSharingBuffer,
        AwaitRequestCompleteSharingBuffer, ClientStep, StartClient, ReceiveEof,
        Import, Render, KillClient, clientVars, vars
  <2> QED BY <2>1, <2>2, <2>3
<1> QED BY <1>1, Invariance, PTL DEF Spec

-----------------------------------------------------------------------------
(* What true answers give.  Nothing is in the socket but a buffer whose      *)
(* receiver the operator is being asked for, and that one alone; the slot of *)
(* a running client shows the buffer it draws in, unless that is the buffer  *)
(* the operator is about to name, or has just named, the client for.         *)
SocketAwaited ==
  IF cpc = "awaitComplete" THEN sock \in {<<>>, <<prime.fd>>} ELSE sock = <<>>

InHand(c) == cpc \in {"awaitComplete", "import"} /\ cprime[c] = prime.fd
Shows(c)  == c - 1 \in Slots /\ img[c - 1] = cprime[c]

Drawn == \A c \in Clients : Alive(c) /\ cprime[c] # NoBuf => InHand(c) \/ Shows(c)

Shown == honest /\ cpc \notin Gone => SocketAwaited /\ Drawn

(* The newest buffer is what its receiver draws in, and the other way round. *)
LEMMA NewestDrawn ==
  ASSUME IInv, Knows, cpc \in {"awaitComplete", "import"},
         NEW c \in Clients, Alive(c)
  PROVE  receiver[prime.fd] = c <=> cprime[c] = prime.fd
<1>1. prime.fd = created /\ created \in Buffers /\ c # NoClient
  BY DEF IInv, TypeOK, PrimeNewest, Buffers, Clients, NoClient
<1>2. fds[c] = {b \in Buffers : receiver[b] = c}
  BY DEF Knows, FdsKept
<1>3. ASSUME receiver[created] = c PROVE cprime[c] = created
  <2>1. created \in fds[c]
    BY <1>1, <1>2, <1>3
  <2>2. cprime[c] \in fds[c] /\ created <= cprime[c]
    BY <2>1 DEF Knows, DrawsInNewest
  <2>3. cprime[c] \in Buffers /\ receiver[cprime[c]] # NoClient
    BY <1>1, <1>2, <2>2
  <2>4. ~(cprime[c] > created)
    BY <2>3 DEF IInv, NotYetReceived
  <2> QED BY <1>1, <2>2, <2>3, <2>4 DEF Buffers
<1>4. ASSUME cprime[c] = created PROVE receiver[created] = c
  <2>1. cprime[c] # NoBuf
    BY <1>1, <1>4 DEF Buffers, NoBuf
  <2>2. cprime[c] \in fds[c]
    BY <2>1 DEF Knows, DrawsInNewest
  <2> QED BY <1>2, <1>4, <2>2
<1> QED BY <1>1, <1>3, <1>4

(* Steps that leave the slots, the socket and what is drawn in alone.        *)
LEMMA QuietShown ==
  ASSUME Shown, UNCHANGED <<sock, cprime, img, honest>>,
         \A c \in Clients : Alive(c)' /\ cprime[c] # NoBuf => Alive(c),
         \/ UNCHANGED <<cpc, prime>>
         \/ {cpc, cpc'} \cap {"awaitComplete", "import"} = {} /\ cpc \notin Gone
         \/ cpc' \in Gone
  PROVE  Shown'
<1>1. CASE cpc' \in Gone \/ ~honest
  BY <1>1 DEF Shown
<1>2. CASE cpc' \notin Gone /\ honest
  <2>1. cpc \notin Gone /\ SocketAwaited /\ Drawn
    BY <1>2 DEF Shown
  <2>2. SocketAwaited'
    BY <1>2, <2>1 DEF SocketAwaited
  <2>3. Drawn'
    BY <1>2, <2>1 DEF Drawn, InHand, Shows
  <2> QED BY <2>2, <2>3 DEF Shown
<1> QED BY <1>1, <1>2

(* The compositor sends in an empty socket.                                  *)
LEMMA ShareShown == IInv /\ Shown /\ ShareBuffer => Shown'
<1> SUFFICES ASSUME IInv, Shown, ShareBuffer PROVE Shown'
  OBVIOUS
<1>1. CASE cpc' \in Gone
  BY <1>1 DEF Shown
<1>2. CASE sock' = Append(sock, prime.fd) /\ cpc' = "awaitComplete" /\ UNCHANGED <<prime, img>>
  <2> SUFFICES ASSUME honest PROVE SocketAwaited' /\ Drawn'
    BY DEF Shown, ShareBuffer
  <2>1. cpc = "share" /\ UNCHANGED clientVars
    BY DEF ShareBuffer
  <2>2. SocketAwaited /\ Drawn
    BY <2>1 DEF Shown, Gone
  <2>3. sock = <<>>
    BY <2>1, <2>2 DEF SocketAwaited
  <2>4. sock' = <<prime.fd>>
    BY <1>2, <2>3
  <2>5. SocketAwaited'
    BY <1>2, <2>4 DEF SocketAwaited
  <2>6. \A c \in Clients : Alive(c)' <=> Alive(c)
    BY <2>1 DEF Alive, clientVars
  <2>7. Drawn'
    BY <1>2, <2>1, <2>2, <2>6 DEF Drawn, InHand, Shows, clientVars
  <2> QED BY <2>5, <2>7
<1> QED BY <1>1, <1>2 DEF ShareBuffer, CompositorEnds, Gone

(* A true answer is given when the buffer has left the socket.               *)
LEMMA AnswerShown == IInv /\ Shown /\ AwaitRequestCompleteSharingBuffer => Shown'
<1> SUFFICES ASSUME IInv, Shown, AwaitRequestCompleteSharingBuffer PROVE Shown'
  OBVIOUS
<1>1. cpc = "awaitComplete" /\ UNCHANGED <<prime, img, sock, clientVars>>
  BY DEF AwaitRequestCompleteSharingBuffer
<1>2. \A c \in Clients : Alive(c)' <=> Alive(c)
  BY <1>1 DEF Alive, clientVars
<1>3. CASE UNCHANGED <<cpc, honest>>
  BY <1>1, <1>2, <1>3, QuietShown DEF clientVars
<1>4. CASE honest' = FALSE
  BY <1>4 DEF Shown
<1>5. ASSUME NEW id \in 1 .. MaxImages, cpc' = "import",
             honest' = (honest /\ id \in Clients /\ receiver[prime.fd] = id)
      PROVE  Shown'
  <2> SUFFICES ASSUME honest' PROVE SocketAwaited' /\ Drawn'
    BY DEF Shown
  <2>0. honest /\ receiver[prime.fd] = id
    BY <1>5, Zenon
  <2>1. honest /\ receiver[prime.fd] = id /\ id # NoClient
    BY <2>0 DEF NoClient
  <2>2. SocketAwaited /\ Drawn
    BY <1>1, <2>1 DEF Shown, Gone
  <2>3. sock # <<prime.fd>>
    <3> SUFFICES ASSUME sock = <<prime.fd>> PROVE FALSE
      OBVIOUS
    <3>1. 1 \in 1 .. Len(sock) /\ sock[1] = prime.fd
      OBVIOUS
    <3> QED BY <2>1, <3>1 DEF IInv, SockFresh
  <2>4. SocketAwaited'
    BY <1>1, <1>5, <2>2, <2>3 DEF SocketAwaited
  <2>5. Drawn'
    BY <1>1, <1>2, <1>5, <2>2 DEF Drawn, InHand, Shows, clientVars
  <2> QED BY <2>4, <2>5
<1> QED BY <1>3, <1>4, <1>5 DEF AwaitRequestCompleteSharingBuffer

(* The import fills the slot of the client that draws in the buffer.         *)
LEMMA ImportShown == IInv /\ TruthIInv /\ Knows /\ Shown /\ ImportBuffer => Shown'
<1> SUFFICES ASSUME IInv, TruthIInv, Knows, Shown, ImportBuffer PROVE Shown'
  OBVIOUS
<1>1. cpc = "import" /\ UNCHANGED <<sock, clientVars, honest>>
  BY DEF ImportBuffer
<1>2. CASE cpc' = "failed"
  BY <1>2 DEF Shown, Gone
<1>3. CASE img' = [img EXCEPT ![index] = prime.fd] /\ cpc' = "render"
  <2> SUFFICES ASSUME honest PROVE SocketAwaited' /\ Drawn'
    BY <1>1 DEF Shown
  <2>1. SocketAwaited /\ Drawn
    BY <1>1 DEF Shown, Gone
  <2>2. SocketAwaited'
    BY <1>1, <1>3, <2>1 DEF SocketAwaited
  <2>3. receiver[prime.fd] = index + 1 /\ index \in Slots
    BY <1>1 DEF TruthIInv, AnsweredTrue, IInv, PrimeNewest
  <2>4. \A s \in Slots : img'[s] = IF s = index THEN prime.fd ELSE img[s]
    BY <1>3 DEF IInv, TypeOK
  <2>5. ASSUME NEW c \in Clients, Alive(c), cprime[c] # NoBuf
        PROVE  c - 1 \in Slots /\ img'[c - 1] = cprime[c]
    <3>1. c - 1 = index <=> cprime[c] = prime.fd
      <4>1. c - 1 = index <=> index + 1 = c
        BY <2>3 DEF Clients, Slots
      <4> QED BY <1>1, <2>3, <2>5, <4>1, NewestDrawn
    <3>2. CASE cprime[c] = prime.fd
      BY <2>3, <2>4, <3>1, <3>2
    <3>3. CASE cprime[c] # prime.fd
      <4>1. c - 1 \in Slots /\ img[c - 1] = cprime[c]
        BY <2>1, <2>5, <3>3 DEF Drawn, InHand, Shows
      <4> QED BY <2>4, <3>1, <3>3, <4>1
    <3> QED BY <3>2, <3>3
  <2>6. Drawn'
    BY <1>1, <2>5 DEF Drawn, Shows, Alive, clientVars
  <2> QED BY <2>2, <2>6
<1> QED BY <1>2, <1>3 DEF ImportBuffer, CompositorEnds

(* What a client receives is in the hand of the operator.                    *)
LEMMA ReceiveShown ==
  ASSUME IInv, Shown, NEW c \in Clients, Receive(c), pc'[c] = "import"
  PROVE  Shown'
<1> SUFFICES ASSUME honest, cpc \notin Gone PROVE SocketAwaited' /\ Drawn'
  BY DEF Shown, Receive, compVars
<1>1. /\ sock # <<>> /\ sock' = Tail(sock) /\ UNCHANGED compVars
      /\ cprime' = [cprime EXCEPT ![c] = Head(sock)]
      /\ pc' = [pc EXCEPT ![c] = "import"] /\ pc[c] = "receive"
  BY DEF Receive, ClientEnds, IInv, TypeOK
<1>2. SocketAwaited /\ Drawn
  BY DEF Shown
<1>3. cpc = "awaitComplete" /\ sock = <<prime.fd>>
  BY <1>1, <1>2 DEF SocketAwaited
<1>4. sock' = <<>> /\ Head(sock) = prime.fd
  BY <1>1, <1>3
<1>5. SocketAwaited'
  BY <1>1, <1>3, <1>4 DEF SocketAwaited, compVars
<1>6. \A d \in Clients : /\ cprime'[d] = IF d = c THEN prime.fd ELSE cprime[d]
                         /\ Alive(d)' <=> Alive(d)
  BY <1>1, <1>4 DEF IInv, TypeOK, Alive
<1>7. Drawn'
  BY <1>1, <1>2, <1>3, <1>6 DEF Drawn, InHand, Shows, compVars
<1> QED BY <1>5, <1>7

(* The other ends of a client: nothing is drawn in its buffers any more.     *)
LEMMA ClientEndsShown ==
  ASSUME IInv, Shown, NEW c \in Clients, NEW left, ClientEnds(c, left),
         left = sock \/ (sock # <<>> /\ left = Tail(sock)), UNCHANGED compVars
  PROVE  Shown'
<1> SUFFICES ASSUME honest, cpc \notin Gone PROVE SocketAwaited' /\ Drawn'
  BY DEF Shown, compVars
<1>1. SocketAwaited /\ Drawn
  BY DEF Shown
<1>2. \A d \in Clients : /\ pc'[d] = IF d = c THEN "exit" ELSE pc[d]
                         /\ cprime'[d] = IF d = c THEN NoBuf ELSE cprime[d]
  BY DEF ClientEnds, IInv, TypeOK
<1>3. sock' = sock \/ sock' = <<>>
  <2>1. sock = <<>> \/ sock = <<prime.fd>>
    BY <1>1 DEF SocketAwaited
  <2>2. left = sock \/ left = <<>>
    BY <2>1
  <2> QED BY <2>2 DEF ClientEnds
<1>4. SocketAwaited'
  BY <1>1, <1>3 DEF SocketAwaited, compVars
<1>5. Drawn'
  BY <1>1, <1>2 DEF Drawn, InHand, Shows, Alive, compVars
<1> QED BY <1>4, <1>5

(* Every step keeps it.                                                      *)
LEMMA NextShown == IInv /\ TruthIInv /\ Knows /\ Shown /\ [Next]_vars => Shown'
<1> SUFFICES ASSUME IInv, TruthIInv, Knows, Shown, [Next]_vars PROVE Shown'
  OBVIOUS
<1>1. CASE ShareBuffer \/ AwaitRequestCompleteSharingBuffer \/ ImportBuffer
  BY <1>1, ShareShown, AnswerShown, ImportShown
<1>2. CASE Fork
  <2>1. /\ cpc = "fork" /\ UNCHANGED <<sock, cprime, honest>>
        /\ cpc' \in {"fork", "construct"} \cup Gone
    BY <1>2 DEF Fork, CompositorEnds, Gone
  <2>2. CASE cpc' \in Gone
    BY <2>2 DEF Shown
  <2>3. CASE cpc' \notin Gone
    <3>1. img' = img /\ pc' = [pc EXCEPT ![numChilds] = "forked"]
      BY <1>2, <2>3 DEF Fork, CompositorEnds, Gone
    <3>2. \A c \in Clients : Alive(c)' /\ cprime[c] # NoBuf => Alive(c)
      BY DEF Knows, FdsKept, DrawsInNewest
    <3> QED BY <2>1, <2>3, <3>1, <3>2, QuietShown DEF Gone
  <2> QED BY <2>2, <2>3
<1>3. CASE \/ Construct \/ CreateSharedBuffer \/ GiveUp \/ RenderSlot \/ Present
           \/ KillCompositor \/ AwaitRequestCreateSharingBuffer
  <2>1. /\ UNCHANGED <<sock, clientVars, honest>>
        /\ UNCHANGED img \/ cpc' \in Gone
        /\ \/ {cpc, cpc'} \cap {"awaitComplete", "import"} = {} /\ cpc \notin Gone
           \/ cpc' \in Gone
    BY <1>3 DEF Construct, CreateSharedBuffer, GiveUp, RenderSlot, Present, KillCompositor,
         AwaitRequestCreateSharingBuffer, CompositorEnds, Gone
  <2>2. CASE cpc' \in Gone
    BY <2>2 DEF Shown
  <2>3. CASE cpc' \notin Gone
    <3>1. \A c \in Clients : Alive(c)' => Alive(c)
      BY <2>1 DEF Alive, clientVars
    <3> QED BY <2>1, <2>3, <3>1, QuietShown DEF clientVars
  <2> QED BY <2>2, <2>3
<1>4. ASSUME NEW c \in Clients, ClientStep(c) \/ KillClient(c)
      PROVE  Shown'
  <2>1. CASE /\ UNCHANGED <<compVars, cprime, sock>>
             /\ \E to \in {"receive", "import", "render"} :
                  pc' = [pc EXCEPT ![c] = to]
             /\ Alive(c)
    <3>1. \A d \in Clients : Alive(d)' => Alive(d)
      BY <2>1 DEF Alive, IInv, TypeOK
    <3> QED BY <2>1, <3>1, QuietShown DEF compVars
  <2>2. ASSUME NEW left, ClientEnds(c, left), UNCHANGED compVars,
               left = sock \/ (sock # <<>> /\ left = Tail(sock))
        PROVE  Shown'
    BY <2>2, ClientEndsShown
  <2>3. CASE Receive(c) /\ ~ClientEnds(c, Tail(sock))
    <3>1. pc' = [pc EXCEPT ![c] = "import"]
      BY <2>3 DEF Receive
    <3>2. pc'[c] = "import"
      BY <3>1 DEF IInv, TypeOK
    <3> QED BY <2>3, <3>2, ReceiveShown
  <2>4. CASE Receive(c) /\ ClientEnds(c, Tail(sock))
    BY <2>2, <2>4 DEF Receive
  <2>5. CASE \/ StartClient(c) \/ ReceiveEof(c) \/ Import(c) \/ Render(c)
             \/ KillClient(c)
    <3>1. /\ UNCHANGED compVars /\ Alive(c)
          /\ \/ /\ \E to \in {"receive", "import", "render"} :
                     pc' = [pc EXCEPT ![c] = to]
                /\ UNCHANGED <<cprime, sock>>
             \/ ClientEnds(c, sock)
      BY <2>5 DEF StartClient, ReceiveEof, Import, Render, KillClient, Alive
    <3> QED BY <2>1, <2>2, <3>1
  <2> QED BY <1>4, <2>3, <2>4, <2>5 DEF ClientStep
<1>5. CASE UNCHANGED vars
  BY <1>5, QuietShown DEF vars, Alive
<1> QED
  BY <1>1, <1>2, <1>3, <1>4, <1>5
  DEF Next, CompositorStep, Operator, Finished

LEMMA TruthHolds == Spec => []TruthIInv
<1>1. Init => TruthIInv
  BY DEF Init, TruthIInv, SlotOfClient, AnsweredTrue, NoImages
<1> QED BY <1>1, NextTruth, Invariance, PTL DEF Spec

LEMMA ShownHolds == Spec => []Shown
<1>1. Init => Shown
  BY DEF Init, Shown, SocketAwaited, Drawn, Alive
<1> QED BY <1>1, NextShown, Invariance, TruthHolds, KnowsHolds, PTL DEF Spec

(* With an operator who answers truly, every frame shows of each running     *)
(* client that has a buffer the one it draws in now, and such a client has   *)
(* a slot.                                                                   *)
THEOREM ShownIsDrawnHolds == Spec => []ShownIsDrawn
<1>1. Shown => ShownIsDrawn
  BY DEF Shown, Drawn, InHand, Shows, ShownIsDrawn, Gone
<1> QED BY <1>1, ShownHolds, PTL

(* With an operator who answers truly, the socket is empty when a buffer is  *)
(* sent: however small it is, Send waits for no client.                      *)
THEOREM SendNeverBlocks == Spec => [](honest /\ cpc = "share" => Len(sock) < SocketCap)
<1>1. Shown => (honest /\ cpc = "share" => Len(sock) < SocketCap)
  <2> SUFFICES ASSUME Shown, honest, cpc = "share" PROVE Len(sock) < SocketCap
    OBVIOUS
  <2>1. sock = <<>>
    BY DEF Shown, SocketAwaited, Gone
  <2> QED BY <2>1, PrimeSharingAssumption
<1> QED BY <1>1, ShownHolds, PTL

-----------------------------------------------------------------------------
(* Why true answers do not always help: slot 0 must show something.  A       *)
(* compositor that was answered truly and fails, with no call failing, has   *)
(* nothing under way and a first client that has nothing.                    *)
FirstHasNothing == Alive(1) => cprime[1] = NoBuf

FailsForFirst ==
  /\ cpc # "giveUp"
  /\ honest /\ cpc = "failed" => sock = <<>> /\ FirstHasNothing

LEMMA NextFailsForFirst ==
  ASSUME Faults = {}, IInv, Shown, FailsForFirst, [Next]_vars
  PROVE  FailsForFirst'
<1> DEFINE None == \A call \in FaultKinds : FALSE \notin Outcome(call)
<1>0. None /\ 1 \in Clients /\ 0 \in Slots
  BY PrimeSharingAssumption DEF Outcome, Clients, Slots
<1>5. cpc # "giveUp" /\ cpc' # "giveUp"
  <2>1. cpc # "giveUp"
    BY DEF FailsForFirst
  <2>2. CASE UNCHANGED cpc
    BY <2>1, <2>2
  <2>3. CASE CompositorStep \/ Operator \/ KillCompositor
    BY <1>0, <2>1, <2>3
    DEF CompositorStep, Operator, Fork, Construct, CreateSharedBuffer, GiveUp,
        ShareBuffer, ImportBuffer, RenderSlot, Present, KillCompositor, FaultKinds,
        AwaitRequestCreateSharingBuffer, AwaitRequestCompleteSharingBuffer,
        CompositorEnds
  <2>4. CASE \E c \in Clients : ClientStep(c) \/ KillClient(c)
    BY <2>1, <2>4 DEF ClientStep, StartClient, Receive, ReceiveEof, Import, Render,
        KillClient, compVars
  <2> QED BY <2>2, <2>3, <2>4 DEF Next, Finished, vars
<1> SUFFICES ASSUME honest', cpc' = "failed" PROVE sock' = <<>> /\ FirstHasNothing'
  BY <1>5 DEF FailsForFirst
<1>1. CASE ShareBuffer
  <2>1. /\ cpc = "share" /\ honest /\ ~HasReader
        /\ UNCHANGED <<sock, clientVars>>
    BY <1>1 DEF ShareBuffer
  <2>2. sock = <<>>
    BY <2>1 DEF Shown, SocketAwaited, Gone
  <2>3. ~Alive(1)'
    BY <1>0, <2>1 DEF HasReader, Alive, clientVars
  <2> QED BY <2>1, <2>2, <2>3 DEF FirstHasNothing
<1>2. CASE RenderSlot
  <2>1. /\ cpc = "render" /\ honest /\ img[0] = NoBuf
        /\ UNCHANGED <<sock, clientVars>>
    BY <1>0, <1>2 DEF RenderSlot, FaultKinds
  <2>2. sock = <<>> /\ Drawn
    BY <2>1 DEF Shown, SocketAwaited, Gone
  <2>3. FirstHasNothing
    BY <1>0, <2>1, <2>2 DEF FirstHasNothing, Drawn, InHand, Shows
  <2> QED BY <2>1, <2>2, <2>3 DEF FirstHasNothing, Alive, clientVars
<1>3. CASE cpc = "failed" /\ honest
  <2>1. sock = <<>> /\ FirstHasNothing
    BY <1>3 DEF FailsForFirst
  <2>2. UNCHANGED vars \/ \E c \in Clients : ClientStep(c) \/ KillClient(c)
    BY <1>3 DEF Next, CompositorStep, Operator, Finished, Fork, Construct,
        CreateSharedBuffer, GiveUp, ShareBuffer, ImportBuffer, RenderSlot, Present,
        KillCompositor, AwaitRequestCreateSharingBuffer,
        AwaitRequestCompleteSharingBuffer, Gone
  <2>3. CASE UNCHANGED vars
    BY <2>1, <2>3 DEF vars, FirstHasNothing, Alive
  <2>4. ASSUME NEW c \in Clients, ClientStep(c) \/ KillClient(c)
        PROVE  sock' = <<>> /\ FirstHasNothing'
    <3>1. \/ /\ UNCHANGED <<cprime, sock>> /\ pc[c] \notin {"unborn", "exit"}
             /\ \E to : pc' = [pc EXCEPT ![c] = to]
          \/ ClientEnds(c, sock)
      BY <2>1, <2>4 DEF ClientStep, StartClient, Receive, ReceiveEof, Import,
          Render, KillClient, Alive
    <3>2. sock' = <<>>
      BY <2>1, <3>1 DEF ClientEnds
    <3>3. CASE ClientEnds(c, sock)
      BY <1>0, <2>1, <3>3 DEF ClientEnds, FirstHasNothing, Alive, IInv, TypeOK
    <3>4. CASE /\ UNCHANGED <<cprime, sock>> /\ pc[c] \notin {"unborn", "exit"}
               /\ \E to : pc' = [pc EXCEPT ![c] = to]
      BY <1>0, <2>1, <3>4 DEF FirstHasNothing, Alive, IInv, TypeOK
    <3> QED BY <3>1, <3>2, <3>3, <3>4
  <2> QED BY <2>2, <2>3, <2>4
<1>4. ShareBuffer \/ RenderSlot \/ (cpc = "failed" /\ honest)
  <2>1. CASE UNCHANGED vars
    BY <2>1 DEF vars
  <2>2. CASE \E c \in Clients : ClientStep(c) \/ KillClient(c)
    BY <2>2 DEF ClientStep, StartClient, Receive, ReceiveEof, Import, Render,
        KillClient, compVars
  <2>3. CASE \/ Fork \/ Construct \/ CreateSharedBuffer \/ GiveUp \/ ImportBuffer
             \/ Present
    BY <1>0, <1>5, <2>3 DEF Fork, Construct, CreateSharedBuffer, GiveUp, ImportBuffer, Present,
         FaultKinds
  <2>4. CASE Operator \/ KillCompositor
    BY <2>4 DEF Operator, KillCompositor, AwaitRequestCreateSharingBuffer,
         AwaitRequestCompleteSharingBuffer, CompositorEnds
  <2> QED BY <2>1, <2>2, <2>3, <2>4 DEF Next, CompositorStep, Finished
<1> QED BY <1>1, <1>2, <1>3, <1>4

(* The claim of the prompt holds as soon as the first client takes part:     *)
(* with no call failing, a true answer never ends the compositor with an     *)
(* error while a running first client has a buffer.                          *)
THEOREM TrueAnswerNeedsFirst ==
  Spec => [](Faults = {} /\ Alive(1) /\ cprime[1] # NoBuf => TrueAnswerAccepted)
<1>1. Init => (Faults = {} => FailsForFirst)
  BY DEF Init, FailsForFirst
<1>2. IInv /\ Shown /\ (Faults = {} => FailsForFirst) /\ [Next]_vars
        => (Faults = {} => FailsForFirst)'
  BY NextFailsForFirst
<1>3. (Faults = {} => FailsForFirst)
        => (Faults = {} /\ Alive(1) /\ cprime[1] # NoBuf => TrueAnswerAccepted)
  BY DEF FailsForFirst, FirstHasNothing, TrueAnswerAccepted
<1> QED BY <1>1, <1>2, <1>3, Invariance, ShownHolds, PTL DEF Spec
=============================================================================
