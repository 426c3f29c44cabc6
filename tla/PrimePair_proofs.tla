-------------------------- MODULE PrimePair_proofs --------------------------
(* Proofs about PrimePair, for any number of frames, of surface buffers and  *)
(* of messages the socket holds.                                             *)
EXTENDS PrimePair, TLAPS

USE DEF setting

(* The invariant in four parts and InOrder; the first three and InOrder need *)
(* no more than the types, the last one needs the others.                    *)
Typed == TypeOK /\ InHand
Tidy == OnePrime /\ BoReturned /\ Clean
Intact == SentLocked /\ SentIntact
Seen == InOnePlace /\ SentWhenShown /\ ShownIntact

-----------------------------------------------------------------------------
(* Types, and that there is a frame at hand where one is used.               *)

(* Both programs start with their variables empty.                           *)
LEMMA InitTyped == Init => Typed
<1> SUFFICES ASSUME Init PROVE Typed
  OBVIOUS
<1>1. /\ content \in [Bos -> 0 .. MaxFrames]
      /\ boOf \in [Frames -> Bos \cup {NoBo}]
      /\ sock \in Seq(Frames)
  BY PrimePairAssumption DEF Init, NoFrame
<1>2. flag \in BOOLEAN /\ hasty \in BOOLEAN /\ tile \in BOOLEAN
      /\ accepts \in BOOLEAN
  BY DEF Init
<1> QED
  BY <1>1, <1>2, PrimePairAssumption
  DEF Init, Typed, TypeOK, InHand, NoFrame, NoFlip, NoBo

(* The child draws a frame the operator asked for.                           *)
LEMMA ChildTyped ==
  Typed /\ (StartChild \/ ReadKey \/ Draw \/ Export \/ KillChild) => Typed'
<1> SUFFICES ASSUME Typed PROVE StartChild \/ ReadKey \/ Draw \/ Export
                                  \/ KillChild => Typed'
  OBVIOUS
<1> USE DEF Typed
<1>1. CASE StartChild
  BY <1>1 DEF StartChild, TypeOK, InHand, socketVars, parentVars, kernelVars
<1>2. CASE ReadKey
  BY <1>2 DEF ReadKey, TypeOK, InHand, socketVars, parentVars, kernelVars
<1>3. CASE Draw
  <2>1. PICK b \in BackBos :
          \/ /\ drawn' = drawn + 1 /\ content' = [content EXCEPT ![b] = drawn + 1]
             /\ front' = b /\ cpc' = "export"
          \/ /\ content' = [content EXCEPT ![b] = NoFrame]
             /\ cpc' = "key" /\ UNCHANGED <<drawn, front>>
    BY <1>3 DEF Draw, SwapFailed
  <2>2. b \in Bos /\ drawn + 1 \in Frames
    BY <1>3, PrimePairAssumption DEF Draw, InHand, TypeOK, BackBos, Frames
  <2>3. content' \in [Bos -> 0 .. MaxFrames]
    <3>1. drawn + 1 \in 0 .. MaxFrames /\ NoFrame \in 0 .. MaxFrames
      BY <2>2, PrimePairAssumption DEF Frames, NoFrame
    <3> QED BY <2>1, <2>2, <3>1 DEF TypeOK
  <2>4. UNCHANGED <<setting, hasty, bo, boOf, sent, sock, rest, parentVars, kernelVars>>
    BY <1>3 DEF Draw, socketVars
  <2> QED
    BY <2>1, <2>2, <2>3, <2>4 DEF TypeOK, InHand, Frames, parentVars, kernelVars
<1>4. CASE Export
  <2>1. drawn \in Frames /\ front \in Bos
    BY <1>4 DEF Export, InHand
  <2>2. boOf' \in [Frames -> Bos \cup {NoBo}]
    BY <1>4, <2>1 DEF Export, TypeOK
  <2> QED
    BY <1>4, <2>1, <2>2
    DEF Export, TypeOK, InHand, socketVars, parentVars, kernelVars
<1>5. CASE KillChild
  BY <1>5 DEF KillChild, TypeOK, InHand, socketVars, parentVars, kernelVars
<1> QED BY <1>1, <1>2, <1>3, <1>4, <1>5

(* The next message is of a frame.                                           *)
LEMMA HeadTyped ==
  TypeOK /\ sock # <<>> => Head(sock) \in Frames /\ Tail(sock) \in Seq(Frames)
<1> SUFFICES ASSUME sock \in Seq(Frames), sock # <<>>
             PROVE  Head(sock) \in Frames /\ Tail(sock) \in Seq(Frames)
  BY DEF TypeOK
<1> QED OBVIOUS

(* What goes through the socket is a frame.                                  *)
LEMMA SocketTyped ==
  Typed /\ (Send \/ Receive) => Typed'
<1> SUFFICES ASSUME Typed PROVE Send \/ Receive => Typed'
  OBVIOUS
<1> USE DEF Typed
<1>1. CASE Send
  <2>1. drawn \in Frames
    BY <1>1 DEF Send, InHand
  <2>2. sock' \in Seq(Frames)
    <3>1. sock \in Seq(Frames)
      BY DEF TypeOK
    <3>2. sock' = Append(sock, drawn) \/ sock' = sock
      BY <1>1 DEF Send
    <3> QED BY <2>1, <3>1, <3>2
  <2>3. sent' \in 0 .. MaxFrames /\ cpc' \in {"key", "exit"}
    BY <1>1, <2>1 DEF Send, TypeOK, Frames
  <2>4. UNCHANGED <<setting, hasty, drawn, content, front, bo, boOf, rest,
                    parentVars, kernelVars>>
    BY <1>1 DEF Send
  <2>5. TypeOK'
    BY <2>2, <2>3, <2>4 DEF TypeOK, parentVars, kernelVars
  <2>6. InHand'
    BY <2>3, <2>4 DEF InHand, parentVars, kernelVars
  <2> QED BY <2>5, <2>6
<1>2. CASE Receive
  <2>1. Head(sock) \in Frames /\ Tail(sock) \in Seq(Frames)
    BY <1>2, HeadTyped DEF Receive
  <2>2. rest' \in 0 .. MsgLen
    BY <1>2, PrimePairAssumption DEF Receive, TypeOK
  <2>3. /\ prime' \in Frames /\ prime' \in 0 .. MaxFrames
        /\ pfds' \subseteq Frames /\ sock' \in Seq(Frames)
        /\ ppc' = "import"
    <3>1. \A f \in Frames : f \in 0 .. MaxFrames
      BY PrimePairAssumption DEF Frames
    <3>2. pfds \subseteq Frames
      BY DEF TypeOK
    <3>3. /\ prime' = Head(sock) /\ pfds' = pfds \cup {Head(sock)}
          /\ sock' = Tail(sock) /\ ppc' = "import"
      BY <1>2 DEF Receive
    <3> QED BY <2>1, <3>1, <3>2, <3>3
  <2>4. UNCHANGED <<childVars, pbo, flag, kernelVars>>
    BY <1>2 DEF Receive
  <2>5. TypeOK'
    BY <2>2, <2>3, <2>4 DEF TypeOK, childVars, kernelVars
  <2>6. InHand'
    BY <2>3, <2>4 DEF InHand, childVars, kernelVars
  <2> QED BY <2>5, <2>6
<1> QED BY <1>1, <1>2

(* Back in the loop.                                                         *)
LEMMA ReturnTyped == TypeOK /\ Return => pbo' \in 0 .. MaxFrames /\ ppc' = "loop"
BY PrimePairAssumption DEF TypeOK, Return, ReleaseBo, NoFrame

(* The end of the parent.                                                    *)
LEMMA ParentEndsTyped ==
  Typed /\ ParentEnds /\ UNCHANGED <<childVars, socketVars>> => Typed'
BY PrimePairAssumption
DEF Typed, ParentEnds, TypeOK, InHand, childVars, socketVars, NoFrame, NoFlip

(* The parent's own calls.                                                   *)
LEMMA ParentTyped ==
  Typed /\ (StartParent \/ ClosePrime \/ Import \/ PageFlip \/ SetCrtc) => Typed'
<1> SUFFICES ASSUME Typed PROVE StartParent \/ ClosePrime \/ Import \/ PageFlip
                                  \/ SetCrtc => Typed'
  OBVIOUS
<1>1. CASE StartParent
  BY <1>1, ParentEndsTyped
  DEF StartParent, Typed, TypeOK, InHand, childVars, socketVars, kernelVars
<1> USE DEF Typed
<1>2. CASE ClosePrime
  BY <1>2, PrimePairAssumption
  DEF ClosePrime, DropPrime, TypeOK, InHand, childVars, socketVars, kernelVars,
      NoFrame
<1>3. CASE Import
  BY <1>3, PrimePairAssumption
  DEF Import, TypeOK, InHand, childVars, socketVars, kernelVars, NoFrame
<1>4. CASE PageFlip
  <2>1. /\ pbo' \in 0 .. MaxFrames
        /\ ppc' \in {"wait", "loop", "setcrtc"}
    BY <1>4, ReturnTyped DEF PageFlip, MissingSetCrtc, TypeOK
  <2>2. /\ pending' \in 0 .. MaxFrames
        /\ pending' # NoFlip => events < EventSpace
    BY <1>4 DEF PageFlip, TypeOK, InHand
  <2>3. UNCHANGED <<childVars, socketVars, prime, pfds, flag, accepts, screen,
                    events>>
    BY <1>4 DEF PageFlip
  <2> QED
    BY <2>1, <2>2, <2>3 DEF TypeOK, InHand, childVars, socketVars
<1>5. CASE SetCrtc
  BY <1>5, ReturnTyped
  DEF SetCrtc, TypeOK, InHand, childVars, socketVars, NoFrame
<1> QED BY <1>1, <1>2, <1>3, <1>4, <1>5

(* The wait for the page flip and the display.                               *)
LEMMA WaitTyped ==
  Typed /\ (HandleEvent \/ WaitTimeout \/ LeaveWait \/ WaitFails
            \/ VerticalBlank) => Typed'
<1> SUFFICES ASSUME Typed PROVE HandleEvent \/ WaitTimeout \/ LeaveWait
                                  \/ WaitFails \/ VerticalBlank => Typed'
  OBVIOUS
<1> USE DEF Typed
<1>1. CASE HandleEvent
  <2>1. flag' \in BOOLEAN
    BY <1>1 DEF HandleEvent, FlagCleared
  <2>2. /\ UNCHANGED <<childVars, socketVars, ppc, prime, pfds, pbo, accepts,
                       screen, pending>>
        /\ events' = 0 /\ events' < EventSpace /\ events' \in 0 .. EventSpace
    BY <1>1, PrimePairAssumption DEF HandleEvent
  <2> QED
    BY <2>1, <2>2 DEF TypeOK, InHand, childVars, socketVars
<1>2. CASE WaitTimeout
  BY <1>2 DEF WaitTimeout, TypeOK, InHand, vars
<1>3. CASE LeaveWait \/ WaitFails
  BY <1>3, ReturnTyped
  DEF LeaveWait, WaitFails, TypeOK, InHand, childVars, socketVars, kernelVars
<1>4. CASE VerticalBlank
  BY <1>4, PrimePairAssumption
  DEF VerticalBlank, TypeOK, InHand, childVars, socketVars, parentVars, NoFlip
<1> QED BY <1>1, <1>2, <1>3, <1>4

(* Every step keeps the types.                                               *)
LEMMA NextTyped == Typed /\ [Next]_vars => Typed'
<1> SUFFICES ASSUME Typed, [Next]_vars PROVE Typed'
  OBVIOUS
<1>1. CASE UNCHANGED vars
  BY <1>1 DEF Typed, TypeOK, InHand, vars
<1>2. CASE ReceiveNothing \/ ReceiveFails \/ KillParent
  BY <1>2, ParentEndsTyped DEF ReceiveNothing, ReceiveFails, KillParent
<1> QED
  BY <1>1, <1>2, ChildTyped, SocketTyped, ParentTyped, WaitTyped
  DEF Next, ChildStep, ParentStep, Ended

-----------------------------------------------------------------------------
(* The parent closes what it opened.                                         *)

(* Nothing is open at the start.                                             *)
LEMMA InitTidy == Init => Tidy
BY DEF Init, Tidy, OnePrime, BoReturned, Clean

(* Steps of the child, of the display and of the wait touch nothing of it.   *)
LEMMA OthersTidy ==
  Tidy /\ UNCHANGED <<setting, ppc, prime, pfds, pbo>> => Tidy'
BY DEF Tidy, OnePrime, BoReturned, Clean

(* The end of the process closes everything.                                 *)
LEMMA ParentEndsTidy == ParentEnds /\ UNCHANGED setting => Tidy'
BY DEF ParentEnds, Tidy, OnePrime, BoReturned, Clean

(* Whichever way it returns, tile has released its bo.                       *)
LEMMA ReturnTidy ==
  Tidy /\ Return /\ UNCHANGED <<setting, prime, pfds>> => Tidy'
BY DEF Tidy, Return, ReleaseBo, OnePrime, BoReturned, Clean

(* Every step keeps the parent tidy.                                         *)
LEMMA NextTidy == Typed /\ Tidy /\ [Next]_vars => Tidy'
<1> SUFFICES ASSUME Typed, Tidy, [Next]_vars PROVE Tidy'
  OBVIOUS
<1>1. CASE UNCHANGED vars
  BY <1>1, OthersTidy DEF vars
<1>2. CASE StartChild \/ ReadKey \/ Draw \/ Export \/ Send \/ KillChild
  BY <1>2, OthersTidy
  DEF StartChild, ReadKey, Draw, Export, Send, KillChild, parentVars
<1>3. CASE HandleEvent \/ WaitTimeout \/ VerticalBlank
  BY <1>3, OthersTidy
  DEF HandleEvent, WaitTimeout, VerticalBlank, childVars, parentVars, vars
<1>4. CASE ReceiveNothing \/ ReceiveFails \/ KillParent
  BY <1>4, ParentEndsTidy DEF ReceiveNothing, ReceiveFails, KillParent, childVars
<1>5. CASE StartParent
  BY <1>5, ParentEndsTidy
  DEF StartParent, Tidy, OnePrime, BoReturned, Clean, childVars
<1>6. CASE ClosePrime
  BY <1>6 DEF ClosePrime, DropPrime, Tidy, OnePrime, BoReturned, Clean, childVars
<1>7. CASE Receive
  <2>1. pfds = {}
    BY <1>7 DEF Receive, Tidy, OnePrime, Clean
  <2>2. prime' \in Frames /\ prime' # NoFrame
    <3>1. Head(sock) \in Frames /\ prime' = Head(sock)
      BY <1>7, HeadTyped DEF Receive, Typed
    <3> QED BY <3>1, PrimePairAssumption DEF Frames, NoFrame
  <2>3. pfds' = {prime'} /\ ppc' = "import" /\ UNCHANGED <<setting, pbo>>
    BY <1>7, <2>1 DEF Receive, childVars
  <2>4. ppc = "receive"
    BY <1>7 DEF Receive
  <2> QED
    BY <2>2, <2>3, <2>4 DEF Tidy, OnePrime, BoReturned, Clean
<1>8. CASE Import
  BY <1>8 DEF Import, Tidy, OnePrime, BoReturned, Clean, childVars
<1>9. CASE PageFlip
  BY <1>9, ReturnTidy
  DEF PageFlip, MissingSetCrtc, Tidy, OnePrime, BoReturned, Clean, childVars
<1>10. CASE LeaveWait \/ WaitFails \/ SetCrtc
  BY <1>10, ReturnTidy DEF LeaveWait, WaitFails, SetCrtc, childVars
<1> QED
  BY <1>1, <1>2, <1>3, <1>4, <1>5, <1>6, <1>7, <1>8, <1>9, <1>10
  DEF Next, ChildStep, ParentStep, Ended

-----------------------------------------------------------------------------
(* The frame sent last is in the bo the child has locked, so it is not drawn *)
(* over; it stays locked until the next frame has been drawn elsewhere.      *)

(* Nothing is sent at the start.                                             *)
LEMMA InitIntact == Init => Intact
BY DEF Init, Intact, SentLocked, SentIntact, NoFrame

(* Nothing the child has is touched, and the parent does not come back.      *)
LEMMA OthersIntact ==
  Intact /\ UNCHANGED childVars /\ (HasReader' => HasReader) => Intact'
BY DEF Intact, SentLocked, SentIntact, Sure, childVars

(* EGL draws in a bo that is not the locked one.                             *)
LEMMA DrawIntact == Typed /\ Intact /\ Draw => Intact'
<1> SUFFICES ASSUME Typed, Intact, Draw, HasReader, Sure PROVE Intact'
  BY DEF Draw, Intact, SentLocked, SentIntact, HasReader, Sure, parentVars
<1>1. PICK b \in BackBos :
        \/ /\ drawn' = drawn + 1 /\ content' = [content EXCEPT ![b] = drawn + 1]
           /\ front' = b /\ cpc' = "export"
        \/ /\ content' = [content EXCEPT ![b] = NoFrame]
           /\ cpc' = "key" /\ UNCHANGED <<drawn, front>>
  BY DEF Draw, SwapFailed
<1>2. /\ UNCHANGED <<bo, boOf, sent>> /\ cpc = "draw" /\ HasReader'
      /\ b \in Bos /\ b # bo
  BY DEF Draw, BackBos, HasReader, parentVars
<1>3. /\ sent <= drawn
      /\ sent # NoFrame => boOf[sent] = bo /\ content[bo] = sent /\ bo \in Bos
  BY <1>2 DEF Intact, SentLocked, SentIntact
<1>4. drawn \in Nat /\ sent \in Nat /\ content \in [Bos -> 0 .. MaxFrames]
  BY PrimePairAssumption DEF Typed, TypeOK
<1>5. bo \in Bos => content'[bo] = content[bo]
  BY <1>1, <1>2, <1>4
<1>6. cpc' = "export" => content'[b] = drawn + 1 /\ front' = b
  BY <1>1, <1>2, <1>4
<1>7. SentIntact'
  BY <1>2, <1>3, <1>5 DEF SentIntact
<1>8. SentLocked'
  BY <1>1, <1>2, <1>3, <1>4, <1>6 DEF SentLocked
<1> QED BY <1>7, <1>8 DEF Intact

(* The frame that is exported is the one drawn last.                         *)
LEMMA ExportIntact == Typed /\ Intact /\ Export => Intact'
<1> SUFFICES ASSUME Typed, Intact, Export, HasReader, Sure PROVE Intact'
  BY DEF Export, Intact, SentLocked, SentIntact, HasReader, Sure, parentVars
<1>1. /\ bo' = front /\ boOf' = [boOf EXCEPT ![drawn] = front]
      /\ cpc = "export" /\ cpc' = "send"
      /\ UNCHANGED <<drawn, content, front, sent>> /\ HasReader'
  BY DEF Export, Sure, May, HasReader, parentVars
<1>2. /\ sent <= drawn /\ sent < drawn /\ content[front] = drawn
      /\ sent # NoFrame => content[boOf[sent]] = sent /\ boOf[sent] \in Bos
  BY <1>1 DEF Intact, SentLocked, SentIntact
<1>3. drawn \in Frames /\ boOf \in [Frames -> Bos \cup {NoBo}]
  BY <1>1 DEF Typed, TypeOK, InHand
<1>4. boOf'[drawn] = front
  BY <1>1, <1>3
<1>5. sent # drawn /\ (sent # NoFrame => sent \in Frames)
  BY <1>2, <1>3, PrimePairAssumption DEF Typed, TypeOK, Frames, NoFrame
<1>6. sent # NoFrame => boOf'[sent] = boOf[sent]
  BY <1>1, <1>3, <1>5
<1>7. SentIntact'
  BY <1>1, <1>2, <1>6 DEF SentIntact
<1>8. SentLocked'
  BY <1>1, <1>2, <1>4, <1>6 DEF SentLocked
<1> QED BY <1>7, <1>8 DEF Intact

(* As long as there is a parent, each frame drawn is sent.                   *)
LEMMA SendIntact == Typed /\ Intact /\ Send => Intact'
<1> SUFFICES ASSUME Typed, Intact, Send, HasReader, Sure PROVE Intact'
  BY DEF Send, Intact, SentLocked, SentIntact, HasReader, Sure, parentVars
<1>1. /\ sent' = drawn /\ cpc = "send" /\ cpc' = "key" /\ HasReader'
      /\ UNCHANGED <<drawn, content, front, bo, boOf>>
  BY DEF Send, HasReader, parentVars
<1>2. /\ content[front] = drawn /\ bo = front /\ boOf[drawn] = front
      /\ front \in Bos
  BY <1>1 DEF Typed, InHand, Intact, SentLocked
<1>3. drawn <= drawn
  BY PrimePairAssumption DEF Typed, TypeOK
<1> QED BY <1>1, <1>2, <1>3 DEF Intact, SentLocked, SentIntact

(* Start, keys and signals leave the frames alone.                           *)
LEMMA KeyIntact ==
  Intact /\ (StartChild \/ ReadKey \/ KillChild) => Intact'
<1> SUFFICES ASSUME Intact, StartChild \/ ReadKey \/ KillChild PROVE Intact'
  OBVIOUS
<1>1. /\ UNCHANGED <<drawn, content, front, bo, boOf, sent, ppc>>
      /\ cpc' \in {"key", "draw", "exit"} /\ UNCHANGED faults
      /\ cpc' # "exit" => cpc \in {"init", "key"}
  BY DEF StartChild, ReadKey, KillChild, parentVars
<1> QED BY <1>1 DEF Intact, SentLocked, SentIntact, HasReader, Sure

(* Every step keeps the frame sent last.                                     *)
LEMMA NextIntact == Typed /\ Intact /\ [Next]_vars => Intact'
<1> SUFFICES ASSUME Typed, Intact, [Next]_vars PROVE Intact'
  OBVIOUS
<1>1. CASE UNCHANGED vars
  BY <1>1, OthersIntact DEF vars, childVars, HasReader
<1>2. CASE ReceiveNothing \/ ReceiveFails \/ KillParent
  BY <1>2, OthersIntact
  DEF ReceiveNothing, ReceiveFails, KillParent, HasReader
<1>3. CASE StartParent \/ ClosePrime \/ Receive \/ Import \/ VerticalBlank
  BY <1>3, OthersIntact
  DEF StartParent, ClosePrime, Receive, Import, VerticalBlank, HasReader,
      parentVars
<1>4. CASE PageFlip \/ SetCrtc \/ HandleEvent \/ LeaveWait \/ WaitFails
  BY <1>4, OthersIntact
  DEF PageFlip, SetCrtc, HandleEvent, LeaveWait, WaitFails, HasReader
<1>5. CASE WaitTimeout \/ Ended
  BY <1>5, OthersIntact DEF WaitTimeout, Ended, vars, childVars, HasReader
<1> QED
  BY <1>1, <1>2, <1>3, <1>4, <1>5, DrawIntact, ExportIntact, SendIntact,
     KeyIntact
  DEF Next, ChildStep, ParentStep

-----------------------------------------------------------------------------
(* A patient operator, no call failing: a frame is drawn only when the one   *)
(* before is on the screen, so the buffer on the screen is the locked one.   *)

(* There is no frame at the start.                                           *)
LEMMA InitSeen == Init => Seen
BY DEF Init, Seen, InOnePlace, SentWhenShown, ShownIntact, Patient, HasReader,
       NoFrame, NoFlip

(* Nobody becomes patient later on, and a parent that has ended stays ended. *)
LEMMA PatientBefore == Typed /\ [Next]_vars /\ Patient' => Patient
<1> SUFFICES ASSUME Typed, [Next]_vars, Patient' PROVE Patient
  OBVIOUS
<1>1. CASE UNCHANGED vars
  BY <1>1 DEF vars, Patient, HasReader
<1>2. CASE ReadKey
  <2>1. UNCHANGED <<tile, faults, ppc>>
    BY <1>2 DEF ReadKey, parentVars
  <2>2. hasty \in BOOLEAN
    BY DEF Typed, TypeOK
  <2>3. hasty' = hasty \/ hasty' = (hasty \/ screen # drawn)
    BY <1>2 DEF ReadKey
  <2>4. hasty => hasty'
    BY <2>2, <2>3
  <2> QED BY <2>1, <2>4 DEF Patient, HasReader
<1>3. CASE StartChild \/ Draw \/ Export \/ Send \/ KillChild
  BY <1>3 DEF StartChild, Draw, Export, Send, KillChild, parentVars, Patient,
              HasReader
<1>4. CASE ReceiveNothing \/ ReceiveFails \/ KillParent
  BY <1>4 DEF ReceiveNothing, ReceiveFails, KillParent, ParentEnds, Patient,
              HasReader
<1>5. CASE StartParent \/ ClosePrime \/ Receive \/ Import \/ PageFlip
  BY <1>5 DEF StartParent, ClosePrime, Receive, Import, PageFlip, childVars,
              Patient, HasReader
<1>6. CASE HandleEvent \/ WaitTimeout \/ LeaveWait \/ WaitFails \/ SetCrtc
           \/ VerticalBlank
  BY <1>6 DEF HandleEvent, WaitTimeout, LeaveWait, WaitFails, SetCrtc,
              VerticalBlank, childVars, parentVars, vars, Patient, HasReader
<1> QED
  BY <1>1, <1>2, <1>3, <1>4, <1>5, <1>6 DEF Next, ChildStep, ParentStep, Ended

(* The screen goes dark when the parent ends.                                *)
LEMMA NextDark == Seen /\ [Next]_vars /\ ~HasReader' =>
                    screen' = NoFrame /\ pending' = NoFlip
<1> SUFFICES ASSUME Seen, [Next]_vars, ~HasReader'
             PROVE  screen' = NoFrame /\ pending' = NoFlip
  OBVIOUS
<1>1. CASE ~HasReader
  <2>1. screen = NoFrame /\ pending = NoFlip /\ ppc = "exit"
    BY <1>1 DEF Seen, SentWhenShown, HasReader
  <2> QED
    BY <2>1 DEF Next, ChildStep, ParentStep, vars, kernelVars, StartChild,
         ReadKey, Draw, Export, Send, KillChild, StartParent, ClosePrime,
         Receive, ReceiveNothing, ReceiveFails, Import, PageFlip, HandleEvent,
         WaitTimeout, LeaveWait, WaitFails, SetCrtc, KillParent, VerticalBlank,
         Ended
<1>2. CASE HasReader
  <2>1. ParentEnds \/ UNCHANGED ppc \/ ppc' # "exit"
    BY DEF Next, ChildStep, ParentStep, vars, parentVars, StartChild,
         ReadKey, Draw, Export, Send, KillChild, StartParent, ClosePrime,
         Receive, ReceiveNothing, ReceiveFails, Import, PageFlip, HandleEvent,
         WaitTimeout, LeaveWait, WaitFails, SetCrtc, KillParent, VerticalBlank,
         Ended, MissingSetCrtc, Return
  <2> QED BY <1>2, <2>1 DEF ParentEnds, HasReader
<1> QED BY <1>1, <1>2

(* The frame on the screen is whole when it is the one sent last, or stays   *)
(* on the screen while nothing is drawn.                                     *)
LEMMA ShownStays ==
  /\ Typed /\ Seen /\ Intact' /\ [Next]_vars
  /\ Patient' => screen' = sent' \/ UNCHANGED <<screen, content, boOf>>
  /\ ~HasReader' => screen' = NoFrame
  => ShownIntact'
<1> SUFFICES ASSUME Typed, Seen, Intact', [Next]_vars, Patient',
                    screen' = sent' \/ UNCHANGED <<screen, content, boOf>>,
                    screen' # NoFrame
             PROVE  content'[boOf'[screen']] = screen'
  BY DEF ShownIntact, Patient
<1>1. CASE screen' = sent'
  BY <1>1 DEF Intact, SentIntact, Sure, Patient
<1>2. CASE UNCHANGED <<screen, content, boOf>>
  BY <1>2, PatientBefore DEF Seen, ShownIntact, Patient
<1> QED BY <1>1, <1>2

(* The child: it asks for a frame when the last one is shown, and sends it   *)
(* when nothing is under way.                                                *)
LEMMA ChildSeen ==
  /\ Typed /\ Intact /\ Seen /\ Patient /\ Patient'
  /\ StartChild \/ ReadKey \/ Draw \/ Export \/ Send \/ KillChild
  => /\ InOnePlace' /\ SentWhenShown'
     /\ screen' = sent' \/ UNCHANGED <<screen, content, boOf>>
<1> SUFFICES ASSUME Typed, Intact, Seen, Patient, Patient',
                    StartChild \/ ReadKey \/ Draw \/ Export \/ Send \/ KillChild
             PROVE  /\ InOnePlace' /\ SentWhenShown'
                    /\ screen' = sent' \/ UNCHANGED <<screen, content, boOf>>
  OBVIOUS
<1> USE DEF Seen
<1>0. drawn \in Nat /\ sent \in Nat /\ HasReader' /\ faults = {} /\ ~hasty'
  BY PrimePairAssumption DEF Typed, TypeOK, Patient
<1>1. CASE StartChild
  BY <1>0, <1>1 DEF StartChild, May, InOnePlace, SentWhenShown, socketVars,
                    parentVars, kernelVars
<1>2. CASE ReadKey
  BY <1>0, <1>2 DEF ReadKey, InOnePlace, SentWhenShown, socketVars, parentVars,
                    kernelVars
<1>3. CASE Draw
  <2>1. /\ drawn' = drawn + 1 /\ cpc = "draw" /\ cpc' = "export"
        /\ UNCHANGED <<sent, sock, ppc, prime, pbo, screen, pending>>
    BY <1>0, <1>3 DEF Draw, May, socketVars, parentVars, kernelVars
  <2> QED BY <1>0, <2>1 DEF InOnePlace, SentWhenShown
<1>4. CASE Export
  <2>1. /\ cpc = "export" /\ cpc' = "send"
        /\ UNCHANGED <<drawn, sent, sock, ppc, prime, pbo, screen, pending>>
    BY <1>0, <1>4 DEF Export, May, socketVars, parentVars, kernelVars
  <2> QED BY <1>0, <2>1 DEF InOnePlace, SentWhenShown
<1>5. CASE Send
  <2>1. /\ cpc = "send" /\ cpc' = "key" /\ sent' = drawn
        /\ sock' = Append(sock, drawn)
        /\ UNCHANGED <<drawn, content, boOf, ppc, prime, pbo, screen, pending>>
    BY <1>5 DEF Send, Patient, parentVars, kernelVars
  <2>2. /\ screen = sent /\ sent = drawn - 1 /\ sock = <<>>
        /\ ppc \notin {"import", "flip", "setcrtc"} /\ pending = NoFlip
    BY <2>1 DEF InOnePlace, SentWhenShown
  <2>3. sock' = <<drawn>>
    BY <2>1, <2>2
  <2>4. sock' \in {<<>>, <<sent'>>}
    BY <2>1, <2>3
  <2>5. screen' = sent' - 1 /\ screen' # sent'
    BY <1>0, <2>1, <2>2
  <2>6. InOnePlace'
    BY <2>1, <2>2, <2>4, <2>5 DEF InOnePlace
  <2>7. SentWhenShown'
    BY <1>0, <2>1 DEF SentWhenShown
  <2> QED BY <2>1, <2>6, <2>7
<1>6. CASE KillChild
  BY <1>0, <1>6 DEF KillChild, May
<1> QED BY <1>1, <1>2, <1>3, <1>4, <1>5, <1>6

(* The parent and the display take the frame from one place to the next.     *)
LEMMA ParentSeen ==
  /\ Typed /\ Seen /\ Patient /\ Patient'
  /\ \/ StartParent \/ ClosePrime \/ Receive \/ Import \/ PageFlip \/ SetCrtc
     \/ HandleEvent \/ LeaveWait \/ WaitFails \/ VerticalBlank
  => /\ InOnePlace' /\ SentWhenShown'
     /\ screen' = sent' \/ UNCHANGED <<screen, content, boOf>>
<1> SUFFICES ASSUME Typed, Seen, Patient, Patient',
                    \/ StartParent \/ ClosePrime \/ Receive \/ Import
                    \/ PageFlip \/ SetCrtc \/ HandleEvent \/ LeaveWait
                    \/ WaitFails \/ VerticalBlank
             PROVE  /\ InOnePlace' /\ SentWhenShown'
                    /\ screen' = sent' \/ UNCHANGED <<screen, content, boOf>>
  OBVIOUS
<1> USE DEF Seen
<1>0. HasReader' /\ faults = {} /\ ~tile /\ HasReader
  BY DEF Patient
<1>1. UNCHANGED <<cpc, drawn, sent, content, boOf>>
  BY DEF StartParent, ClosePrime, Receive, Import, PageFlip, SetCrtc,
         HandleEvent, LeaveWait, WaitFails, VerticalBlank, childVars
<1>2. screen' \in {screen, sent} => 
        /\ screen' = sent' \/ UNCHANGED <<screen, content, boOf>>
        /\ SentWhenShown'
  BY <1>0, <1>1 DEF SentWhenShown
<1>3. CASE StartParent \/ ClosePrime \/ HandleEvent \/ LeaveWait
  <2>1. /\ UNCHANGED <<sock, screen, pending>>
        /\ ppc \notin {"import", "flip", "setcrtc"}
        /\ ppc' \notin {"import", "flip", "setcrtc"}
    BY <1>0, <1>3 DEF StartParent, ClosePrime, HandleEvent, LeaveWait, May,
                      Return, socketVars, kernelVars
  <2> QED BY <1>1, <1>2, <2>1, Patient DEF InOnePlace
<1>4. CASE WaitFails
  BY <1>0, <1>4 DEF WaitFails, May
<1>5. CASE Receive
  <2>1. /\ sock # <<>> /\ prime' = Head(sock) /\ sock' = Tail(sock)
        /\ ppc' = "import" /\ UNCHANGED <<screen, pending>>
    BY <1>5 DEF Receive, kernelVars
  <2>2. sock = <<sent>> /\ pending = NoFlip /\ screen # sent
    BY <2>1 DEF InOnePlace
  <2>3. prime' = sent /\ sock' = <<>>
    BY <2>1, <2>2
  <2> QED BY <1>1, <1>2, <2>1, <2>2, <2>3 DEF InOnePlace
<1>6. CASE Import
  <2>1. /\ ppc = "import" /\ ppc' = "flip" /\ pbo' = prime
        /\ UNCHANGED <<sock, screen, pending>>
    BY <1>0, <1>6 DEF Import, May, socketVars, kernelVars
  <2> QED BY <1>1, <1>2, <2>1 DEF InOnePlace
<1>7. CASE PageFlip
  <2>1. /\ ppc = "flip" /\ UNCHANGED <<sock, screen>>
        /\ \/ /\ pending' = pbo
              /\ ppc' \in {"wait", "loop"}
           \/ /\ ppc' = "setcrtc" /\ UNCHANGED <<pending, pbo>>
           \/ /\ ppc' = "loop" /\ UNCHANGED pending
    BY <1>7 DEF PageFlip, MissingSetCrtc, Return, socketVars
  <2>2. /\ pbo = sent /\ sock = <<>> /\ pending = NoFlip /\ screen # sent
    BY <2>1 DEF InOnePlace
  <2> QED BY <1>1, <1>2, <2>1, <2>2 DEF InOnePlace
<1>8. CASE SetCrtc
  <2>1. /\ ppc = "setcrtc" /\ ppc' = "loop" /\ screen' = pbo
        /\ UNCHANGED <<sock, pending>>
    BY <1>0, <1>8 DEF SetCrtc, May, Return, socketVars
  <2>2. pbo = sent /\ sock = <<>> /\ pending = NoFlip
    BY <2>1 DEF InOnePlace
  <2> QED BY <1>1, <1>2, <2>1, <2>2 DEF InOnePlace
<1>9. CASE VerticalBlank
  <2>1. /\ pending # NoFlip /\ screen' = pending /\ pending' = NoFlip
        /\ UNCHANGED <<sock, ppc>>
    BY <1>9 DEF VerticalBlank, socketVars, parentVars
  <2>2. /\ pending = sent /\ sock = <<>>
        /\ ppc \notin {"import", "flip", "setcrtc"}
    BY <2>1 DEF InOnePlace
  <2> QED BY <1>1, <1>2, <2>1, <2>2 DEF InOnePlace
<1> QED BY <1>3, <1>4, <1>5, <1>6, <1>7, <1>8, <1>9

(* Every step keeps what is on the screen.                                   *)
LEMMA NextSeen ==
  Typed /\ Intact /\ Seen /\ [Next]_vars /\ Intact' => Seen'
<1> SUFFICES ASSUME Typed, Intact, Seen, [Next]_vars, Intact' PROVE Seen'
  OBVIOUS
<1>1. Patient' => /\ InOnePlace' /\ SentWhenShown'
                  /\ screen' = sent' \/ UNCHANGED <<screen, content, boOf>>
  <2> SUFFICES ASSUME Patient'
               PROVE  /\ InOnePlace' /\ SentWhenShown'
                      /\ screen' = sent' \/ UNCHANGED <<screen, content, boOf>>
    OBVIOUS
  <2>1. Patient
    BY PatientBefore
  <2>2. CASE UNCHANGED vars
    BY <2>2 DEF vars, Seen, InOnePlace, SentWhenShown, Patient, HasReader
  <2>3. ~(ReceiveNothing \/ ReceiveFails \/ KillParent)
    BY DEF ReceiveNothing, ReceiveFails, KillParent, ParentEnds, Patient, HasReader
  <2> QED
    BY <2>1, <2>2, <2>3, ChildSeen, ParentSeen
    DEF Next, ChildStep, ParentStep, WaitTimeout, Ended
<1>2. ~HasReader' => screen' = NoFrame /\ pending' = NoFlip
  BY NextDark
<1>3. InOnePlace' /\ SentWhenShown'
  BY <1>1, <1>2 DEF InOnePlace, SentWhenShown, Patient
<1>4. ShownIntact'
  BY <1>1, <1>2, ShownStays
<1> QED BY <1>3, <1>4 DEF Seen

-----------------------------------------------------------------------------
(* Frames stay in the order they are drawn in.                               *)

(* There is no frame at the start.                                           *)
LEMMA InitOrder == Init => InOrder
BY PrimePairAssumption DEF Init, InOrder, NoFrame, NoFlip

(* The child: what it draws is newer than everything sent.                   *)
LEMMA ChildOrder ==
  Typed /\ InOrder /\ (StartChild \/ ReadKey \/ Draw \/ Export \/ KillChild) => InOrder'
<1> SUFFICES ASSUME Typed, InOrder,
                    StartChild \/ ReadKey \/ Draw \/ Export \/ KillChild
             PROVE  InOrder'
  OBVIOUS
<1>1. /\ UNCHANGED <<sent, sock, ppc, prime, pbo, screen, pending>>
      /\ drawn \in Nat /\ sent \in Nat
      /\ \/ UNCHANGED drawn /\ cpc' \notin {"export", "send"}
         \/ UNCHANGED drawn /\ cpc = "export"
         \/ drawn' = drawn + 1
  BY PrimePairAssumption
  DEF StartChild, ReadKey, Draw, Export, KillChild, socketVars, parentVars,
      kernelVars, Typed, TypeOK, SwapFailed
<1> QED BY <1>1 DEF InOrder, Newer

(* What is sent is newer than what is on its way.                            *)
LEMMA SendOrder == Typed /\ InOrder /\ Send => InOrder'
<1> SUFFICES ASSUME Typed, InOrder, Send PROVE InOrder'
  OBVIOUS
<1>1. CASE UNCHANGED <<sock, sent>>
  <2>1. UNCHANGED <<drawn, ppc, prime, pbo, screen, pending>> /\ cpc = "send"
    BY <1>1 DEF Send, parentVars, kernelVars
  <2> QED BY <1>1, <2>1 DEF InOrder, Newer
<1>2. CASE sock' = Append(sock, drawn) /\ sent' = drawn /\ cpc' = "key"
  <2>1. /\ UNCHANGED <<drawn, ppc, prime, pbo, screen, pending>>
        /\ sent < drawn
    BY DEF Send, parentVars, kernelVars, InOrder
  <2>2. /\ drawn \in Frames /\ drawn \in Nat /\ sent \in Nat /\ screen \in Nat
        /\ pending \in Nat /\ prime \in Nat /\ pbo \in Nat /\ sock \in Seq(Frames)
        /\ \A i \in 1 .. Len(sock) : sock[i] \in Nat
    BY PrimePairAssumption DEF Send, Typed, TypeOK, InHand, Frames
  <2>3. /\ Len(sock') = Len(sock) + 1 /\ Len(sock) \in Nat
        /\ \A i \in 1 .. Len(sock') :
             IF i = Len(sock) + 1 THEN sock'[i] = drawn
             ELSE i \in 1 .. Len(sock) /\ sock'[i] = sock[i]
    BY <1>2, <2>2
  <2>4. \A i \in 1 .. Len(sock) : sock[i] < drawn
    BY <2>1, <2>2 DEF InOrder
  <2>5. /\ screen < drawn /\ pending < drawn
        /\ ppc = "import" => prime < drawn
        /\ ppc \in {"flip", "setcrtc"} => pbo < drawn
    BY <2>1, <2>2 DEF InOrder
  <2>6. ASSUME NEW i \in 1 .. Len(sock')
        PROVE  /\ screen < sock'[i] /\ pending < sock'[i] /\ sock'[i] <= drawn
               /\ ppc = "import" => prime < sock'[i]
               /\ ppc \in {"flip", "setcrtc"} => pbo < sock'[i]
               /\ \A j \in 1 .. Len(sock') : i < j => sock'[i] < sock'[j]
    BY <2>2, <2>3, <2>4, <2>5 DEF InOrder, Newer
  <2> QED BY <1>2, <2>1, <2>2, <2>6 DEF InOrder, Newer
<1> QED BY <1>1, <1>2 DEF Send

(* The parent takes the oldest; what is left is newer.                       *)
LEMMA ReceiveOrder == Typed /\ InOrder /\ Receive => InOrder'
<1> SUFFICES ASSUME Typed, InOrder, Receive PROVE InOrder'
  OBVIOUS
<1>1. /\ sock # <<>> /\ sock' = Tail(sock) /\ prime' = Head(sock)
      /\ ppc' = "import" /\ UNCHANGED <<cpc, drawn, sent, screen, pending>>
  BY DEF Receive, childVars, kernelVars
<1>2. sock \in Seq(Frames)
  BY DEF Typed, TypeOK
<1>3. /\ prime' = sock[1] /\ 1 \in 1 .. Len(sock)
      /\ \A i \in 1 .. Len(sock') :
           i + 1 \in 1 .. Len(sock) /\ sock'[i] = sock[i + 1]
  BY <1>1, <1>2
<1>4. ASSUME NEW i \in 1 .. Len(sock')
      PROVE  /\ Newer(sock'[i]) /\ sock'[i] <= sent /\ sock[1] < sock'[i]
             /\ \A j \in 1 .. Len(sock') : i < j => sock'[i] < sock'[j]
  BY <1>1, <1>2, <1>3 DEF InOrder
<1> QED BY <1>1, <1>3, <1>4 DEF InOrder, Newer

(* What is in the socket are frames.                                         *)
LEMMA SocketFrames ==
  TypeOK => \A i \in 1 .. Len(sock) : sock[i] \in Nat /\ sock[i] > 0
<1> SUFFICES ASSUME TypeOK, NEW i \in 1 .. Len(sock)
             PROVE  sock[i] \in Nat /\ sock[i] > 0
  OBVIOUS
<1>1. sock[i] \in Frames
  BY DEF TypeOK
<1> QED BY <1>1 DEF Frames

(* When the parent ends, the screen is older than everything.                *)
LEMMA EndOrder ==
  Typed /\ InOrder /\ ParentEnds /\ UNCHANGED <<childVars, socketVars>> => InOrder'
<1> SUFFICES ASSUME Typed, InOrder, ParentEnds, UNCHANGED <<childVars, socketVars>>
             PROVE  InOrder'
  OBVIOUS
<1>1. /\ ppc' = "exit" /\ screen' = 0 /\ pending' = 0
      /\ UNCHANGED <<cpc, drawn, sent, sock>>
  BY DEF ParentEnds, NoFrame, NoFlip, childVars, socketVars
<1>2. sent \in Nat /\ \A i \in 1 .. Len(sock) : sock[i] \in Nat /\ sock[i] > 0
  BY SocketFrames, PrimePairAssumption DEF Typed, TypeOK
<1> QED BY <1>1, <1>2 DEF InOrder, Newer, NoFlip

(* The frame in the parent's hands goes to the flip, the display or is lost. *)
LEMMA ParentOrder ==
  Typed /\ InOrder /\ (StartParent \/ ClosePrime \/ Import \/ PageFlip \/ SetCrtc)
    => InOrder'
<1> SUFFICES ASSUME Typed, InOrder,
                    StartParent \/ ClosePrime \/ Import \/ PageFlip \/ SetCrtc,
                    ~ParentEnds
             PROVE  InOrder'
  BY EndOrder DEF StartParent, ClosePrime, Import, PageFlip, SetCrtc
<1>0. UNCHANGED <<cpc, drawn, sent, sock>>
  BY DEF StartParent, ClosePrime, Import, PageFlip, SetCrtc, childVars, socketVars
<1>1. CASE StartParent \/ ClosePrime
  <2>1. UNCHANGED <<screen, pending>> /\ ppc' \in {"loop", "receive"}
    BY <1>1 DEF StartParent, ClosePrime, kernelVars
  <2> QED BY <1>0, <2>1 DEF InOrder, Newer
<1>2. CASE Import
  <2>1. /\ ppc = "import" /\ UNCHANGED <<screen, pending>>
        /\ (pbo' = prime /\ ppc' = "flip") \/ ppc' = "loop"
    BY <1>2 DEF Import, kernelVars
  <2> QED BY <1>0, <2>1 DEF InOrder, Newer
<1>3. CASE PageFlip
  <2>1. /\ ppc = "flip" /\ UNCHANGED screen
        /\ \/ pending' = pbo /\ ppc' \in {"wait", "loop"}
           \/ UNCHANGED pending /\ ppc' = "loop"
           \/ UNCHANGED <<pbo, pending>> /\ ppc' = "setcrtc"
    BY <1>3 DEF PageFlip, MissingSetCrtc, Return
  <2> QED BY <1>0, <2>1 DEF InOrder, Newer
<1>4. CASE SetCrtc
  <2>1. /\ ppc = "setcrtc" /\ ppc' = "loop" /\ UNCHANGED pending
        /\ (pending = NoFlip /\ screen' = pbo) \/ UNCHANGED screen
    BY <1>4 DEF SetCrtc, Return
  <2> QED BY <1>0, <2>1 DEF InOrder, Newer
<1> QED BY <1>1, <1>2, <1>3, <1>4

(* The wait, the display, and the end of the parent.                         *)
LEMMA OthersOrder ==
  Typed /\ InOrder
  /\ (HandleEvent \/ LeaveWait \/ WaitFails \/ VerticalBlank \/ ReceiveNothing
      \/ ReceiveFails \/ KillParent)
    => InOrder'
<1> SUFFICES ASSUME Typed, InOrder,
                    \/ HandleEvent \/ LeaveWait \/ WaitFails \/ VerticalBlank
                    \/ ReceiveNothing \/ ReceiveFails \/ KillParent
             PROVE  InOrder'
  OBVIOUS
<1>0. UNCHANGED <<cpc, drawn, sent, sock>>
  BY DEF HandleEvent, LeaveWait, WaitFails, VerticalBlank, ReceiveNothing,
         ReceiveFails, KillParent, childVars, socketVars
<1>1. CASE HandleEvent \/ LeaveWait \/ WaitFails
  <2>1. UNCHANGED <<screen, pending>> /\ ppc' \in {"wait", "loop"}
    BY <1>1 DEF HandleEvent, LeaveWait, WaitFails, Return, kernelVars
  <2> QED BY <1>0, <2>1 DEF InOrder, Newer
<1>2. CASE VerticalBlank
  <2>1. /\ screen' = pending /\ pending' = 0 /\ screen < pending
        /\ UNCHANGED <<ppc, prime, pbo>>
    BY <1>2 DEF VerticalBlank, parentVars, InOrder, NoFlip
  <2>2. screen \in Nat /\ pending \in Nat /\ prime \in Nat /\ pbo \in Nat /\ sent \in Nat
    BY PrimePairAssumption DEF Typed, TypeOK
  <2>3. \A i \in 1 .. Len(sock) : sock[i] \in Nat /\ sock[i] > 0
    BY SocketFrames DEF Typed
  <2>4. \A f \in Nat : Newer(f) => pending < f /\ 0 < f
    BY <2>2 DEF Newer
  <2> QED BY <1>0, <2>1, <2>2, <2>3, <2>4 DEF InOrder, Newer, NoFlip
<1>3. CASE ReceiveNothing \/ ReceiveFails \/ KillParent
  BY <1>3, EndOrder DEF ReceiveNothing, ReceiveFails, KillParent
<1> QED BY <1>1, <1>2, <1>3

(* Every step keeps the order.                                               *)
LEMMA NextOrder == Typed /\ InOrder /\ [Next]_vars => InOrder'
<1> SUFFICES ASSUME Typed, InOrder, [Next]_vars PROVE InOrder'
  OBVIOUS
<1>1. CASE UNCHANGED vars
  BY <1>1 DEF vars, InOrder, Newer
<1> QED
  BY <1>1, ChildOrder, SendOrder, ReceiveOrder, ParentOrder, OthersOrder
  DEF Next, ChildStep, ParentStep, WaitTimeout, Ended

-----------------------------------------------------------------------------
(* The invariant holds at every step of both programs, whichever call fails, *)
(* whichever process is killed and however fast the operator types.          *)
THEOREM Invariance == Spec => []IInv
<1>1. Init => IInv
  BY InitTyped, InitTidy, InitIntact, InitOrder, InitSeen
  DEF Typed, Tidy, Intact, Seen, IInv
<1>2. IInv /\ [Next]_vars => IInv'
  BY NextTyped, NextTidy, NextIntact, NextOrder, NextSeen
  DEF Typed, Tidy, Intact, Seen, IInv
<1> QED BY <1>1, <1>2, PTL DEF Spec

(* Every variable has its type: no frame is sent that was not drawn, and the *)
(* kernel never holds more events than it has room for.                      *)
THEOREM TypeCorrect == Spec => []TypeOK
<1>1. IInv => TypeOK
  BY DEF IInv
<1> QED BY <1>1, Invariance, PTL

(* The parent never has two prime fds open.                                  *)
THEOREM OnePrimeHolds == Spec => []OnePrime
<1>1. IInv => OnePrime
  BY DEF IInv
<1> QED BY <1>1, Invariance, PTL

(* tile gives its bo back before the next frame.                             *)
THEOREM BoReturnedHolds == Spec => []BoReturned
<1>1. IInv => BoReturned
  BY DEF IInv
<1> QED BY <1>1, Invariance, PTL

(* The frame sent last is not drawn over, if lock and export do not fail.    *)
THEOREM SentIntactHolds == Spec => []SentIntact
<1>1. IInv => SentIntact
  BY DEF IInv
<1> QED BY <1>1, Invariance, PTL

(* simple: with a patient operator and no call failing the child never draws *)
(* in the buffer the screen shows.                                           *)
THEOREM ShownIntactHolds == Spec => []ShownIntact
<1>1. IInv => ShownIntact
  BY DEF IInv
<1> QED BY <1>1, Invariance, PTL

(* The screen never goes back to an older frame.                             *)
THEOREM ScreenAdvancesHolds == Spec => ScreenAdvances
<1> DEFINE Advance == screen' # screen => screen' > screen \/ ppc' = "exit"
<1>1. IInv /\ [Next]_vars => [Advance]_vars
  <2> SUFFICES ASSUME IInv, Next, screen' # screen
               PROVE  screen' > screen \/ ppc' = "exit"
    OBVIOUS
  <2>0. screen \in Nat /\ pending \in Nat /\ pbo \in Nat
    BY PrimePairAssumption DEF IInv, TypeOK
  <2>1. CASE VerticalBlank
    BY <2>0, <2>1 DEF VerticalBlank, IInv, InOrder
  <2>2. CASE SetCrtc
    BY <2>0, <2>2 DEF SetCrtc, IInv, InOrder, Newer
  <2>3. VerticalBlank \/ SetCrtc \/ ParentEnds
    BY DEF Next, ChildStep, ParentStep, StartChild, ReadKey, Draw, Export, Send,
        KillChild, StartParent, ClosePrime, Receive, ReceiveNothing, ReceiveFails,
        Import, PageFlip, HandleEvent, WaitTimeout, LeaveWait, WaitFails,
        KillParent, Ended, kernelVars, vars
  <2> QED BY <2>1, <2>2, <2>3 DEF ParentEnds
<1> QED BY <1>1, Invariance, PTL DEF Spec, ScreenAdvances

-----------------------------------------------------------------------------
(* Why ParentStays fails on a machine with short words: where a size_t has   *)
(* room for the whole message nothing is left in the stream, and the parent  *)
(* then ends only after the child, as long as no call fails.                 *)
RoomForMessage ==
  word >= MsgLen => rest = 0 /\ ParentStays

LEMMA NextRoom == IInv /\ RoomForMessage /\ [Next]_vars => RoomForMessage'
<1> SUFFICES ASSUME IInv, RoomForMessage, [Next]_vars, word' >= MsgLen
             PROVE  rest' = 0 /\ ParentStays'
  BY DEF RoomForMessage
<1>0. UNCHANGED <<word, faults>>
  BY DEF Next, ChildStep, ParentStep, StartChild, ReadKey, Draw, Export, Send,
      KillChild, StartParent, ClosePrime, Receive, ReceiveNothing, ReceiveFails,
      Import, PageFlip, HandleEvent, WaitTimeout, LeaveWait, WaitFails, SetCrtc,
      VerticalBlank, KillParent, Ended, childVars, vars
<1>1. /\ rest = 0 /\ ParentStays /\ word >= MsgLen
      /\ word \in Nat /\ word > 0 /\ MsgLen \in Nat
  BY <1>0, PrimePairAssumption DEF RoomForMessage, IInv, TypeOK
<1>2. CASE Receive
  <2>1. rest' = 0
    BY <1>1, <1>2 DEF Receive
  <2>2. ppc' = "import"
    BY <1>2 DEF Receive
  <2> QED BY <2>1, <2>2 DEF ParentStays
<1>3. CASE ReceiveNothing
  <2>1. Disconnected /\ UNCHANGED <<cpc, rest>>
    BY <1>1, <1>3 DEF ReceiveNothing, childVars, socketVars
  <2> QED BY <1>1, <2>1 DEF ParentStays, Disconnected
<1>4. CASE ReceiveFails \/ KillParent \/ (StartParent /\ ParentEnds)
  <2>1. faults # {} /\ UNCHANGED rest
    BY <1>4 DEF ReceiveFails, KillParent, StartParent, ParentEnds, May, socketVars
  <2> QED BY <1>0, <1>1, <2>1 DEF ParentStays
<1>5. CASE StartChild \/ ReadKey \/ Draw \/ Export \/ Send \/ KillChild
  <2>1. UNCHANGED <<rest, ppc>> /\ cpc # "exit"
    BY <1>5 DEF StartChild, ReadKey, Draw, Export, Send, KillChild, socketVars,
         parentVars
  <2> QED BY <1>0, <1>1, <2>1 DEF ParentStays
<1>6. CASE \/ StartParent /\ ~ParentEnds
           \/ ClosePrime \/ Import \/ PageFlip \/ HandleEvent \/ LeaveWait
           \/ WaitFails \/ SetCrtc
  <2>1. UNCHANGED rest /\ ppc' # "exit"
    BY <1>6 DEF StartParent, ClosePrime, Import, PageFlip, HandleEvent, LeaveWait,
         WaitFails, SetCrtc, Return, MissingSetCrtc, socketVars
  <2> QED BY <1>1, <2>1 DEF ParentStays
<1>7. CASE VerticalBlank \/ UNCHANGED vars
  <2>1. UNCHANGED <<rest, ppc, cpc, faults>>
    BY <1>7 DEF VerticalBlank, childVars, socketVars, parentVars, vars
  <2> QED BY <1>1, <2>1 DEF ParentStays
<1> QED
  BY <1>2, <1>3, <1>4, <1>5, <1>6, <1>7
  DEF Next, ChildStep, ParentStep, WaitTimeout, Ended

(* With room for the message in a size_t the parent stays with the child.    *)
THEOREM ParentStaysWithRoom == Spec => [](word >= MsgLen => ParentStays)
<1>1. Init => RoomForMessage
  BY DEF Init, RoomForMessage, ParentStays
<1>2. RoomForMessage => (word >= MsgLen => ParentStays)
  BY DEF RoomForMessage
<1> QED BY <1>1, <1>2, NextRoom, Invariance, PTL DEF Spec

-----------------------------------------------------------------------------
(* What the wait of ScanOut is worth while its static flag is set: the flip  *)
(* the parent waits for is the one it asked for, and the event is not read   *)
(* before it is done.                                                        *)
SureWait == faults \cap {"pselect", "handle"} = {}

FlipAwaited ==
  /\ flag /\ ppc # "wait" => pending = NoFlip /\ events = 0
  /\ flag /\ ppc = "wait" => \/ pending = pbo /\ events = 0
                             \/ pending = NoFlip /\ screen = pbo
  /\ ~flag /\ ppc = "wait" => pending = NoFlip /\ screen = pbo

LEMMA NextAwaited ==
  IInv /\ (SureWait => FlipAwaited) /\ [Next]_vars => (SureWait => FlipAwaited)'
<1> SUFFICES ASSUME IInv, SureWait => FlipAwaited, [Next]_vars, SureWait'
             PROVE  FlipAwaited'
  OBVIOUS
<1>0. UNCHANGED faults
  BY DEF Next, ChildStep, ParentStep, StartChild, ReadKey, Draw, Export, Send,
      KillChild, StartParent, ClosePrime, Receive, ReceiveNothing, ReceiveFails,
      Import, PageFlip, HandleEvent, WaitTimeout, LeaveWait, WaitFails, SetCrtc,
      VerticalBlank, KillParent, Ended, childVars, vars
<1>1. FlipAwaited /\ ~May("pselect") /\ ~May("handle")
  BY <1>0 DEF SureWait, May
<1>2. CASE UNCHANGED <<ppc, pbo, flag, screen, pending, events>>
  BY <1>1, <1>2 DEF FlipAwaited
<1>3. CASE ParentEnds
  BY <1>3 DEF ParentEnds, FlipAwaited
<1>4. CASE ppc # "wait" /\ ppc' # "wait" /\ UNCHANGED <<flag, pending, events>>
  BY <1>1, <1>4 DEF FlipAwaited
<1>5. CASE PageFlip
  <2>1. /\ ppc = "flip" /\ UNCHANGED <<flag, screen, events>>
        /\ \/ flag /\ ppc' = "wait" /\ pending' = pbo /\ UNCHANGED pbo
           \/ ~flag /\ ppc' # "wait"
           \/ UNCHANGED pending /\ ppc' # "wait"
    BY <1>5 DEF PageFlip, MissingSetCrtc, Return
  <2> QED BY <1>1, <2>1 DEF FlipAwaited
<1>6. CASE HandleEvent
  <2>1. /\ ppc = "wait" /\ flag /\ flag' = FALSE /\ events > 0
        /\ UNCHANGED <<ppc, pbo, screen, pending>>
    BY <1>6 DEF HandleEvent, FlagCleared
  <2>2. pending = NoFlip /\ screen = pbo
    BY <1>1, <2>1 DEF FlipAwaited
  <2> QED BY <2>1, <2>2 DEF FlipAwaited
<1>7. CASE LeaveWait
  <2>1. ppc' = "loop" /\ ~flag'
    BY <1>7 DEF LeaveWait, Return
  <2> QED BY <2>1 DEF FlipAwaited
<1>8. CASE VerticalBlank
  <2>1. /\ pending # NoFlip /\ screen' = pending /\ pending' = NoFlip
        /\ UNCHANGED <<ppc, pbo, flag>>
    BY <1>8 DEF VerticalBlank, parentVars
  <2> QED BY <1>1, <2>1 DEF FlipAwaited
<1>9. CASE WaitFails
  BY <1>1, <1>9 DEF WaitFails
<1>10. CASE StartChild \/ ReadKey \/ Draw \/ Export \/ Send \/ KillChild \/ UNCHANGED vars
  BY <1>2, <1>10 DEF StartChild, ReadKey, Draw, Export, Send, KillChild,
       parentVars, kernelVars, vars
<1>11. CASE StartParent \/ ReceiveNothing \/ ReceiveFails \/ KillParent
  BY <1>3, <1>4, <1>11 DEF StartParent, ReceiveNothing, ReceiveFails, KillParent,
       kernelVars
<1>12. CASE ClosePrime \/ Receive \/ Import \/ SetCrtc
  BY <1>4, <1>12 DEF ClosePrime, Receive, Import, SetCrtc, Return, kernelVars
<1> QED
  BY <1>5, <1>6, <1>7, <1>8, <1>9, <1>10, <1>11, <1>12
  DEF Next, ChildStep, ParentStep, WaitTimeout, Ended

(* The comment on the wait is true of the first frames: until the flag is    *)
(* cleared ScanOut does not return with its flip pending, and when the wait  *)
(* is over the frame is on the screen.  That takes calls of the wait that do *)
(* not fail.                                                                 *)
THEOREM FirstFrameAwaited ==
  Spec => [](SureWait => /\ flag => WaitsForScanOut
                         /\ ppc = "wait" /\ ~flag => pending = NoFlip /\ screen = pbo)
<1>1. Init => FlipAwaited
  BY DEF Init, FlipAwaited
<1>2. FlipAwaited => /\ flag => WaitsForScanOut
                     /\ ppc = "wait" /\ ~flag => pending = NoFlip /\ screen = pbo
  BY DEF FlipAwaited, WaitsForScanOut
<1> QED BY <1>1, <1>2, NextAwaited, Invariance, PTL DEF Spec

-----------------------------------------------------------------------------
(* Display is what drm-prime-multi's loop promises (see ScanOut).  The child *)
(* and the parent of simple do together what that loop does alone, as long   *)
(* as the operator is patient and no call fails.                             *)
D == INSTANCE Display WITH frames <- drawn, running <- TRUE

LEMMA PatientNext ==
  IInv /\ [Next]_vars /\ Patient' => D!Render \/ D!Show \/ UNCHANGED <<drawn, screen>>
<1> SUFFICES ASSUME IInv, [Next]_vars, Patient'
             PROVE  D!Render \/ D!Show \/ UNCHANGED <<drawn, screen>>
  OBVIOUS
<1>1. Patient
  BY PatientBefore DEF IInv, Typed
<1>2. sent \in Nat /\ drawn \in Nat /\ MaxFrames \in Nat
  BY PrimePairAssumption DEF IInv, TypeOK
<1>3. CASE Draw
  <2>1. /\ screen = sent /\ sent = drawn /\ cpc = "draw" /\ UNCHANGED screen
    BY <1>1, <1>3 DEF Draw, IInv, SentWhenShown, kernelVars
  <2>2. drawn' = drawn + 1 \/ UNCHANGED drawn
    BY <1>3 DEF Draw
  <2>3. drawn < MaxFrames
    BY <2>1 DEF IInv, InHand
  <2> QED BY <2>1, <2>2, <2>3 DEF D!Render
<1>4. CASE VerticalBlank
  <2>1. screen' = pending /\ pending # NoFlip /\ UNCHANGED drawn
    BY <1>4 DEF VerticalBlank, childVars
  <2>2. pending = sent /\ screen # sent
    BY <1>1, <2>1 DEF IInv, InOnePlace
  <2>3. sent = drawn
    BY <1>1, <2>2 DEF IInv, SentWhenShown, TypeOK
  <2> QED BY <2>1, <2>2, <2>3 DEF D!Show
<1>5. CASE SetCrtc
  <2>1. /\ screen' = pbo \/ UNCHANGED screen
        /\ UNCHANGED drawn
    BY <1>5 DEF SetCrtc, childVars
  <2>2. pbo = sent /\ screen # sent
    BY <1>1, <1>5 DEF SetCrtc, IInv, InOnePlace
  <2>3. sent = drawn
    BY <1>1, <2>2 DEF IInv, SentWhenShown, TypeOK
  <2> QED BY <2>1, <2>2, <2>3 DEF D!Show
<1>6. CASE UNCHANGED <<drawn, screen>>
  BY <1>6
<1>7. Draw \/ VerticalBlank \/ SetCrtc \/ UNCHANGED <<drawn, screen>>
  BY DEF Next, ChildStep, ParentStep, StartChild, ReadKey, Export, Send, KillChild,
      StartParent, ClosePrime, Receive, ReceiveNothing, ReceiveFails, Import,
      PageFlip, HandleEvent, WaitTimeout, LeaveWait, WaitFails, KillParent, Ended,
      ParentEnds, Patient, HasReader, childVars, kernelVars, vars
<1> QED BY <1>3, <1>4, <1>5, <1>6, <1>7

(* With a patient operator and no call failing, simple renders a frame only  *)
(* when the one before is on the screen, and shows no other than the last.   *)
THEOREM PatientDisplay ==
  Spec => [][Patient' => D!Render \/ D!Show \/ UNCHANGED <<drawn, screen>>]_vars
<1>1. IInv /\ [Next]_vars
        => [Patient' => D!Render \/ D!Show \/ UNCHANGED <<drawn, screen>>]_vars
  BY PatientNext
<1> QED BY <1>1, Invariance, PTL DEF Spec

-----------------------------------------------------------------------------
(* What comes of the flag that is cleared once and for all: nobody reads the *)
(* events after the first one, and when there is no room left for another    *)
(* the kernel refuses every flip.                                            *)
RanOut ==
  /\ faults = {} /\ accepts /\ ppc # "setcrtc"
  /\ ~flag /\ events = EventSpace

Frozen(f) == ppc = "exit" \/ (RanOut /\ pending = NoFlip /\ screen = f)

LEMMA FrozenStays ==
  ASSUME NEW f, Frozen(f), [Next]_vars
  PROVE  Frozen(f)'
<1>1. CASE UNCHANGED <<ppc, screen, pending, events, flag, accepts, faults>>
  BY <1>1 DEF Frozen, RanOut
<1>2. CASE ParentEnds
  BY <1>2 DEF ParentEnds, Frozen
<1>3. CASE StartChild \/ ReadKey \/ Draw \/ Export \/ Send \/ KillChild \/ UNCHANGED vars
  BY <1>1, <1>3 DEF StartChild, ReadKey, Draw, Export, Send, KillChild,
       parentVars, kernelVars, vars
<1>4. CASE ppc = "exit"
  <2>1. ppc' = "exit"
    BY <1>3, <1>4 DEF Next, ChildStep, ParentStep, StartChild, ReadKey, Draw, Export,
        Send, KillChild, StartParent, ClosePrime, Receive, ReceiveNothing,
        ReceiveFails, Import, PageFlip, HandleEvent, WaitTimeout, LeaveWait,
        WaitFails, SetCrtc, VerticalBlank, KillParent, Ended, parentVars, vars
  <2> QED BY <2>1 DEF Frozen
<1>5. CASE RanOut /\ pending = NoFlip /\ screen = f
  <2>1. \A call : ~May(call)
    BY <1>5 DEF RanOut, May
  <2>2. CASE PageFlip
    <3>1. /\ ppc' = "loop" /\ UNCHANGED <<screen, pending, events, flag, accepts, faults>>
      <4>1. accepts /\ events = EventSpace /\ ~(events < EventSpace)
        BY <1>5, PrimePairAssumption DEF RanOut
      <4> QED BY <2>1, <2>2, <4>1 DEF PageFlip, Return, childVars
    <3> QED BY <1>5, <3>1 DEF Frozen, RanOut
  <2>3. CASE StartParent \/ ClosePrime \/ Receive \/ Import \/ LeaveWait
    <3>1. /\ ppc' # "setcrtc"
          /\ UNCHANGED <<screen, pending, events, flag, accepts, faults>>
      BY <2>1, <2>3 DEF StartParent, ClosePrime, Receive, Import, LeaveWait, Return,
          childVars, kernelVars
    <3> QED BY <1>5, <3>1 DEF Frozen, RanOut
  <2>4. CASE ReceiveNothing \/ ReceiveFails \/ KillParent
    BY <1>2, <2>4 DEF ReceiveNothing, ReceiveFails, KillParent
  <2>5. ~(HandleEvent \/ WaitFails \/ SetCrtc \/ VerticalBlank)
    BY <1>5 DEF RanOut, HandleEvent, WaitFails, SetCrtc, VerticalBlank
  <2> QED
    BY <1>3, <2>2, <2>3, <2>4, <2>5
    DEF Next, ChildStep, ParentStep, WaitTimeout, Ended
<1> QED BY <1>4, <1>5 DEF Frozen

(* From then on the screen stays as it is until the parent ends, however     *)
(* many frames the child sends.                                              *)
THEOREM ScreenFreezes ==
  ASSUME NEW f
  PROVE  Spec => [](RanOut /\ screen = f => [](screen = f \/ ppc = "exit"))
<1>1. IInv /\ RanOut /\ screen = f => Frozen(f)
  BY PrimePairAssumption DEF IInv, InHand, TypeOK, RanOut, Frozen
<1>2. Frozen(f) /\ [Next]_vars => Frozen(f)'
  BY FrozenStays
<1>3. Frozen(f) => screen = f \/ ppc = "exit"
  BY DEF Frozen
<1> QED BY <1>1, <1>2, <1>3, Invariance, PTL DEF Spec
=============================================================================
