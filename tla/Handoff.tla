------------------------------ MODULE Handoff -------------------------------
(* What a team of one buffer maker and several drawing clients promises:     *)
(* every buffer is made once, handed over at most once, to at most one       *)
(* client, oldest first; and whoever has it has it for good.                 *)
EXTENDS Integers

CONSTANTS MaxRenderClients, MaxBuffers

VARIABLE owner   \* the client that got the buffer, or one of these:

Unmade  == 0
Held    == -1    \* made, not yet sent
Transit == -2
Lost    == -3    \* never to be had by anyone

Clients == 1 .. MaxRenderClients
Buffers == 1 .. MaxBuffers

Init == owner = [b \in Buffers |-> Unmade]

Make(b) ==
  /\ owner[b] = Unmade
  /\ \A a \in Buffers : a < b => owner[a] # Unmade
  /\ \A a \in Buffers : owner[a] # Held
  /\ \E o \in {Held, Lost} : owner' = [owner EXCEPT ![b] = o]

Send(b) ==
  /\ owner[b] = Held
  /\ owner' = [owner EXCEPT ![b] = Transit]

Oldest(b) ==
  /\ owner[b] = Transit
  /\ \A a \in Buffers : owner[a] = Transit => b <= a

Take(b, c) ==
  /\ Oldest(b)
  /\ owner' = [owner EXCEPT ![b] = c]

(* The receiver could not open it, or the maker or all takers have gone: the *)
(* oldest is lost, or everything that is not in the hands of a client.       *)
Lose ==
  \E S \in SUBSET {b \in Buffers : owner[b] \in {Held, Transit}} :
    owner' = [b \in Buffers |-> IF b \in S THEN Lost ELSE owner[b]]

Next ==
  \/ Lose
  \/ \E b \in Buffers :
       Make(b) \/ Send(b) \/ \E c \in Clients : Take(b, c)

Spec == Init /\ [][Next]_owner
=============================================================================
