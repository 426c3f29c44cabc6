------------------------------- MODULE ModeSet -------------------------------
(* The search for an active mode set: DRM::ValidModeSet of                   *)
(* drm-prime-multi.cpp and FindModeSet of -simple and -tile, one turn of     *)
(* their loops over the connectors per step.  Connectors, encoders and crtcs *)
(* are numbered from 1; Invalid is every invalid id.                         *)
EXTENDS Integers

CONSTANTS
  NumConnectors,  \* drmModeRes::count_connectors
  NumEncoders,    \* encoders of the card
  NumCrtcs,       \* crtcs of the card
  Cards           \* the cards there are, see CardsOf

Invalid    == 0
Connectors == 1 .. NumConnectors
Encoders   == 1 .. NumEncoders
Crtcs      == 1 .. NumCrtcs
ConsoleFb  == 1
OrInvalid(ids) == ids \cup {Invalid}

(* Connectors without a cable, without an encoder, with an encoder that      *)
(* drives no crtc; two connectors may share an encoder.                      *)
CardsOf ==
  [hdmi : SUBSET Connectors, encOf : [Connectors -> OrInvalid(Encoders)],
   crtcOf : [Encoders -> OrInvalid(Crtcs)]]

ASSUME ModeSetAssumption ==
  /\ NumConnectors \in Nat /\ NumEncoders \in Nat /\ NumCrtcs \in Nat
  /\ Cards \subseteq CardsOf

VARIABLES
  hdmi,    \* the connectors that are HDMI and connected
  encOf,   \* the encoder a connector is connected to
  crtcOf,  \* the crtc an encoder is connected to
  turn,    \* the connector the loop looks at; 0: the card told no resources
  crtc,    \* _crtc, settings.drm.crtc
  enc,     \* _enc, of multi only
  conn,    \* _conn, settings.drm.connectors
  fb,      \* _fb, of multi only: what the crtc scans out
  sets     \* _ret: the available sets; in multi 1 for true

hwVars == <<hdmi, encOf, crtcOf>>
searchVars == <<turn, crtc, enc, conn, fb, sets>>

Searching == turn \in Connectors
Broken == NumConnectors + 1  \* turn after a break, or after the last connector

ModeSetInit ==
  /\ \E card \in Cards :
       hdmi = card.hdmi /\ encOf = card.encOf /\ crtcOf = card.crtcOf
  /\ turn = 1
  /\ crtc = Invalid /\ enc = Invalid /\ conn = Invalid /\ fb = Invalid

(* A connector the loops do not pass over, and one that is on the screen.    *)
Usable(c) == c \in hdmi /\ encOf[c] # Invalid
Complete(c) == Usable(c) /\ crtcOf[encOf[c]] # Invalid

(* drmModeGetResources answers nothing.                                      *)
NoResources ==
  /\ turn = 1
  /\ turn' = 0 /\ sets' = 0
  /\ UNCHANGED <<crtc, enc, conn, fb, hwVars>>

SameTurn == turn  \* mutant: a continue that skips the increment
NextTurn == turn + 1

CrtcOfLast(c) == IF conn = Invalid THEN crtcOf[encOf[c]] ELSE crtc  \* mutant
CrtcOfTurn(c) == crtcOf[encOf[c]]

(* ValidModeSet: every connector with an encoder replaces what was found     *)
(* before, the loop breaks at the first crtc, and it is true that there is a *)
(* mode set even if the loop ends without a break.                           *)
AlwaysBreaks == TRUE  \* mutant: the test of FindModeSet
Breaks == crtc' # Invalid /\ enc' # Invalid /\ conn' # Invalid

ValidModeSetTurn ==
  /\ Searching
  /\ \/ /\ Usable(turn)
        /\ conn' = turn /\ enc' = encOf[turn] /\ crtc' = CrtcOfTurn(turn)
     \/ ~Usable(turn) /\ UNCHANGED <<crtc, enc, conn>>
  /\ \/ Breaks /\ turn' = Broken /\ fb' \in OrInvalid({ConsoleFb})
     \/ ~Breaks /\ turn' = NextTurn /\ UNCHANGED fb
  /\ UNCHANGED <<sets, hwVars>>

(* FindModeSet: the first connector with an encoder ends the loop, whether   *)
(* or not the encoder has a crtc.                                            *)
AfterFind == Broken
FindModeSetTurn ==
  /\ Searching
  /\ \/ /\ Usable(turn)
        /\ conn' = turn /\ crtc' = CrtcOfTurn(turn) /\ sets' = sets + 1
        /\ turn' = AfterFind
     \/ ~Usable(turn) /\ turn' = NextTurn /\ UNCHANGED <<conn, crtc, sets>>
  /\ UNCHANGED <<enc, fb, hwVars>>

-----------------------------------------------------------------------------
ModeSetTypeOK ==
  /\ hdmi \subseteq Connectors
  /\ encOf \in [Connectors -> OrInvalid(Encoders)]
  /\ crtcOf \in [Encoders -> OrInvalid(Crtcs)]
  /\ turn \in 0 .. Broken
  /\ crtc \in OrInvalid(Crtcs) /\ enc \in OrInvalid(Encoders)
  /\ conn \in OrInvalid(Connectors)
  /\ fb \in OrInvalid({ConsoleFb}) /\ sets \in {0, 1}

(* Crtc, connector and, in multi, encoder are of one path through the card,  *)
(* although every turn may overwrite them.                                   *)
OnePath ==
  /\ conn # Invalid => Usable(conn) /\ crtc = crtcOf[encOf[conn]]
  /\ conn = Invalid => crtc = Invalid /\ enc = Invalid
  /\ enc # Invalid => enc = encOf[conn]
  /\ fb # Invalid => crtc # Invalid

(* ValidModeSet stops at the first connector that is on the screen, whatever *)
(* connectors without a crtc come before it, and names no crtc if there is   *)
(* none.                                                                     *)
FirstOnScreen ==
  turn = Broken =>
    IF crtc = Invalid THEN \A c \in Connectors : ~Complete(c)
    ELSE Complete(conn) /\ \A c \in Connectors : Complete(c) => conn <= c

(* FindModeSet stops at the first connector that has an encoder, and counts  *)
(* a set exactly if there is one.                                            *)
FirstConnected ==
  turn = Broken =>
    IF sets = 0 THEN \A c \in Connectors : ~Usable(c)
    ELSE Usable(conn) /\ \A c \in Connectors : Usable(c) => conn <= c
=============================================================================
