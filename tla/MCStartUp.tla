------------------------------ MODULE MCStartUp ------------------------------
(* The instances of StartUp that TLC checks.                                 *)
EXTENDS StartUp

AllFaults == {"drm", "gbm", "egl", "kill"}

(* The cards with two connectors, up to the names of encoders: encoder 1 is  *)
(* that of connector 1, only encoders in use have a crtc; the first connector*)
(* may be one the loops pass over.                                           *)
TwoConnectors ==
  {card \in CardsOf :
     /\ card.encOf[1] \in {Invalid, 1}
     /\ card.encOf[2] \in {Invalid, card.encOf[1], 2}
     /\ card.crtcOf[1] # Invalid => card.encOf[1] = 1
     /\ card.crtcOf[2] # Invalid => card.encOf[2] = 2
     /\ card.hdmi = Connectors \/ (card.hdmi = {2} /\ card.encOf[1] = 1)}
=============================================================================
