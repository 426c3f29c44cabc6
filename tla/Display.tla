------------------------------- MODULE Display ------------------------------
(* What a loop that renders frames and scans them out promises: a frame is   *)
(* rendered only when the one before is on the screen, so that the screen    *)
(* shows every frame, in order.  The loop may stop at any moment; its last   *)
(* frame may then come on the screen or not.                                 *)
EXTENDS Naturals

CONSTANT MaxFrames

VARIABLES
  frames,   \* frames rendered so far
  screen,   \* the frame on the screen; 0 for what was there before
  running   \* the loop has not stopped

Init == frames = 0 /\ screen = 0 /\ running = TRUE

Render ==
  /\ running /\ screen = frames /\ frames < MaxFrames
  /\ frames' = frames + 1
  /\ UNCHANGED <<screen, running>>

Show ==
  /\ screen' = frames
  /\ UNCHANGED <<frames, running>>

Stop ==
  /\ running' = FALSE
  /\ UNCHANGED <<frames, screen>>

Next == Render \/ Show \/ Stop

Spec == Init /\ [][Next]_<<frames, screen, running>>
=============================================================================
