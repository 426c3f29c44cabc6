---------------------------- MODULE ExploraOverlay --------------------------
(* The start script of the explora board (wpeframework.sh).  Its root file   *)
(* system is read-only: the first start copies five directories to flash and *)
(* adds programs and links to the copies, every start binds the copies over  *)
(* the originals.  No result of mkdir, cp, ln and mount is looked at; power  *)
(* may be lost and the script may be killed at any moment.                   *)
EXTENDS Naturals, Sequences

CONSTANTS
  Faults,     \* of "mkdir", "cp", "ln", "mount": what may fail
  MaxStarts   \* bound: how often the script is started

Order == <<"share", "etc", "lib", "bin", "root">>
Links == <<"bin", "share", "etc", "lib", "root">>  \* by the last link into each
Dirs == {Order[i] : i \in 1 .. Len(Order)}

VARIABLES
  pc,       \* where the script is; "off" when it is not running
  turn,     \* which directory of a loop is next
  dest,     \* flash: DESTINATION is there
  made,     \* flash: the directories below DESTINATION
  copied,   \* flash: those that hold all of the original
  added,    \* flash: those that have all their links; "programs" when copied
  bound,    \* the directories bound over their originals since power came
  starts    \* how often the script has been started

flash == <<dest, made, copied, added>>
vars == <<pc, turn, flash, bound, starts>>

Init ==
  /\ pc = "off" /\ turn = 1
  /\ dest = FALSE /\ made = {} /\ copied = {} /\ added = {}
  /\ bound = {} /\ starts = 0

Fail(f) == f \in Faults
Goto(l) == pc' = l /\ turn' = 1

(* Lines of the script for the directories, one after the other.             *)
ThenNext(l, next) ==
  IF turn < Len(Order) THEN pc' = l /\ turn' = turn + 1 ELSE Goto(next)

Start ==
  /\ pc = "off" /\ starts < MaxStarts
  /\ starts' = starts + 1
  /\ Goto(IF dest THEN "mount" ELSE "mkdir")
  /\ UNCHANGED <<flash, bound>>

(* mkdir -p makes DESTINATION first if it is missing.                        *)
MakeDestination ==
  /\ pc = "mkdir" /\ ~dest
  /\ dest' = TRUE
  /\ UNCHANGED <<pc, turn, made, copied, added, bound, starts>>

Mkdir ==
  /\ pc = "mkdir"
  /\ \/ dest /\ made' = made \cup {Order[turn]}
     \/ Fail("mkdir") /\ UNCHANGED made
  /\ ThenNext("mkdir", "copy")
  /\ UNCHANGED <<dest, copied, added, bound, starts>>

Copy ==
  /\ pc = "copy"
  /\ \/ Order[turn] \in made /\ copied' = copied \cup {Order[turn]}
     \/ (Order[turn] \notin made \/ Fail("cp")) /\ UNCHANGED copied
  /\ ThenNext("copy", "programs")
  /\ UNCHANGED <<dest, made, added, bound, starts>>

(* cp of a directory makes what is missing of it, so DESTINATION itself      *)
(* becomes the copy when it is not there.                                    *)
AddPrograms ==
  /\ pc = "programs"
  /\ \/ dest /\ added' = added \cup {"programs"} /\ made' = made \cup {"bin"}
        /\ UNCHANGED dest
     \/ dest /\ Fail("cp") /\ made' \in {made, made \cup {"bin"}}
        /\ UNCHANGED <<dest, added>>
     \/ ~dest /\ dest' \in BOOLEAN /\ UNCHANGED <<made, added>>
  /\ Goto("link")
  /\ UNCHANGED <<copied, bound, starts>>

Link ==
  /\ pc = "link"
  /\ \/ Links[turn] \in made /\ added' = added \cup {Links[turn]}
     \/ (Links[turn] \notin made \/ Fail("ln")) /\ UNCHANGED added
  /\ ThenNext("link", "mount")
  /\ UNCHANGED <<dest, made, copied, bound, starts>>

(* What is bound already stays; what was not made cannot be bound.           *)
Mount ==
  /\ pc = "mount"
  /\ \/ Order[turn] \in made /\ bound' = bound \cup {Order[turn]}
     \/ (Order[turn] \notin made \/ Fail("mount")) /\ UNCHANGED bound
  /\ ThenNext("mount", "run")
  /\ UNCHANGED <<flash, starts>>

(* WPEFramework ends, or somebody kills the script.                          *)
Stop ==
  /\ pc # "off"
  /\ Goto("off")
  /\ UNCHANGED <<flash, bound, starts>>

(* What is on flash stays, what is bound does not.                           *)
PowerLoss ==
  /\ Goto("off") /\ bound' = {}
  /\ UNCHANGED <<flash, starts>>

Next ==
  \/ Start \/ MakeDestination \/ Mkdir \/ Copy \/ AddPrograms \/ Link \/ Mount
  \/ Stop \/ PowerLoss

Spec == Init /\ [][Next]_vars

-----------------------------------------------------------------------------
(* Everything is on flash that the first start puts there.                   *)
Complete == Dirs \subseteq copied /\ Dirs \cup {"programs"} \subseteq added

(* The comment above the copy: "we bind existing directories with a copy of  *)
(* the actual system. All the stuff we want to add is symbolicly linked in". *)
(* When WPEFramework runs, every directory is bound and is such a copy.      *)
BoundIsCopy == pc = "run" => Dirs \subseteq bound /\ Complete
=============================================================================
