------------------------------- MODULE StartUp -------------------------------
(* How the two sides of the programs build what they draw and scan out with, *)
(* and take it down: the drm fd, the gbm device and surface, the EGL display,*)
(* context and window.  In drm-prime-multi (program "multi") constructors    *)
(* and destructors do it; -simple and -tile ("pair") have the same Init and  *)
(* Deinit.  "screen" scans out (Compositor, Parent), "drawer" only draws     *)
(* (RenderClient, Child).                                                    *)
EXTENDS ModeSet

CONSTANT Faults  \* of "drm", "gbm", "egl", "kill": what may fail

ASSUME StartUpAssumption == Faults \subseteq {"drm", "gbm", "egl", "kill"}

Procs == {"screen", "drawer"}
Nobody == "nobody"
GbmObjects == {"dev", "surf"}
Bindable == {"ctx", "win"}
EglObjects == {"dpy"} \cup Bindable
Objects == {"fd"} \cup GbmObjects \cup EglObjects

VARIABLES
  program,      \* which program runs
  surfaceless,  \* the driver makes a context current without a surface
  pc,           \* what each process builds, runs or takes down ("-") next
  ok,           \* _valid of all parts (multi), _ret of Init (pair)
  held,         \* the objects a process has a handle of that is not invalid
  alive,        \* the objects of a process that exist
  bound,        \* the context and the window eglMakeCurrent made current
  stale,        \* history: what was released when it did not exist
  master,       \* the drm master of the card
  opener,       \* history: who opened the card first
  refused       \* history: whose drmSetMaster or drmDropMaster answered an error

procVars == <<pc, ok, held, alive, bound, stale>>
masterVars == <<master, opener, refused>>
vars == <<program, surfaceless, procVars, masterVars, hwVars, searchVars>>

Multi == program = "multi"
Fail(f) == f \in Faults
Goto(p, l) == pc' = [pc EXCEPT ![p] = l]

Init ==
  /\ program \in {"multi", "pair"} /\ surfaceless \in BOOLEAN
  /\ pc = [p \in Procs |-> "drm"]
  /\ ok = [p \in Procs |-> TRUE]
  /\ held = [p \in Procs |-> {}] /\ alive = [p \in Procs |-> {}]
  /\ bound = [p \in Procs |-> {}] /\ stale = {}
  /\ master = Nobody /\ opener = Nobody /\ refused = {}
  /\ ModeSetInit
  /\ sets = (IF Multi THEN 1 ELSE 0)

-----------------------------------------------------------------------------
(* Building.  In multi a part that fails does not keep the next one from     *)
(* being built; in the pair Init ends at it.                                 *)

Make(p, made) ==
  /\ alive' = [alive EXCEPT ![p] = @ \cup made]
  /\ held' = [held EXCEPT ![p] = @ \cup made]

(* The drawer of multi opens the render node, which has no master.           *)
OnCard(p) == p = "screen" \/ ~Multi
Released(p) == IF master = p THEN Nobody ELSE master

Open(p) ==
  /\ pc[p] = "drm"
  /\ Make(p, {"fd"})
  /\ master' = (IF OnCard(p) /\ master = Nobody THEN p ELSE master)
  /\ opener' = (IF OnCard(p) /\ opener = Nobody THEN p ELSE opener)
  /\ Goto(p, IF Multi /\ p = "screen" THEN "search" ELSE "gbm")
  /\ UNCHANGED <<program, surfaceless, ok, bound, stale, refused, hwVars, searchVars>>

OpenFails(p) ==
  /\ pc[p] = "drm" /\ Fail("drm")
  /\ ok' = [ok EXCEPT ![p] = FALSE]
  /\ Goto(p, IF Multi THEN "gbm" ELSE "egl-")
  /\ UNCHANGED <<program, surfaceless, held, alive, bound, stale, masterVars,
                 hwVars, searchVars>>

Search ==
  /\ pc["screen"] = "search"
  /\ IF Multi THEN ValidModeSetTurn ELSE FindModeSetTurn
  /\ UNCHANGED <<program, surfaceless, procVars, masterVars>>

SearchRefused ==
  /\ pc["screen"] = "search" /\ Fail("drm")
  /\ NoResources
  /\ UNCHANGED <<program, surfaceless, procVars, masterVars>>

SearchDone ==
  /\ pc["screen"] = "search" /\ ~Searching
  /\ ok' = [ok EXCEPT !["screen"] = @ /\ sets > 0]
  /\ Goto("screen", IF Multi THEN "gbm" ELSE IF sets > 0 THEN "master" ELSE "egl-")
  /\ UNCHANGED <<program, surfaceless, held, alive, bound, stale, masterVars,
                 hwVars, searchVars>>

GbmInit(p) ==
  /\ pc[p] = "gbm" /\ "fd" \in held[p]
  /\ Make(p, GbmObjects)
  /\ Goto(p, "egl")
  /\ UNCHANGED <<program, surfaceless, ok, bound, stale, masterVars, hwVars,
                 searchVars>>

(* The device, the surface or a check of them fails.  GBM::Init takes back   *)
(* what it has made and forgets it, the Init of the pair leaves it to Deinit.*)
GbmForgotten(p, made) == held[p] \cup made  \* mutant: Deinit without Clear
GbmUndone(p, made) == held[p]

GbmInitFails(p) ==
  /\ pc[p] = "gbm"
  /\ Fail("gbm") \/ "fd" \notin held[p]
  /\ ok' = [ok EXCEPT ![p] = FALSE]
  /\ \E made \in {{}, {"dev"}, GbmObjects} :
       /\ "fd" \in held[p] \/ made = {}
       /\ \/ /\ Multi
             /\ held' = [held EXCEPT ![p] = GbmUndone(p, made)]
             /\ UNCHANGED alive
             /\ Goto(p, "egl")
          \/ /\ ~Multi /\ made # GbmObjects
             /\ Make(p, made)
             /\ Goto(p, "egl-")
  /\ UNCHANGED <<program, surfaceless, bound, stale, masterVars, hwVars, searchVars>>

(* eglMakeCurrent takes a context and a window, a context alone from a       *)
(* surfaceless driver, and nothing at all; not a window alone.               *)
Binds(made) ==
  \/ Bindable \subseteq made
  \/ made \cap Bindable = {}
  \/ "win" \notin made /\ surfaceless

(* eglTerminate: what is current lives on.                                   *)
Terminated(objects, current) == (objects \ EglObjects) \cup current

(* EGL::Deinit makes the context current without the window first.           *)
Unbound(current, made) ==
  IF "ctx" \notin made THEN {}
  ELSE IF surfaceless THEN {"ctx"} ELSE current

(* EGL::Init only prints what eglInitialize, eglCreateContext and            *)
(* eglCreateWindowSurface answer; it ends with eglSwapBuffers, which needs   *)
(* what went before, and is undone if that fails.                            *)
SwapSkipped(current) == TRUE  \* mutant
Swappable(current) == current = Bindable

EglUp(p, made) ==
  /\ Binds(made) /\ "dpy" \in made /\ Swappable(made \cap Bindable)
  /\ Make(p, made)
  /\ bound' = [bound EXCEPT ![p] = made \cap Bindable]
  /\ UNCHANGED ok

EglUndone(p, made) ==
  /\ made # EglObjects \/ Fail("egl")
  /\ \E current \in {{}, IF Binds(made) THEN made \cap Bindable ELSE {}} :
       LET left == Unbound(current, made) IN
       /\ bound' = [bound EXCEPT ![p] = left]
       /\ alive' = [alive EXCEPT ![p] = Terminated(@ \cup made, left)]
  /\ ok' = [ok EXCEPT ![p] = FALSE]
  /\ UNCHANGED held

(* Init of the pair: eglMakeCurrent alone decides.                           *)
EglInitPair(p, made) ==
  /\ Make(p, made)
  /\ \/ /\ "dpy" \in made /\ Binds(made)
        /\ bound' = [bound EXCEPT ![p] = made \cap Bindable]
        /\ UNCHANGED ok
     \/ /\ made # EglObjects \/ Fail("egl")
        /\ ok' = [ok EXCEPT ![p] = FALSE]
        /\ UNCHANGED bound

(* A display needs a gbm device, a window a gbm surface.                     *)
Makeable(p) ==
  IF "dev" \notin held[p] THEN {{}}
  ELSE IF ~Fail("egl") THEN {EglObjects}
  ELSE {{}} \cup {{"dpy"} \cup m : m \in SUBSET Bindable}

EglInit(p) ==
  /\ pc[p] = "egl"
  /\ \E made \in Makeable(p) :
       IF Multi THEN EglUp(p, made) \/ EglUndone(p, made) ELSE EglInitPair(p, made)
  /\ Goto(p, IF ~ok'[p] THEN "egl-"
             ELSE IF Multi THEN "run"
             ELSE IF p = "screen" THEN "search" ELSE "master")
  /\ UNCHANGED <<program, surfaceless, stale, masterVars, hwVars, searchVars>>

(* The pair: the parent asks for the mastership if it does not have it, the  *)
(* child gives it up if it does.  The card has one master, and either call   *)
(* may fail: the error is printed, and the process goes on as it is.         *)
ParentAsks(p) == p = "screen" /\ master # p  \* mutant: the child keeps it
Asks(p) == IF p = "screen" THEN master # p ELSE master = p
Granted(p) == IF p = "screen" THEN master = Nobody ELSE TRUE

Mastership(p) ==
  /\ pc[p] = "master"
  /\ \/ ~Asks(p) /\ UNCHANGED <<master, refused>>
     \/ /\ Asks(p) /\ Granted(p)
        /\ master' = (IF p = "screen" THEN p ELSE Nobody)
        /\ UNCHANGED refused
     \/ /\ Asks(p) /\ (~Granted(p) \/ Fail("drm"))
        /\ refused' = refused \cup {p}
        /\ UNCHANGED master
  /\ Goto(p, "run")
  /\ UNCHANGED <<program, surfaceless, ok, held, alive, bound, stale, opener, hwVars,
                 searchVars>>

(* Run, or the loops of Parent and Child, end.                               *)
Leave(p) ==
  /\ pc[p] = "run"
  /\ Goto(p, "egl-")
  /\ UNCHANGED <<program, surfaceless, ok, held, alive, bound, stale, masterVars,
                 hwVars, searchVars>>

-----------------------------------------------------------------------------
(* Taking down, whatever was built.  ~Base destroys _egl, then _drm, whose   *)
(* body closes the fd before its member _gbm is destroyed; Deinit of the     *)
(* pair closes the fd last.                                                  *)
AfterEglSwapped == IF Multi THEN "gbm-" ELSE "fd-"  \* mutant
AfterEgl == IF Multi THEN "fd-" ELSE "gbm-"
AfterFd == IF Multi THEN "gbm-" ELSE "exit"
AfterGbm == IF Multi THEN "exit" ELSE "fd-"

Release(p, released) ==
  /\ alive' = [alive EXCEPT ![p] = @ \ released]
  /\ stale' = stale \cup (released \ alive[p])

(* Deinit of the pair makes current what is current.                         *)
EglDeinit(p) ==
  /\ pc[p] = "egl-"
  /\ IF "dpy" \in held[p]
     THEN LET left == IF Multi THEN Unbound(bound[p], held[p]) ELSE bound[p] IN
          /\ bound' = [bound EXCEPT ![p] = left]
          /\ alive' = [alive EXCEPT ![p] = Terminated(@, left)]
     ELSE UNCHANGED <<bound, alive>>
  /\ held' = [held EXCEPT ![p] = IF Multi THEN @ \ EglObjects ELSE @]
  /\ Goto(p, AfterEgl)
  /\ UNCHANGED <<program, surfaceless, ok, stale, masterVars, hwVars, searchVars>>

(* The last handle of the card gives the mastership back.  DRM::Clear leaves *)
(* _fd of a render client as it is.                                          *)
DrmDeinit(p) ==
  /\ pc[p] = "fd-"
  /\ Release(p, held[p] \cap {"fd"})
  /\ held' = [held EXCEPT ![p] = IF OnCard(p) THEN @ \ {"fd"} ELSE @]
  /\ master' = Released(p)
  /\ Goto(p, AfterFd)
  /\ UNCHANGED <<program, surfaceless, ok, bound, opener, refused, hwVars, searchVars>>

GbmDeinit(p) ==
  /\ pc[p] = "gbm-"
  /\ Release(p, held[p] \cap GbmObjects)
  /\ held' = [held EXCEPT ![p] = @ \ GbmObjects]
  /\ Goto(p, AfterGbm)
  /\ UNCHANGED <<program, surfaceless, ok, bound, masterVars, hwVars, searchVars>>

(* The process is gone: main returned, or a signal came.  The kernel takes   *)
(* back what it still had.                                                   *)
End(p) ==
  /\ pc[p] = "exit" \/ (pc[p] # "ended" /\ Fail("kill"))
  /\ held' = [held EXCEPT ![p] = {}] /\ alive' = [alive EXCEPT ![p] = {}]
  /\ bound' = [bound EXCEPT ![p] = {}]
  /\ master' = Released(p)
  /\ Goto(p, "ended")
  /\ UNCHANGED <<program, surfaceless, ok, stale, opener, refused, hwVars, searchVars>>

-----------------------------------------------------------------------------
Step(p) ==
  \/ Open(p) \/ OpenFails(p)
  \/ p = "screen" /\ (Search \/ SearchDone)
  \/ GbmInit(p) \/ GbmInitFails(p) \/ EglInit(p) \/ Mastership(p)
  \/ EglDeinit(p) \/ DrmDeinit(p) \/ GbmDeinit(p)
  \/ pc[p] = "exit" /\ End(p)

Ended == (\A p \in Procs : pc[p] = "ended") /\ UNCHANGED vars

Next ==
  (\E p \in Procs : Step(p) \/ Leave(p) \/ End(p)) \/ SearchRefused \/ Ended

(* Every step is a call that returns, if only with an error; no search has to*)
(* end by one, nobody makes a process end its loop, no signal has to come.   *)
Fairness == \A p \in Procs : WF_vars(Step(p))

Spec == Init /\ [][Next]_vars /\ Fairness

-----------------------------------------------------------------------------
TypeOK ==
  /\ program \in {"multi", "pair"} /\ surfaceless \in BOOLEAN
  /\ pc \in [Procs -> {"drm", "search", "gbm", "egl", "master", "run", "egl-", "fd-",
                       "gbm-", "exit", "ended"}]
  /\ ok \in [Procs -> BOOLEAN]
  /\ held \in [Procs -> SUBSET Objects] /\ alive \in [Procs -> SUBSET Objects]
  /\ bound \in [Procs -> SUBSET Bindable] /\ stale \subseteq Objects
  /\ master \in Procs \cup {Nobody} /\ opener \in Procs \cup {Nobody}
  /\ refused \subseteq Procs
  /\ ModeSetTypeOK

(* The search ends with the connector it is meant to find, and never has the *)
(* crtc of one connector with another.                                       *)
SearchFinds == OnePath /\ IF Multi THEN FirstOnScreen ELSE FirstConnected

(* A process that draws has every part, although a failing part keeps        *)
(* neither the next one of multi from being built nor EGL from going on.     *)
(* Of EGL the pair knows only that eglMakeCurrent took what there was.       *)
ReadyToRun ==
  \A p \in Procs : pc[p] = "run" =>
    /\ ok[p] /\ {"fd", "dpy"} \cup GbmObjects \subseteq alive[p] \cap held[p]
    /\ Multi => EglObjects \subseteq alive[p] /\ bound[p] = Bindable
    /\ p = "screen" => sets > 0 /\ (~Multi => conn # Invalid)

(* Nothing goes before what stands on it; the gbm device of multi stands on  *)
(* an fd that does, the window of the pair, and without a surfaceless driver *)
(* that of multi, on a surface that does.                                    *)
LayersStand ==
  \A p \in Procs :
    /\ alive[p] \cap {"surf", "dpy"} # {} => "dev" \in alive[p]
    /\ "dev" \in alive[p] /\ ~Multi => "fd" \in alive[p]
    /\ "win" \in alive[p] /\ Multi /\ surfaceless => "surf" \in alive[p]

(* Wherever the start-up failed and the process was taken down, the fd and   *)
(* the gbm objects have been released, each once, when it exits.             *)
NothingLeft ==
  /\ stale = {}
  /\ \A p \in Procs : pc[p] = "exit" => alive[p] \subseteq Bindable

(* In whatever order the two processes open the card: a child that draws as  *)
(* drm master could not drop it, and a process that scans out without being  *)
(* master asked for it in vain, after the child had opened the card first.   *)
RightMaster ==
  /\ ~Multi /\ pc["drawer"] = "run" /\ master = "drawer" => "drawer" \in refused
  /\ pc["screen"] = "run" /\ master # "screen" =>
       "screen" \in refused /\ opener = "drawer"

(* Every process comes to draw or ends, and once it stops drawing it ends:   *)
(* no search runs for ever, no failure leaves it half way.                   *)
Settles == \A p \in Procs : pc[p] # "run" ~> pc[p] \in {"run", "ended"}
=============================================================================
