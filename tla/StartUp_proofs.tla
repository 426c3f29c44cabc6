--------------------------- MODULE StartUp_proofs ---------------------------
(* Proofs about StartUp, for any card and any faults.                        *)
EXTENDS StartUp, TLAPS

(* What the search knows at each turn.                                       *)
SearchInv ==
  /\ OnePath
  /\ Multi /\ conn # Invalid => enc # Invalid
  /\ Multi => sets = 1 \/ turn = 0
  /\ ~Multi => (sets = 0 <=> conn = Invalid)
  /\ Searching /\ Multi => crtc = Invalid /\ \A c \in Connectors : c < turn => ~Complete(c)
  /\ Searching /\ ~Multi => sets = 0 /\ \A c \in Connectors : c < turn => ~Usable(c)
  /\ turn = 0 => crtc = Invalid
  /\ IF Multi THEN FirstOnScreen ELSE FirstConnected

(* The places before the fd, the gbm objects, the display are made, and after*)
(* each has been released.                                                   *)
NoFdYet == {"drm"}
NoGbmYet == NoFdYet \cup {"gbm"} \cup (IF Multi THEN {"search"} ELSE {})
NoEglYet == NoGbmYet \cup {"egl"}
Gone == {"exit", "ended"}
NoFdAnyMore == IF Multi THEN Gone \cup {"gbm-"} ELSE Gone
NoGbmAnyMore == IF Multi THEN Gone ELSE Gone \cup {"fd-"}
NoEglAnyMore == Gone \cup {"fd-", "gbm-"}

(* What a process has of the drm fd, of gbm, of EGL.                         *)
FdInv(p) ==
  /\ pc[p] \in NoFdAnyMore \cup NoFdYet => "fd" \notin alive[p]
  /\ pc[p] \notin NoFdAnyMore => ("fd" \in held[p] <=> "fd" \in alive[p])

GbmInv(p) ==
  /\ "dev" \in held[p] <=> "dev" \in alive[p]
  /\ "surf" \in held[p] <=> "surf" \in alive[p]
  /\ "surf" \in alive[p] => "dev" \in alive[p]
  /\ pc[p] \in NoGbmYet \cup NoGbmAnyMore => "dev" \notin alive[p]
  /\ pc[p] = "egl" /\ "dev" \in alive[p] => "surf" \in alive[p]
  /\ ~Multi /\ "dev" \in alive[p] => "fd" \in alive[p]

EglInv(p) ==
  /\ pc[p] \in NoEglYet => \A o \in EglObjects : o \notin alive[p] /\ o \notin held[p]
  /\ "dpy" \in alive[p] => "dev" \in alive[p] /\ "dpy" \in held[p]
  /\ pc[p] \in NoEglAnyMore => "dpy" \notin alive[p]
  /\ Multi /\ surfaceless /\ "win" \in alive[p] => "surf" \in alive[p] /\ "dpy" \in held[p]
  /\ pc[p] \in NoEglAnyMore /\ Multi /\ surfaceless => "win" \notin alive[p]

(* How far a process that has not failed has come: past the gbm objects, past*)
(* EGL.                                                                      *)
PastEgl == {"run"} \cup (IF Multi THEN {} ELSE {"search", "master"})
PastGbm == {"egl"} \cup PastEgl
PastFd == {"gbm", "egl", "search", "master", "run"}

Ready(p) ==
  /\ pc[p] \in PastFd /\ ok[p] => "fd" \in alive[p]
  /\ pc[p] \in PastGbm /\ ok[p] => "surf" \in alive[p]
  /\ pc[p] \in PastEgl => ok[p] /\ "dpy" \in alive[p] /\ "dpy" \in held[p]
  /\ Multi /\ pc[p] = "run" => EglObjects \subseteq alive[p] /\ bound[p] = Bindable
  /\ ~Multi /\ pc[p] \in PastFd \cup NoFdYet => ok[p]

ScreenReady ==
  /\ Multi /\ pc["screen"] \in {"gbm", "egl", "run"} /\ ok["screen"] => sets > 0
  /\ ~Multi /\ pc["screen"] \in {"master", "run"} => sets > 0
  /\ pc["screen"] = "run" => ok["screen"]
  /\ pc["drawer"] = "search" => ~Multi
  /\ \A p \in Procs : pc[p] = "master" => ~Multi

MasterInv ==
  /\ RightMaster
  /\ opener = Nobody => master = Nobody
  /\ pc["screen"] = "drm" => opener # "screen"
  /\ opener = "screen" /\ pc["screen"] \in PastFd => master = "screen"
  /\ ~Multi /\ opener = Nobody => \A p \in Procs : pc[p] \notin PastFd
  /\ Multi => opener # "drawer"
  /\ Multi /\ ok["screen"] /\ pc["screen"] \in PastFd => opener = "screen"

ProcInv == \A p \in Procs : FdInv(p) /\ GbmInv(p) /\ EglInv(p) /\ Ready(p)

IInv == TypeOK /\ stale = {} /\ SearchInv /\ ProcInv /\ ScreenReady /\ MasterInv
-----------------------------------------------------------------------------
(* Types.                                                                    *)

(* Every card has connectors, encoders and crtcs of the right kind.          *)
LEMMA InitTyped == Init => TypeOK
<1> SUFFICES ASSUME Init PROVE TypeOK
  OBVIOUS
<1>1. ModeSetTypeOK
  <2>1. /\ hdmi \subseteq Connectors
        /\ encOf \in [Connectors -> OrInvalid(Encoders)]
        /\ crtcOf \in [Encoders -> OrInvalid(Crtcs)]
    <3>1. PICK card \in CardsOf :
            hdmi = card.hdmi /\ encOf = card.encOf /\ crtcOf = card.crtcOf
      BY ModeSetAssumption DEF Init, ModeSetInit
    <3> QED BY <3>1 DEF CardsOf
  <2>2. turn \in 0 .. Broken
    BY ModeSetAssumption DEF Init, ModeSetInit, Broken
  <2> QED
    BY <2>1, <2>2 DEF Init, ModeSetInit, ModeSetTypeOK, OrInvalid
<1>2. /\ pc \in [Procs -> {"drm"}] /\ ok \in [Procs -> BOOLEAN]
      /\ held \in [Procs -> SUBSET Objects] /\ alive \in [Procs -> SUBSET Objects]
      /\ bound \in [Procs -> SUBSET Bindable]
  BY DEF Init
<1> QED
  BY <1>1, <1>2 DEF Init, TypeOK

(* A turn of a loop sets ids of the card.                                    *)
LEMMA SearchTyped == ModeSetTypeOK /\ sets = 0 /\ FindModeSetTurn => ModeSetTypeOK'
<1> SUFFICES ASSUME ModeSetTypeOK, sets = 0, FindModeSetTurn PROVE ModeSetTypeOK'
  OBVIOUS
<1>1. turn \in Connectors /\ turn' \in 0 .. Broken
  BY ModeSetAssumption
  DEF FindModeSetTurn, Searching, NextTurn, AfterFind, Connectors, Broken
<1>2. conn' \in OrInvalid(Connectors) /\ sets' \in {0, 1}
  BY <1>1 DEF FindModeSetTurn, ModeSetTypeOK, OrInvalid
<1>3. crtc' \in OrInvalid(Crtcs)
  BY <1>1 DEF FindModeSetTurn, CrtcOfTurn, ModeSetTypeOK, Usable, OrInvalid
<1> QED
  BY <1>1, <1>2, <1>3 DEF FindModeSetTurn, hwVars, ModeSetTypeOK

(* A turn of the loop of ValidModeSet likewise.                              *)
LEMMA ValidTyped == ModeSetTypeOK /\ ValidModeSetTurn => ModeSetTypeOK'
<1> SUFFICES ASSUME ModeSetTypeOK, ValidModeSetTurn PROVE ModeSetTypeOK'
  OBVIOUS
<1>1. turn \in Connectors /\ turn' \in 0 .. Broken
  BY ModeSetAssumption DEF ValidModeSetTurn, Searching, NextTurn, Connectors, Broken
<1>2. conn' \in OrInvalid(Connectors) /\ enc' \in OrInvalid(Encoders)
  BY <1>1 DEF ValidModeSetTurn, ModeSetTypeOK, OrInvalid
<1>3. crtc' \in OrInvalid(Crtcs)
  BY <1>1 DEF ValidModeSetTurn, CrtcOfTurn, ModeSetTypeOK, Usable, OrInvalid
<1>4. fb' \in OrInvalid({ConsoleFb}) /\ sets' \in {0, 1}
  BY DEF ValidModeSetTurn, ModeSetTypeOK
<1> QED
  BY <1>1, <1>2, <1>3, <1>4 DEF ValidModeSetTurn, hwVars, ModeSetTypeOK

(* What a process may make and release are objects.                          *)
LEMMA MadeAreObjects ==
  ASSUME NEW p \in Procs, NEW made \in Makeable(p)
  PROVE  made \subseteq EglObjects
<1> QED
  BY DEF Makeable, EglObjects, Bindable

(* What EGL::Deinit leaves current was made current before.                  *)
LEMMA UndoneLeaves ==
  ASSUME NEW p \in Procs, NEW made \in SUBSET EglObjects, EglUndone(p, made)
  PROVE  \E left \in SUBSET (made \cap Bindable) :
           /\ bound' = [bound EXCEPT ![p] = left]
           /\ alive' = [alive EXCEPT ![p] = Terminated(@ \cup made, left)]
           /\ left = {} \/ left = {"ctx"} \/ (~surfaceless /\ left = Bindable)
<1>1. PICK current \in {{}, IF Binds(made) THEN made \cap Bindable ELSE {}} :
        /\ bound' = [bound EXCEPT ![p] = Unbound(current, made)]
        /\ alive' = [alive EXCEPT ![p] = Terminated(@ \cup made, Unbound(current, made))]
  BY DEF EglUndone
<1>2. current \subseteq made \cap Bindable /\ (current = {} \/ Binds(made))
  BY <1>1
<1>3. Unbound(current, made) \subseteq made \cap Bindable
  BY <1>2 DEF Unbound, Bindable
<1>4. \/ Unbound(current, made) = {} \/ Unbound(current, made) = {"ctx"}
      \/ ~surfaceless /\ Unbound(current, made) = Bindable
  BY <1>2 DEF Unbound, Binds, Bindable
<1> QED BY <1>1, <1>3, <1>4

(* What is made is added to the objects of the process.                      *)
LEMMA MakeTyped ==
  ASSUME TypeOK, NEW p \in Procs, NEW made \in SUBSET Objects, Make(p, made)
  PROVE  alive' \in [Procs -> SUBSET Objects] /\ held' \in [Procs -> SUBSET Objects]
<1> QED
  BY DEF Make, TypeOK

(* EGL::Init, whether or not it is undone, and the Init of the pair.         *)
LEMMA EglInitTyped ==
  ASSUME TypeOK, NEW p \in Procs, EglInit(p)
  PROVE  /\ alive' \in [Procs -> SUBSET Objects] /\ held' \in [Procs -> SUBSET Objects]
         /\ bound' \in [Procs -> SUBSET Bindable] /\ ok' \in [Procs -> BOOLEAN]
<1>1. PICK made \in Makeable(p) :
        IF Multi THEN EglUp(p, made) \/ EglUndone(p, made) ELSE EglInitPair(p, made)
  BY DEF EglInit
<1>2. made \subseteq EglObjects /\ EglObjects \subseteq Objects
  BY MadeAreObjects DEF Objects, EglObjects, Bindable
<1>3. made \cap Bindable \in SUBSET Bindable /\ Bindable \subseteq Objects
  BY DEF Objects, EglObjects
<1>4. made \in SUBSET EglObjects /\ made \in SUBSET Objects
  BY <1>2
<1>5. CASE Multi /\ EglUp(p, made)
  <2>1. Make(p, made)
    BY <1>5 DEF EglUp
  <2> QED
    BY <1>3, <1>4, <1>5, <2>1, MakeTyped DEF EglUp, TypeOK
<1>6. CASE Multi /\ EglUndone(p, made)
  <2>1. PICK left \in SUBSET (made \cap Bindable) :
          /\ bound' = [bound EXCEPT ![p] = left]
          /\ alive' = [alive EXCEPT ![p] = Terminated(@ \cup made, left)]
          /\ left = {} \/ left = {"ctx"} \/ (~surfaceless /\ left = Bindable)
    BY <1>4, <1>6, UndoneLeaves, Zenon
  <2>2. Terminated(alive[p] \cup made, left) \in SUBSET Objects
    BY <1>2, <1>3 DEF Terminated, TypeOK
  <2>3. alive' \in [Procs -> SUBSET Objects]
    BY <2>1, <2>2 DEF TypeOK
  <2> QED
    BY <1>3, <1>6, <2>1, <2>3 DEF EglUndone, TypeOK
<1>7. CASE ~Multi
  <2>1. Make(p, made) /\ EglInitPair(p, made)
    BY <1>1, <1>7 DEF EglInitPair
  <2>2. ok' \in [Procs -> BOOLEAN] /\ bound' \in [Procs -> SUBSET Bindable]
    BY <1>3, <2>1 DEF EglInitPair, TypeOK
  <2> QED
    BY <1>4, <2>1, <2>2, MakeTyped
<1> QED BY <1>1, <1>5, <1>6, <1>7

(* Every step but a turn of the search leaves the card and what was found.   *)
LEMMA StepTyped ==
  ASSUME TypeOK, NEW p \in Procs,
         \/ Open(p) \/ OpenFails(p) \/ SearchDone \/ GbmInit(p) \/ GbmInitFails(p)
         \/ EglInit(p) \/ Mastership(p) \/ Leave(p)
         \/ EglDeinit(p) \/ DrmDeinit(p) \/ GbmDeinit(p) \/ End(p)
  PROVE  TypeOK'
<1>1. ModeSetTypeOK' /\ program' \in {"multi", "pair"} /\ surfaceless' \in BOOLEAN
  <2>1. UNCHANGED <<program, surfaceless, hwVars, searchVars>>
    BY DEF Open, OpenFails, SearchDone, GbmInit, GbmInitFails, EglInit, Mastership,
           Leave, EglDeinit, DrmDeinit, GbmDeinit, End
  <2> QED
    BY <2>1 DEF TypeOK, ModeSetTypeOK, hwVars, searchVars
<1>2. /\ pc' \in [Procs -> {"drm", "search", "gbm", "egl", "master", "run", "egl-",
                           "fd-", "gbm-", "exit", "ended"}]
  BY DEF TypeOK, Goto, Open, OpenFails, SearchDone, GbmInit, GbmInitFails, EglInit,
         Mastership, Leave, EglDeinit, DrmDeinit, GbmDeinit, End, AfterEgl, AfterFd,
         AfterGbm, Procs
<1>5. /\ master' \in Procs \cup {Nobody} /\ opener' \in Procs \cup {Nobody}
      /\ refused' \subseteq Procs
  <2>1. CASE Open(p) \/ Mastership(p)
    BY <2>1 DEF TypeOK, Open, Mastership, Procs
  <2>2. CASE DrmDeinit(p) \/ End(p)
    BY <2>2 DEF TypeOK, DrmDeinit, End, Released
  <2>3. CASE \/ OpenFails(p) \/ SearchDone \/ GbmInit(p) \/ GbmInitFails(p) \/ EglInit(p)
             \/ Leave(p) \/ EglDeinit(p) \/ GbmDeinit(p)
    <3>1. UNCHANGED masterVars
      BY <2>3 DEF OpenFails, SearchDone, GbmInit, GbmInitFails, EglInit, Leave, EglDeinit,
                  GbmDeinit
    <3> QED BY <3>1 DEF TypeOK, masterVars
  <2> QED BY <2>1, <2>2, <2>3
<1>3. {"fd"} \in SUBSET Objects /\ GbmObjects \in SUBSET Objects
      /\ {"dev"} \in SUBSET Objects /\ {} \in SUBSET Objects
  BY DEF Objects, GbmObjects
<1>4. /\ alive' \in [Procs -> SUBSET Objects] /\ held' \in [Procs -> SUBSET Objects]
      /\ bound' \in [Procs -> SUBSET Bindable] /\ ok' \in [Procs -> BOOLEAN]
      /\ stale' \subseteq Objects
  <2>1. CASE Open(p)
    BY <1>3, <2>1, MakeTyped DEF Open, TypeOK
  <2>2. CASE OpenFails(p) \/ Mastership(p) \/ Leave(p)
    BY <2>2 DEF OpenFails, Mastership, Leave, TypeOK
  <2>3. CASE SearchDone
    BY <2>3 DEF SearchDone, TypeOK, Procs
  <2>4. CASE GbmInit(p)
    BY <1>3, <2>4, MakeTyped DEF GbmInit, TypeOK
  <2>5. CASE GbmInitFails(p)
    <3>1. PICK made \in {{}, {"dev"}, GbmObjects} :
            \/ held' = [held EXCEPT ![p] = held[p]] /\ UNCHANGED alive
            \/ Make(p, made)
      BY <2>5 DEF GbmInitFails, GbmUndone
    <3>2. made \in SUBSET Objects
      BY <1>3
    <3>3. alive' \in [Procs -> SUBSET Objects] /\ held' \in [Procs -> SUBSET Objects]
      BY <3>1, <3>2, MakeTyped DEF TypeOK
    <3> QED BY <2>5, <3>3 DEF GbmInitFails, TypeOK
  <2>6. CASE EglInit(p)
    <3>1. stale' = stale
      BY <2>6 DEF EglInit
    <3> QED BY <2>6, <3>1, EglInitTyped DEF TypeOK
  <2>7. CASE EglDeinit(p)
    <3>1. /\ UNCHANGED <<ok, stale>>
          /\ held' \in [Procs -> SUBSET Objects]
      BY <2>7 DEF EglDeinit, TypeOK
    <3>2. UNCHANGED <<bound, alive>> \/ \E left \in SUBSET Bindable :
            /\ bound' = [bound EXCEPT ![p] = left]
            /\ alive' = [alive EXCEPT ![p] = Terminated(alive[p], left)]
      BY <2>7 DEF EglDeinit, TypeOK, Unbound, Bindable
    <3>3. Bindable \subseteq Objects
      BY DEF Objects, EglObjects
    <3> QED BY <3>1, <3>2, <3>3 DEF Terminated, TypeOK
  <2>8. CASE DrmDeinit(p)
    BY <2>8 DEF DrmDeinit, Release, TypeOK
  <2>9. CASE GbmDeinit(p)
    BY <2>9 DEF GbmDeinit, Release, TypeOK
  <2>10. CASE End(p)
    BY <2>10 DEF End, TypeOK
  <2> QED BY <2>1, <2>2, <2>3, <2>4, <2>5, <2>6, <2>7, <2>8, <2>9, <2>10
<1> QED BY <1>1, <1>2, <1>4, <1>5 DEF TypeOK

-----------------------------------------------------------------------------
(* The search.                                                               *)

(* Before the first turn nothing is found.                                   *)
LEMMA InitSearch == Init => SearchInv
<1> SUFFICES ASSUME Init PROVE SearchInv
  OBVIOUS
<1>1. turn = 1 /\ conn = Invalid /\ crtc = Invalid /\ enc = Invalid /\ fb = Invalid
      /\ sets = (IF Multi THEN 1 ELSE 0)
  BY DEF Init, ModeSetInit
<1>2. turn = Broken => Connectors = {}
  BY <1>1, ModeSetAssumption DEF Broken, Connectors
<1> QED
  BY <1>1, <1>2, ModeSetAssumption
  DEF SearchInv, OnePath, FirstOnScreen, FirstConnected, Connectors, Invalid

(* A turn of ValidModeSet.                                                   *)
LEMMA ValidSearch ==
  ASSUME TypeOK, SearchInv, Multi, Multi', ValidModeSetTurn
  PROVE  SearchInv'
<1>1. /\ turn \in Connectors /\ crtc = Invalid /\ turn # 0
      /\ \A c \in Connectors : c < turn => ~Complete(c)
      /\ UNCHANGED <<hdmi, encOf, crtcOf, sets>> /\ sets = 1
  BY ModeSetAssumption DEF ValidModeSetTurn, Searching, SearchInv, Connectors, hwVars
<1>2. \A c \in Connectors : (Usable(c)' <=> Usable(c)) /\ (Complete(c)' <=> Complete(c))
  BY <1>1 DEF Usable, Complete
<1>3. \A c \in Connectors : c \in Int /\ c # Invalid /\ c < Broken
  BY ModeSetAssumption DEF Connectors, Broken, Invalid
<1>4. encOf[turn] # Invalid => encOf[turn] \in Encoders
  BY <1>1 DEF TypeOK, ModeSetTypeOK, OrInvalid
<1>5. CASE Usable(turn)
  <2>1. conn' = turn /\ enc' = encOf[turn] /\ crtc' = crtcOf[encOf[turn]]
    BY <1>5 DEF ValidModeSetTurn, CrtcOfTurn
  <2>2. enc' # Invalid /\ conn' # Invalid
    BY <1>1, <1>3, <1>5, <2>1 DEF Usable
  <2>3. CASE crtc' # Invalid
    <3>1. turn' = Broken /\ Complete(turn)
      BY <1>5, <2>1, <2>2, <2>3 DEF ValidModeSetTurn, Breaks, Complete
    <3>2. FirstOnScreen'
      BY <1>1, <1>2, <1>3, <2>1, <2>3, <3>1 DEF FirstOnScreen, Connectors, Broken
    <3>3. OnePath'
      BY <1>1, <1>2, <1>3, <1>5, <2>1, <2>2, <2>3 DEF OnePath
    <3> QED
      BY <1>1, <2>2, <3>1, <3>2, <3>3, ModeSetAssumption
      DEF SearchInv, Searching, Connectors, Broken
  <2>4. CASE crtc' = Invalid
    <3>1. turn' = turn + 1 /\ fb' = fb /\ ~Complete(turn)
      BY <1>5, <2>1, <2>4 DEF ValidModeSetTurn, Breaks, NextTurn, Complete
    <3>2. \A c \in Connectors : c < turn' => ~Complete(c)'
      BY <1>1, <1>2, <3>1, ModeSetAssumption DEF Connectors
    <3>3. OnePath'
      BY <1>1, <1>2, <1>3, <1>5, <2>1, <2>2, <2>4, <3>1 DEF OnePath, SearchInv
    <3>4. FirstOnScreen'
      BY <1>3, <2>4, <3>2 DEF FirstOnScreen
    <3> QED
      BY <1>1, <2>2, <2>4, <3>1, <3>2, <3>3, <3>4, ModeSetAssumption
      DEF SearchInv, Searching, Connectors
  <2> QED BY <2>3, <2>4
<1>6. CASE ~Usable(turn)
  <2>1. UNCHANGED <<crtc, enc, conn, fb>> /\ turn' = turn + 1
    BY <1>1, <1>6 DEF ValidModeSetTurn, Breaks, NextTurn
  <2>2. \A c \in Connectors : c < turn' => ~Complete(c)'
    BY <1>1, <1>2, <1>6, <2>1, ModeSetAssumption DEF Connectors, Complete
  <2>3. OnePath'
    <3>1. conn \in OrInvalid(Connectors)
      BY DEF TypeOK, ModeSetTypeOK
    <3> QED BY <1>1, <1>2, <2>1, <3>1 DEF OnePath, SearchInv, OrInvalid
  <2>4. FirstOnScreen'
    BY <1>1, <1>3, <2>1, <2>2 DEF FirstOnScreen
  <2> QED
    BY <1>1, <2>1, <2>2, <2>3, <2>4, ModeSetAssumption
    DEF SearchInv, Searching, Connectors
<1> QED BY <1>5, <1>6

(* A turn of FindModeSet.                                                    *)
LEMMA FindSearch ==
  ASSUME TypeOK, SearchInv, ~Multi, ~Multi', FindModeSetTurn
  PROVE  SearchInv'
<1>1. /\ turn \in Connectors /\ turn # 0 /\ sets = 0 /\ conn = Invalid
      /\ crtc = Invalid /\ enc = Invalid /\ fb = Invalid
      /\ \A c \in Connectors : c < turn => ~Usable(c)
      /\ UNCHANGED <<hdmi, encOf, crtcOf, enc, fb>>
  BY ModeSetAssumption
  DEF FindModeSetTurn, Searching, SearchInv, OnePath, Connectors, hwVars
<1>2. \A c \in Connectors : Usable(c)' <=> Usable(c)
  BY <1>1 DEF Usable
<1>3. \A c \in Connectors : c \in Int /\ c # Invalid /\ c < Broken
  BY ModeSetAssumption DEF Connectors, Broken, Invalid
<1>5. CASE Usable(turn)
  <2>1. conn' = turn /\ crtc' = crtcOf[encOf[turn]] /\ sets' = 1 /\ turn' = Broken
    BY <1>1, <1>5 DEF FindModeSetTurn, CrtcOfTurn, AfterFind
  <2>2. FirstConnected'
    BY <1>1, <1>2, <1>3, <1>5, <2>1 DEF FirstConnected, Connectors, Broken
  <2>3. OnePath'
    BY <1>1, <1>2, <1>3, <1>5, <2>1 DEF OnePath
  <2> QED
    BY <1>1, <1>3, <2>1, <2>2, <2>3, ModeSetAssumption
    DEF SearchInv, Searching, Connectors, Broken
<1>6. CASE ~Usable(turn)
  <2>1. UNCHANGED <<crtc, conn, sets>> /\ turn' = turn + 1
    BY <1>6 DEF FindModeSetTurn, NextTurn
  <2>2. \A c \in Connectors : c < turn' => ~Usable(c)'
    BY <1>1, <1>2, <1>6, <2>1, ModeSetAssumption DEF Connectors
  <2>3. OnePath' /\ FirstConnected'
    BY <1>1, <1>3, <2>1, <2>2 DEF OnePath, FirstConnected
  <2> QED
    BY <1>1, <2>1, <2>2, <2>3, ModeSetAssumption DEF SearchInv, Searching, Connectors
<1> QED BY <1>5, <1>6

(* The card answers nothing.                                                 *)
LEMMA RefusedSearch ==
  ASSUME TypeOK, SearchInv, program' = program, NoResources
  PROVE  SearchInv'
<1>1. UNCHANGED <<crtc, enc, conn, fb, hdmi, encOf, crtcOf>> /\ turn' = 0 /\ sets' = 0
  BY DEF NoResources, hwVars
<1>2. crtc = Invalid /\ (~Multi => conn = Invalid)
  <2>1. CASE turn \in Connectors
    BY <2>1 DEF SearchInv, OnePath, Searching
  <2>2. CASE turn \notin Connectors
    <3>1. \A c : c \notin Connectors
      <4>1. turn = 1
        BY DEF NoResources
      <4> QED BY <2>2, <4>1, ModeSetAssumption DEF Connectors
    <3>2. conn = Invalid
      BY <3>1 DEF TypeOK, ModeSetTypeOK, OrInvalid
    <3> QED BY <3>2 DEF SearchInv, OnePath
  <2> QED BY <2>1, <2>2
<1>3. OnePath'
  BY <1>1 DEF SearchInv, OnePath, Usable
<1>4. turn' # Broken /\ turn' \notin Connectors
  BY <1>1, ModeSetAssumption DEF Broken, Connectors
<1> QED
  BY <1>1, <1>2, <1>3, <1>4
  DEF SearchInv, Multi, Searching, FirstOnScreen, FirstConnected

(* No other step touches what the search has found.                          *)
LEMMA SearchKept ==
  ASSUME SearchInv, program' = program, UNCHANGED <<hwVars, searchVars>>
  PROVE  SearchInv'
<1> QED
  BY DEF SearchInv, Multi, OnePath, Usable, Complete, Searching, FirstOnScreen,
         FirstConnected, hwVars, searchVars

-----------------------------------------------------------------------------
(* What a process has.                                                       *)

Has(p) == FdInv(p) /\ GbmInv(p) /\ EglInv(p) /\ Ready(p)

Same(q) ==
  /\ program' = program /\ surfaceless' = surfaceless
  /\ pc'[q] = pc[q] /\ ok'[q] = ok[q] /\ held'[q] = held[q]
  /\ alive'[q] = alive[q] /\ bound'[q] = bound[q]

(* A process nothing happens to has what it had.                             *)
LEMMA SameHas == ASSUME NEW q \in Procs, Has(q), Same(q) PROVE Has(q)'
<1> USE DEF Same, Multi, NoFdYet, NoGbmYet, NoEglYet, Gone, NoFdAnyMore, NoGbmAnyMore,
            NoEglAnyMore, PastEgl, PastGbm, PastFd
<1>1. FdInv(q)' /\ GbmInv(q)'
  BY DEF Has, FdInv, GbmInv
<1>2. EglInv(q)'
  BY DEF Has, EglInv
<1>3. Ready(q)'
  BY DEF Has, Ready
<1> QED BY <1>1, <1>2, <1>3 DEF Has

(* A step of one process leaves the other as it is.                          *)
LEMMA OthersSame ==
  ASSUME TypeOK, NEW p \in Procs, NEW q \in Procs, p # q,
         \/ Open(p) \/ OpenFails(p) \/ (p = "screen" /\ SearchDone) \/ GbmInit(p)
         \/ GbmInitFails(p) \/ EglInit(p) \/ Mastership(p) \/ Leave(p)
         \/ EglDeinit(p) \/ DrmDeinit(p) \/ GbmDeinit(p) \/ End(p)
  PROVE  Same(q)
<1>1. /\ program' = program /\ surfaceless' = surfaceless /\ pc'[q] = pc[q]
  BY DEF TypeOK, Goto, Open, OpenFails, SearchDone, GbmInit, GbmInitFails, EglInit,
         Mastership, Leave, EglDeinit, DrmDeinit, GbmDeinit, End
<1>2. ok'[q] = ok[q]
  BY DEF TypeOK, Open, OpenFails, SearchDone, GbmInit, GbmInitFails, EglInit, EglUp,
         EglUndone, EglInitPair, Mastership, Leave, EglDeinit, DrmDeinit, GbmDeinit, End
<1>3. held'[q] = held[q]
  BY DEF TypeOK, Make, Open, OpenFails, SearchDone, GbmInit, GbmInitFails, EglInit,
         EglUp, EglUndone, EglInitPair, Mastership, Leave, EglDeinit, DrmDeinit,
         GbmDeinit, End
<1>4. alive'[q] = alive[q] /\ bound'[q] = bound[q]
  BY DEF TypeOK, Make, Release, Open, OpenFails, SearchDone, GbmInit, GbmInitFails,
         EglInit, EglUp, EglUndone, EglInitPair, Mastership, Leave, EglDeinit,
         DrmDeinit, GbmDeinit, End
<1> QED BY <1>1, <1>2, <1>3, <1>4 DEF Same

(* The process itself, building.                                             *)
LEMMA BuildHas ==
  ASSUME TypeOK, NEW p \in Procs, Has(p), ScreenReady,
         \/ Open(p) \/ OpenFails(p) \/ (p = "screen" /\ SearchDone) \/ GbmInit(p)
         \/ GbmInitFails(p) \/ Mastership(p) \/ Leave(p)
  PROVE  Has(p)'
<1> USE DEF Multi, NoFdYet, NoGbmYet, NoEglYet, Gone, NoFdAnyMore, NoGbmAnyMore,
            NoEglAnyMore, PastEgl, PastGbm, PastFd, GbmObjects, EglObjects, Bindable
<1>1. program' = program /\ surfaceless' = surfaceless
  BY DEF Open, OpenFails, SearchDone, GbmInit, GbmInitFails, Mastership, Leave
<1>2. CASE Open(p)
  <2>1. /\ pc[p] = "drm" /\ pc'[p] \in {"search", "gbm"} /\ ok'[p] = ok[p]
        /\ pc'[p] = "search" => Multi
        /\ alive'[p] = alive[p] \cup {"fd"} /\ held'[p] = held[p] \cup {"fd"}
        /\ bound'[p] = bound[p]
    BY <1>2 DEF Open, Make, Goto, TypeOK
  <2>2. FdInv(p)' /\ GbmInv(p)'
    BY <1>1, <2>1 DEF Has, FdInv, GbmInv
  <2>3. EglInv(p)' /\ Ready(p)'
    BY <1>1, <2>1 DEF Has, GbmInv, EglInv, Ready
  <2> QED BY <2>2, <2>3 DEF Has
<1>3. CASE OpenFails(p)
  <2>1. /\ pc[p] = "drm" /\ pc'[p] = (IF Multi THEN "gbm" ELSE "egl-") /\ ~ok'[p]
        /\ alive'[p] = alive[p] /\ held'[p] = held[p] /\ bound'[p] = bound[p]
    BY <1>3 DEF OpenFails, Goto, TypeOK
  <2> QED
    BY <1>1, <2>1 DEF Has, FdInv, GbmInv, EglInv, Ready
<1>4. CASE p = "screen" /\ SearchDone
  <2>1. /\ pc[p] = "search" /\ pc'[p] \in {"gbm", "master", "egl-"}
        /\ ok'[p] => ok[p]
        /\ (pc'[p] = "gbm") = Multi
        /\ alive'[p] = alive[p] /\ held'[p] = held[p] /\ bound'[p] = bound[p]
    BY <1>4 DEF SearchDone, Goto, TypeOK
  <2>2. pc'[p] = "master" => ok'[p]
    BY <1>4 DEF SearchDone, Goto, TypeOK, Has, Ready
  <2> QED
    BY <1>1, <2>1, <2>2 DEF Has, FdInv, GbmInv, EglInv, Ready
<1>5. CASE GbmInit(p)
  <2>1. /\ pc[p] = "gbm" /\ pc'[p] = "egl" /\ ok'[p] = ok[p] /\ "fd" \in held[p]
        /\ alive'[p] = alive[p] \cup GbmObjects /\ held'[p] = held[p] \cup GbmObjects
        /\ bound'[p] = bound[p]
    BY <1>5 DEF GbmInit, Make, Goto, TypeOK
  <2>2. FdInv(p)' /\ GbmInv(p)'
    BY <1>1, <2>1 DEF Has, FdInv, GbmInv
  <2>3. EglInv(p)' /\ Ready(p)'
    BY <1>1, <2>1 DEF Has, FdInv, EglInv, Ready
  <2> QED BY <2>2, <2>3 DEF Has
<1>6. CASE GbmInitFails(p)
  <2>1. PICK made \in {{}, {"dev"}, GbmObjects} :
          /\ pc[p] = "gbm" /\ ~ok'[p] /\ bound'[p] = bound[p]
          /\ "fd" \in held[p] \/ made = {}
          /\ \/ /\ Multi /\ pc'[p] = "egl"
                /\ alive'[p] = alive[p] /\ held'[p] = held[p]
             \/ /\ ~Multi /\ pc'[p] = "egl-"
                /\ alive'[p] = alive[p] \cup made /\ held'[p] = held[p] \cup made
                /\ made # GbmObjects
    BY <1>6 DEF GbmInitFails, GbmUndone, Make, Goto, TypeOK
  <2>2. FdInv(p)'
    BY <1>1, <2>1 DEF Has, FdInv
  <2>3. GbmInv(p)'
    BY <1>1, <2>1 DEF Has, FdInv, GbmInv
  <2>4. EglInv(p)' /\ Ready(p)'
    BY <1>1, <2>1 DEF Has, GbmInv, EglInv, Ready
  <2> QED BY <2>2, <2>3, <2>4 DEF Has
<1>7. CASE Mastership(p) \/ Leave(p)
  <2>1. /\ \/ pc[p] = "master" /\ pc'[p] = "run"
           \/ pc[p] = "run" /\ pc'[p] = "egl-"
        /\ pc[p] = "master" => ~Multi
        /\ alive'[p] = alive[p] /\ held'[p] = held[p] /\ bound'[p] = bound[p]
        /\ ok'[p] = ok[p]
    BY <1>7 DEF Mastership, Leave, Goto, TypeOK, ScreenReady
  <2>2. FdInv(p)' /\ GbmInv(p)'
    BY <1>1, <2>1 DEF Has, FdInv, GbmInv
  <2>3. EglInv(p)' /\ Ready(p)'
    BY <1>1, <2>1 DEF Has, EglInv, Ready
  <2> QED BY <2>2, <2>3 DEF Has
<1> QED BY <1>2, <1>3, <1>4, <1>5, <1>6, <1>7

(* EGL.                                                                      *)
LEMMA EglHas ==
  ASSUME TypeOK, NEW p \in Procs, Has(p), ScreenReady, EglInit(p)
  PROVE  Has(p)'
<1> USE DEF Multi, NoFdYet, NoGbmYet, NoEglYet, Gone, NoFdAnyMore, NoGbmAnyMore,
            NoEglAnyMore, PastEgl, PastGbm, PastFd, GbmObjects, EglObjects, Bindable
<1>1. PICK made \in Makeable(p) :
        IF Multi THEN EglUp(p, made) \/ EglUndone(p, made) ELSE EglInitPair(p, made)
  BY DEF EglInit
<1>2. /\ made \subseteq EglObjects /\ made \in SUBSET EglObjects
      /\ "dev" \notin held[p] => made = {}
      /\ made # {} => "dpy" \in made
  BY DEF Makeable
<1>3. /\ program' = program /\ surfaceless' = surfaceless /\ pc[p] = "egl"
      /\ pc'[p] = (IF ~ok'[p] THEN "egl-" ELSE IF Multi THEN "run"
                   ELSE IF p = "screen" THEN "search" ELSE "master")
  BY DEF EglInit, Goto, TypeOK
<1>4. CASE Multi /\ EglUp(p, made)
  <2>1. /\ made = EglObjects /\ ok'[p] = ok[p] /\ bound'[p] = Bindable
        /\ alive'[p] = alive[p] \cup EglObjects /\ held'[p] = held[p] \cup EglObjects
    BY <1>2, <1>4 DEF EglUp, Swappable, Make, TypeOK
  <2>2. FdInv(p)' /\ GbmInv(p)'
    BY <1>3, <2>1 DEF Has, FdInv, GbmInv
  <2>3. EglInv(p)' /\ Ready(p)'
    BY <1>2, <1>3, <1>4, <2>1 DEF Has, GbmInv, EglInv, Ready
  <2> QED BY <2>2, <2>3 DEF Has
<1>5. CASE Multi /\ EglUndone(p, made)
  <2>1. PICK left \in SUBSET (made \cap Bindable) :
          /\ bound' = [bound EXCEPT ![p] = left]
          /\ alive' = [alive EXCEPT ![p] = Terminated(@ \cup made, left)]
          /\ left = {} \/ left = {"ctx"} \/ (~surfaceless /\ left = Bindable)
    BY <1>2, <1>5, UndoneLeaves, Zenon DEF Bindable, EglObjects
  <2>2. /\ alive'[p] = ((alive[p] \cup made) \ EglObjects) \cup left
        /\ bound'[p] = left /\ held'[p] = held[p] /\ ~ok'[p]
    BY <1>5, <2>1 DEF EglUndone, Terminated, TypeOK
  <2>3. FdInv(p)' /\ GbmInv(p)'
    BY <1>2, <1>3, <2>2 DEF Has, FdInv, GbmInv
  <2>4. EglInv(p)' /\ Ready(p)'
    BY <1>2, <1>3, <1>5, <2>1, <2>2 DEF Has, GbmInv, EglInv, Ready
  <2> QED BY <2>3, <2>4 DEF Has
<1>6. CASE ~Multi
  <2>1. /\ alive'[p] = alive[p] \cup made /\ held'[p] = held[p] \cup made
        /\ ok'[p] => "dpy" \in made \/ ~ok[p]
    BY <1>1, <1>6 DEF EglInitPair, Make, TypeOK
  <2>2. ok[p]
    BY <1>3, <1>6 DEF Has, Ready
  <2>3. \/ "dpy" \in made /\ ok'[p]
        \/ ~ok'[p] 
    BY <2>1, <2>2
  <2>4. FdInv(p)' /\ GbmInv(p)'
    BY <1>2, <1>3, <2>1 DEF Has, FdInv, GbmInv
  <2>5. EglInv(p)' /\ Ready(p)'
    BY <1>2, <1>3, <1>6, <2>1, <2>2, <2>3 DEF Has, FdInv, GbmInv, EglInv, Ready
  <2> QED BY <2>4, <2>5 DEF Has
<1> QED BY <1>1, <1>4, <1>5, <1>6

(* The process itself, taking down: what it releases exists.                 *)
LEMMA DownHas ==
  ASSUME TypeOK, NEW p \in Procs, Has(p), stale = {},
         EglDeinit(p) \/ DrmDeinit(p) \/ GbmDeinit(p) \/ End(p)
  PROVE  Has(p)' /\ stale' = {}
<1> USE DEF Multi, NoFdYet, NoGbmYet, NoEglYet, Gone, NoFdAnyMore, NoGbmAnyMore,
            NoEglAnyMore, PastEgl, PastGbm, PastFd, GbmObjects, EglObjects, Bindable,
            AfterEgl, AfterFd, AfterGbm
<1>1. program' = program /\ surfaceless' = surfaceless
  BY DEF EglDeinit, DrmDeinit, GbmDeinit, End
<1>2. CASE EglDeinit(p)
  <2>1. /\ pc[p] = "egl-" /\ pc'[p] = (IF Multi THEN "fd-" ELSE "gbm-") /\ stale' = stale
        /\ held'[p] = (IF Multi THEN held[p] \ EglObjects ELSE held[p])
    BY <1>2 DEF EglDeinit, Goto, TypeOK
  <2>2. \/ "dpy" \notin held[p] /\ alive'[p] = alive[p] /\ bound'[p] = bound[p]
        \/ \E left \in SUBSET Bindable :
             /\ alive'[p] = (alive[p] \ EglObjects) \cup left /\ bound'[p] = left
             /\ Multi /\ surfaceless => "win" \notin left
    <3>1. CASE "dpy" \notin held[p]
      BY <1>2, <3>1 DEF EglDeinit
    <3>2. CASE "dpy" \in held[p]
      <4> DEFINE left == IF Multi THEN Unbound(bound[p], held[p]) ELSE bound[p]
      <4>1. left \in SUBSET Bindable
        BY DEF TypeOK, Unbound
      <4>2. Multi /\ surfaceless => "win" \notin left
        BY DEF Unbound
      <4>3. alive'[p] = (alive[p] \ EglObjects) \cup left /\ bound'[p] = left
        BY <1>2, <3>2 DEF EglDeinit, Terminated, TypeOK
      <4> QED BY <4>1, <4>2, <4>3
    <3> QED BY <3>1, <3>2
  <2>3. FdInv(p)' /\ GbmInv(p)'
    BY <1>1, <2>1, <2>2 DEF Has, FdInv, GbmInv
  <2>4. EglInv(p)' /\ Ready(p)'
    BY <1>1, <2>1, <2>2 DEF Has, GbmInv, EglInv, Ready
  <2> QED BY <2>1, <2>3, <2>4 DEF Has
<1>3. CASE DrmDeinit(p)
  <2>1. /\ pc[p] = "fd-" /\ pc'[p] = (IF Multi THEN "gbm-" ELSE "exit")
        /\ alive'[p] = alive[p] \ (held[p] \cap {"fd"}) /\ bound'[p] = bound[p]
        /\ held'[p] = held[p] \/ held'[p] = held[p] \ {"fd"}
        /\ stale' = stale \cup ((held[p] \cap {"fd"}) \ alive[p])
    BY <1>3 DEF DrmDeinit, Release, Goto, TypeOK
  <2>2. FdInv(p)' /\ GbmInv(p)' /\ stale' = {}
    BY <1>1, <2>1 DEF Has, FdInv, GbmInv
  <2>3. EglInv(p)' /\ Ready(p)'
    BY <1>1, <2>1 DEF Has, EglInv, Ready
  <2> QED BY <2>2, <2>3 DEF Has
<1>4. CASE GbmDeinit(p)
  <2>1. /\ pc[p] = "gbm-" /\ pc'[p] = (IF Multi THEN "exit" ELSE "fd-")
        /\ alive'[p] = alive[p] \ (held[p] \cap GbmObjects) /\ bound'[p] = bound[p]
        /\ held'[p] = held[p] \ GbmObjects
        /\ stale' = stale \cup ((held[p] \cap GbmObjects) \ alive[p])
    BY <1>4 DEF GbmDeinit, Release, Goto, TypeOK
  <2>2. FdInv(p)' /\ GbmInv(p)' /\ stale' = {}
    BY <1>1, <2>1 DEF Has, FdInv, GbmInv
  <2>3. EglInv(p)' /\ Ready(p)'
    BY <1>1, <2>1 DEF Has, EglInv, Ready
  <2> QED BY <2>2, <2>3 DEF Has
<1>5. CASE End(p)
  <2>1. pc'[p] = "ended" /\ alive'[p] = {} /\ held'[p] = {} /\ stale' = stale
    BY <1>5 DEF End, Goto, TypeOK
  <2> QED BY <1>1, <2>1 DEF Has, FdInv, GbmInv, EglInv, Ready
<1> QED BY <1>2, <1>3, <1>4, <1>5

-----------------------------------------------------------------------------
(* The process that scans out.                                               *)

(* It draws only after its search has found something.                       *)
LEMMA ScreenStep ==
  ASSUME TypeOK, SearchInv, ScreenReady, NEW p \in Procs, Has(p),
         \/ Open(p) \/ OpenFails(p) \/ (p = "screen" /\ SearchDone) \/ GbmInit(p)
         \/ GbmInitFails(p) \/ EglInit(p) \/ Mastership(p) \/ Leave(p)
         \/ EglDeinit(p) \/ DrmDeinit(p) \/ GbmDeinit(p) \/ End(p)
  PROVE  ScreenReady'
<1> USE DEF Multi, Procs, AfterEgl, AfterFd, AfterGbm, NoFdYet, PastFd, PastEgl
<1>1. program' = program /\ sets' = sets
  BY DEF Open, OpenFails, SearchDone, GbmInit, GbmInitFails, EglInit, Mastership,
         Leave, EglDeinit, DrmDeinit, GbmDeinit, End, searchVars
<1>2. CASE EglInit(p)
  <2>1. PICK made \in Makeable(p) :
          IF Multi THEN EglUp(p, made) \/ EglUndone(p, made) ELSE EglInitPair(p, made)
    BY <1>2 DEF EglInit
  <2>2. Multi /\ ok'[p] => ok[p]
    BY <2>1 DEF EglUp, EglUndone, TypeOK
  <2>3. /\ pc[p] = "egl"
        /\ pc' = [pc EXCEPT ![p] = IF ~ok'[p] THEN "egl-" ELSE IF Multi THEN "run"
                     ELSE IF p = "screen" THEN "search" ELSE "master"]
    BY <1>2 DEF EglInit, Goto
  <2>4. p # "screen" => ok'["screen"] = ok["screen"]
    BY <2>1 DEF EglUp, EglUndone, EglInitPair, TypeOK
  <2> QED BY <1>1, <2>2, <2>3, <2>4 DEF TypeOK, ScreenReady
<1>3. CASE \/ Open(p) \/ OpenFails(p) \/ GbmInit(p) \/ GbmInitFails(p)
  BY <1>1, <1>3 DEF Open, OpenFails, GbmInit, GbmInitFails, Goto, TypeOK, ScreenReady
<1>4. CASE p = "screen" /\ SearchDone
  BY <1>1, <1>4 DEF SearchDone, Goto, TypeOK, ScreenReady
<1>5. CASE Mastership(p) \/ Leave(p)
  BY <1>1, <1>5 DEF Mastership, Leave, Goto, TypeOK, ScreenReady, Has, Ready
<1>6. CASE EglDeinit(p) \/ DrmDeinit(p) \/ GbmDeinit(p) \/ End(p)
  BY <1>1, <1>6
  DEF EglDeinit, DrmDeinit, GbmDeinit, End, Goto, TypeOK, ScreenReady
<1> QED BY <1>2, <1>3, <1>4, <1>5, <1>6

(* Who is master.                                                            *)
LEMMA MasterStep ==
  ASSUME TypeOK, ScreenReady, MasterInv, NEW p \in Procs,
         \/ Open(p) \/ OpenFails(p) \/ (p = "screen" /\ SearchDone) \/ GbmInit(p)
         \/ GbmInitFails(p) \/ EglInit(p) \/ Mastership(p) \/ Leave(p)
         \/ EglDeinit(p) \/ DrmDeinit(p) \/ GbmDeinit(p) \/ End(p)
  PROVE  MasterInv'
<1> USE DEF Procs, Nobody, MasterInv, RightMaster, Multi, PastFd, masterVars
<1>1. program' = program
  BY DEF Open, OpenFails, SearchDone, GbmInit, GbmInitFails, EglInit, Mastership,
         Leave, EglDeinit, DrmDeinit, GbmDeinit, End
<1>2. CASE Open(p)
  BY <1>1, <1>2 DEF Open, OnCard, Goto, TypeOK
<1>3. CASE \/ OpenFails(p) \/ (p = "screen" /\ SearchDone) \/ GbmInit(p)
           \/ GbmInitFails(p) \/ Leave(p)
  BY <1>1, <1>3
  DEF OpenFails, SearchDone, GbmInit, GbmInitFails, Leave, Goto, TypeOK
<1>4. CASE EglInit(p)
  <2>1. Multi /\ ok'["screen"] => ok["screen"]
    BY <1>4 DEF EglInit, EglUp, EglUndone, TypeOK
  <2> QED BY <1>1, <1>4, <2>1 DEF EglInit, Goto, TypeOK
<1>5. CASE Mastership(p)
  BY <1>1, <1>5 DEF Mastership, Asks, Granted, Goto, TypeOK, ScreenReady
<1>6. CASE EglDeinit(p) \/ DrmDeinit(p) \/ GbmDeinit(p) \/ End(p)
  BY <1>1, <1>6 DEF EglDeinit, DrmDeinit, GbmDeinit, End, AfterEgl, AfterFd, AfterGbm,
                    Released, Goto, TypeOK
<1> QED BY <1>2, <1>3, <1>4, <1>5, <1>6

(* A turn of the search, which only the screen takes before it is done.      *)
LEMMA SearchStep ==
  ASSUME IInv, Search \/ SearchRefused
  PROVE  IInv'
<1>1. /\ UNCHANGED <<program, surfaceless, procVars, master, opener, refused>>
      /\ pc["screen"] = "search"
  BY DEF Search, SearchRefused, masterVars
<1>2. SearchInv' /\ ModeSetTypeOK'
  <2>1. CASE Search /\ Multi
    BY <1>1, <2>1, ValidSearch, ValidTyped DEF Search, IInv, TypeOK, Multi
  <2>2. CASE Search /\ ~Multi
    <3>1. FindModeSetTurn /\ sets = 0
      BY <2>2 DEF Search, FindModeSetTurn, IInv, SearchInv
    <3> QED
      BY <1>1, <2>2, <3>1, FindSearch, SearchTyped DEF IInv, TypeOK, Multi
  <2>3. CASE SearchRefused
    <3>1. NoResources
      BY <2>3 DEF SearchRefused
    <3>2. ModeSetTypeOK'
      BY <3>1, ModeSetAssumption
      DEF NoResources, IInv, TypeOK, ModeSetTypeOK, hwVars, Broken
    <3> QED BY <1>1, <3>1, <3>2, RefusedSearch DEF IInv
  <2> QED BY <2>1, <2>2, <2>3
<1>3. TypeOK' /\ stale' = {}
  BY <1>1, <1>2 DEF IInv, TypeOK, procVars
<1>4. ProcInv'
  <2>1. \A q \in Procs : Same(q)
    BY <1>1 DEF Same, procVars
  <2> QED BY <2>1, SameHas DEF IInv, ProcInv, Has
<1>5. ScreenReady' /\ MasterInv'
  BY <1>1 DEF IInv, ScreenReady, MasterInv, RightMaster, Multi, procVars, PastFd
<1> QED BY <1>2, <1>3, <1>4, <1>5 DEF IInv

(* Every other step.                                                         *)
LEMMA ProcStep ==
  ASSUME IInv, NEW p \in Procs,
         \/ Open(p) \/ OpenFails(p) \/ (p = "screen" /\ SearchDone) \/ GbmInit(p)
         \/ GbmInitFails(p) \/ EglInit(p) \/ Mastership(p) \/ Leave(p)
         \/ EglDeinit(p) \/ DrmDeinit(p) \/ GbmDeinit(p) \/ End(p)
  PROVE  IInv'
<1> USE DEF IInv
<1>1. Has(p)
  BY DEF ProcInv, Has
<1>2. TypeOK'
  BY StepTyped
<1>3. SearchInv'
  <2>1. program' = program /\ UNCHANGED <<hwVars, searchVars>>
    BY DEF Open, OpenFails, SearchDone, GbmInit, GbmInitFails, EglInit, Mastership,
           Leave, EglDeinit, DrmDeinit, GbmDeinit, End
  <2> QED BY <2>1, SearchKept
<1>4. Has(p)' /\ stale' = {}
  <2>1. CASE EglDeinit(p) \/ DrmDeinit(p) \/ GbmDeinit(p) \/ End(p)
    BY <1>1, <2>1, DownHas
  <2>2. CASE EglInit(p)
    BY <1>1, <2>2, EglHas DEF EglInit
  <2>3. CASE \/ Open(p) \/ OpenFails(p) \/ (p = "screen" /\ SearchDone) \/ GbmInit(p)
             \/ GbmInitFails(p) \/ Mastership(p) \/ Leave(p)
    <3>1. stale' = stale
      BY <2>3 DEF Open, OpenFails, SearchDone, GbmInit, GbmInitFails, Mastership, Leave
    <3> QED BY <1>1, <2>3, <3>1, BuildHas
  <2> QED BY <2>1, <2>2, <2>3
<1>5. ProcInv'
  <2>1. \A q \in Procs : q # p => Has(q)'
    <3> SUFFICES ASSUME NEW q \in Procs, q # p PROVE Has(q)'
      OBVIOUS
    <3>1. Same(q)
      BY OthersSame
    <3> QED BY <3>1, SameHas DEF ProcInv, Has
  <2> QED BY <1>4, <2>1 DEF ProcInv, Has
<1>6. ScreenReady' /\ MasterInv'
  BY <1>1, ScreenStep, MasterStep
<1> QED BY <1>2, <1>3, <1>4, <1>5, <1>6

-----------------------------------------------------------------------------
(* The theorems.                                                             *)

(* The invariant holds when the programs start.                              *)
LEMMA InitIInv == Init => IInv
<1> SUFFICES ASSUME Init PROVE IInv
  OBVIOUS
<1>1. TypeOK /\ SearchInv
  BY InitTyped, InitSearch
<1>2. ProcInv
  BY DEF Init, ProcInv, FdInv, GbmInv, EglInv, Ready, NoFdYet, NoGbmYet, NoEglYet, Gone,
         NoFdAnyMore, NoGbmAnyMore, NoEglAnyMore, PastEgl, PastGbm, PastFd
<1>3. ScreenReady /\ MasterInv
  BY DEF Init, ScreenReady, MasterInv, RightMaster, PastFd, Procs, Nobody
<1> QED BY <1>1, <1>2, <1>3 DEF IInv, Init

(* Every step keeps it.                                                      *)
LEMMA NextIInv == IInv /\ [Next]_vars => IInv'
<1> SUFFICES ASSUME IInv, [Next]_vars PROVE IInv'
  OBVIOUS
<1>1. CASE \E p \in Procs : Step(p) \/ Leave(p) \/ End(p)
  <2>1. PICK p \in Procs : Step(p) \/ Leave(p) \/ End(p)
    BY <1>1
  <2>2. CASE Search
    BY <2>2, SearchStep
  <2>3. CASE ~Search
    BY <2>1, <2>3, ProcStep DEF Step
  <2> QED BY <2>2, <2>3
<1>2. CASE SearchRefused
  BY <1>2, SearchStep
<1>3. CASE UNCHANGED vars
  <2>1. UNCHANGED <<program, surfaceless, hwVars, searchVars, master, opener, refused>>
        /\ UNCHANGED procVars
    BY <1>3 DEF vars, masterVars
  <2>2. TypeOK' /\ stale' = {}
    BY <2>1 DEF IInv, TypeOK, ModeSetTypeOK, hwVars, searchVars, procVars
  <2>3. SearchInv'
    BY <2>1, SearchKept DEF IInv
  <2>4. ProcInv'
    <3>1. \A q \in Procs : Same(q)
      BY <2>1 DEF Same, procVars
    <3> QED BY <3>1, SameHas DEF IInv, ProcInv, Has
  <2>5. ScreenReady' /\ MasterInv'
    BY <2>1 DEF IInv, ScreenReady, MasterInv, RightMaster, Multi, PastFd, procVars,
                searchVars
  <2> QED BY <2>2, <2>3, <2>4, <2>5 DEF IInv
<1> QED BY <1>1, <1>2, <1>3 DEF Next, Ended

(* The inductive invariant of both programs.                                 *)
THEOREM Invariance == Spec => []IInv
<1> QED BY InitIInv, NextIInv, PTL DEF Spec

(* The variables keep their types.                                           *)
THEOREM TypeCorrect == Spec => []TypeOK
<1>1. IInv => TypeOK
  BY DEF IInv
<1> QED BY <1>1, Invariance, PTL

(* On any card ValidModeSet ends at the first connector that is on the       *)
(* screen, FindModeSet at the first that is connected.                       *)
THEOREM SearchFindsHolds == Spec => []SearchFinds
<1>1. IInv => SearchFinds
  BY DEF IInv, SearchInv, SearchFinds
<1> QED BY <1>1, Invariance, PTL

(* A process that draws has all it needs, whatever may fail.                 *)
THEOREM ReadyToRunHolds == Spec => []ReadyToRun
<1>1. IInv => ReadyToRun
  <2> SUFFICES ASSUME IInv, NEW p \in Procs, pc[p] = "run"
               PROVE  /\ ok[p] /\ {"fd", "dpy"} \cup GbmObjects \subseteq alive[p] \cap held[p]
                      /\ Multi => EglObjects \subseteq alive[p] /\ bound[p] = Bindable
                      /\ p = "screen" => sets > 0 /\ (~Multi => conn # Invalid)
    BY DEF ReadyToRun
  <2>1. FdInv(p) /\ GbmInv(p) /\ Ready(p) /\ ScreenReady
    BY DEF IInv, ProcInv
  <2>2. ok[p] /\ "fd" \in alive[p] /\ "surf" \in alive[p] /\ "dpy" \in alive[p] \cap held[p]
    BY <2>1 DEF Ready, PastEgl, PastGbm, PastFd
  <2>3. "fd" \in held[p] /\ GbmObjects \subseteq alive[p] \cap held[p]
    BY <2>1, <2>2 DEF FdInv, GbmInv, NoFdAnyMore, Gone, GbmObjects
  <2>4. p = "screen" => sets > 0 /\ (~Multi => conn # Invalid)
    <3>1. p = "screen" => sets > 0
      BY <2>1, <2>2 DEF ScreenReady
    <3> QED BY <3>1 DEF IInv, SearchInv
  <2> QED BY <2>1, <2>2, <2>3, <2>4 DEF Ready
<1> QED BY <1>1, Invariance, PTL

(* Nothing goes before what stands on it.                                    *)
THEOREM LayersStandHolds == Spec => []LayersStand
<1>1. IInv => LayersStand
  BY DEF IInv, ProcInv, GbmInv, EglInv, LayersStand
<1> QED BY <1>1, Invariance, PTL

(* Whatever failed, a process that exits has released the fd and the gbm     *)
(* objects, each once.                                                       *)
THEOREM NothingLeftHolds == Spec => []NothingLeft
<1>1. IInv => NothingLeft
  <2> SUFFICES ASSUME IInv, NEW p \in Procs, pc[p] = "exit" PROVE alive[p] \subseteq Bindable
    BY DEF IInv, NothingLeft
  <2>1. alive[p] \subseteq Objects /\ FdInv(p) /\ GbmInv(p) /\ EglInv(p)
    BY DEF IInv, TypeOK, ProcInv
  <2>2. "fd" \notin alive[p] /\ "dev" \notin alive[p] /\ "surf" \notin alive[p]
        /\ "dpy" \notin alive[p]
    BY <2>1 DEF FdInv, GbmInv, EglInv, NoFdAnyMore, NoGbmAnyMore, NoEglAnyMore, Gone
  <2> QED BY <2>1, <2>2 DEF Objects, GbmObjects, EglObjects
<1> QED BY <1>1, Invariance, PTL

(* The mastership goes where it should.                                      *)
THEOREM RightMasterHolds == Spec => []RightMaster
<1>1. IInv => RightMaster
  BY DEF IInv, MasterInv
<1> QED BY <1>1, Invariance, PTL

-----------------------------------------------------------------------------
(* What the process that scans out runs on.  It does not run before its      *)
(* search is over.                                                           *)
AfterSearch == IF Multi THEN {"gbm", "egl", "run"} ELSE {"master", "run"}

SearchOver ==
  /\ turn = 0 => sets = 0
  /\ pc["screen"] \in AfterSearch /\ ok["screen"] => ~Searching

(* A step that is not of the search.                                         *)
LEMMA OtherStepOver ==
  ASSUME IInv, SearchOver, NEW p \in Procs,
         \/ Open(p) \/ OpenFails(p) \/ GbmInit(p) \/ GbmInitFails(p) \/ EglInit(p)
         \/ Mastership(p) \/ EglDeinit(p) \/ DrmDeinit(p) \/ GbmDeinit(p)
         \/ Leave(p) \/ End(p)
  PROVE  SearchOver'
<1>1. UNCHANGED <<searchVars, program>>
  BY DEF Open, OpenFails, GbmInit, GbmInitFails, EglInit, Mastership, EglDeinit,
      DrmDeinit, GbmDeinit, Leave, End
<1>2. CASE p = "drawer"
  <2>1. (\E l : pc' = [pc EXCEPT !["drawer"] = l])
        /\ (UNCHANGED ok \/ \E v : ok' = [ok EXCEPT !["drawer"] = v])
    BY <1>2 DEF Open, OpenFails, GbmInit, GbmInitFails, EglInit, EglUp, EglUndone,
         EglInitPair, Mastership, EglDeinit, DrmDeinit, GbmDeinit, Leave, End, Goto
  <2>2. pc'["screen"] = pc["screen"] /\ ok'["screen"] = ok["screen"]
    BY <2>1 DEF IInv, TypeOK, Procs
  <2> QED BY <1>1, <2>2 DEF SearchOver, AfterSearch, Multi, Searching, searchVars
<1>3. CASE p = "screen"
  <2>0. "screen" \in Procs
    BY DEF Procs
  <2>1. ASSUME pc'["screen"] \in AfterSearch', ok'["screen"]
        PROVE  pc["screen"] \in AfterSearch /\ ok["screen"]
    <3>1. CASE Open(p)
      <4>1. pc'["screen"] = IF Multi THEN "search" ELSE "gbm"
        BY <1>3, <2>0, <3>1 DEF Open, Goto, IInv, TypeOK
      <4> QED BY <1>1, <2>1, <4>1 DEF AfterSearch, Multi
    <3>2. CASE OpenFails(p) \/ GbmInitFails(p)
      <4>1. ok' = [ok EXCEPT !["screen"] = FALSE]
        BY <1>3, <3>2 DEF OpenFails, GbmInitFails
      <4> QED BY <2>0, <2>1, <4>1 DEF IInv, TypeOK
    <3>3. CASE GbmInit(p)
      <4>1. pc["screen"] = "gbm" /\ pc'["screen"] = "egl" /\ UNCHANGED ok
        BY <1>3, <2>0, <3>3 DEF GbmInit, Goto, IInv, TypeOK
      <4> QED BY <1>1, <2>1, <4>1 DEF AfterSearch, Multi
    <3>4. CASE EglInit(p)
      <4>1. /\ pc["screen"] = "egl"
            /\ pc'["screen"] = IF ~ok'["screen"] THEN "egl-"
                               ELSE IF Multi THEN "run" ELSE "search"
        BY <1>3, <2>0, <3>4 DEF EglInit, Goto, IInv, TypeOK
      <4>2. UNCHANGED ok \/ ok' = [ok EXCEPT !["screen"] = FALSE]
        BY <1>3, <3>4 DEF EglInit, EglUp, EglUndone, EglInitPair
      <4>3. ok["screen"]
        BY <2>0, <2>1, <4>2 DEF IInv, TypeOK
      <4> QED BY <1>1, <2>1, <4>1, <4>3 DEF AfterSearch, Multi
    <3>5. CASE Mastership(p)
      <4>1. pc["screen"] = "master" /\ UNCHANGED ok
        BY <1>3, <3>5 DEF Mastership
      <4>2. ~Multi
        BY <2>0, <4>1 DEF IInv, ScreenReady
      <4> QED BY <2>1, <4>1, <4>2 DEF AfterSearch
    <3>6. CASE \/ EglDeinit(p) \/ DrmDeinit(p) \/ GbmDeinit(p) \/ Leave(p) \/ End(p)
      <4>1. pc'["screen"] \in {"egl-", "fd-", "gbm-", "exit", "ended"}
        BY <1>3, <2>0, <3>6 DEF EglDeinit, DrmDeinit, GbmDeinit, Leave, End, Goto,
             AfterEgl, AfterFd, AfterGbm, IInv, TypeOK
      <4> QED BY <2>1, <4>1 DEF AfterSearch
    <3> QED BY <3>1, <3>2, <3>3, <3>4, <3>5, <3>6
  <2> QED BY <1>1, <2>1 DEF SearchOver, Searching, searchVars
<1> QED BY <1>2, <1>3 DEF Procs

(* A step of the search, or none.                                            *)
LEMMA SearchStepOver ==
  ASSUME IInv, SearchOver, Search \/ SearchRefused \/ SearchDone \/ UNCHANGED vars
  PROVE  SearchOver'
<1>1. CASE UNCHANGED vars
  BY <1>1 DEF vars, procVars, searchVars, SearchOver, AfterSearch, Multi, Searching
<1>2. CASE Search
  <2>1. pc'["screen"] = "search" /\ (ValidModeSetTurn \/ FindModeSetTurn)
    BY <1>2 DEF Search, procVars
  <2>2. turn' # 0
    BY <2>1, ModeSetAssumption
    DEF ValidModeSetTurn, FindModeSetTurn, Searching, Connectors, NextTurn, AfterFind,
        Broken
  <2> QED BY <2>1, <2>2 DEF SearchOver, AfterSearch
<1>3. CASE SearchRefused
  <2>1. pc'["screen"] = "search" /\ sets' = 0
    BY <1>3 DEF SearchRefused, NoResources, procVars
  <2> QED BY <2>1 DEF SearchOver, AfterSearch
<1>4. CASE SearchDone
  BY <1>4 DEF SearchDone, SearchOver, Searching, searchVars
<1> QED BY <1>1, <1>2, <1>3, <1>4

LEMMA NextOver == IInv /\ SearchOver /\ [Next]_vars => SearchOver'
BY OtherStepOver, SearchStepOver DEF Next, Step, Ended

(* A compositor that runs has a crtc exactly if some connector is on the     *)
(* screen, wherever that is on the card.  The parent of the pair runs on the *)
(* first connector that is connected, and has no crtc when that one has      *)
(* none, whatever the others have.                                           *)
THEOREM RunsOnScreen ==
  Spec => [](pc["screen"] = "run" =>
               IF Multi THEN crtc = Invalid <=> \A c \in Connectors : ~Complete(c)
               ELSE /\ crtc = Invalid <=> ~Complete(conn)
                    /\ \A c \in Connectors : Usable(c) => conn <= c)
<1> DEFINE Runs == pc["screen"] = "run" =>
             IF Multi THEN crtc = Invalid <=> \A c \in Connectors : ~Complete(c)
             ELSE /\ crtc = Invalid <=> ~Complete(conn)
                  /\ \A c \in Connectors : Usable(c) => conn <= c
<1>1. Init => SearchOver
  BY DEF Init, ModeSetInit, SearchOver, AfterSearch, Procs
<1>2. IInv /\ SearchOver => Runs
  <2> SUFFICES ASSUME IInv, SearchOver, pc["screen"] = "run"
               PROVE  IF Multi THEN crtc = Invalid <=> \A c \in Connectors : ~Complete(c)
                      ELSE /\ crtc = Invalid <=> ~Complete(conn)
                           /\ \A c \in Connectors : Usable(c) => conn <= c
    OBVIOUS
  <2>1. ok["screen"] /\ sets > 0
    BY DEF IInv, ScreenReady
  <2>2. ~Searching /\ turn # 0
    BY <2>1 DEF SearchOver, AfterSearch
  <2>3. turn = Broken
    BY <2>2, ModeSetAssumption
    DEF IInv, TypeOK, ModeSetTypeOK, Searching, Connectors, Broken
  <2>4. CASE Multi
    <3>1. crtc # Invalid => Complete(conn)
      BY <2>3, <2>4 DEF IInv, SearchInv, FirstOnScreen
    <3>2. Complete(conn) => conn \in Connectors
      BY DEF Complete, Usable, IInv, TypeOK, ModeSetTypeOK
    <3>3. crtc = Invalid => \A c \in Connectors : ~Complete(c)
      BY <2>3, <2>4 DEF IInv, SearchInv, FirstOnScreen
    <3> QED BY <2>4, <3>1, <3>2, <3>3
  <2>5. CASE ~Multi
    <3>1. Usable(conn) /\ \A c \in Connectors : Usable(c) => conn <= c
      BY <2>1, <2>3, <2>5 DEF IInv, SearchInv, FirstConnected
    <3>2. conn # Invalid
      BY <3>1, ModeSetAssumption
      DEF Usable, IInv, TypeOK, ModeSetTypeOK, Connectors, Invalid
    <3>3. crtc = crtcOf[encOf[conn]]
      BY <3>2 DEF IInv, SearchInv, OnePath
    <3> QED BY <2>5, <3>1, <3>3 DEF Complete
  <2> QED BY <2>4, <2>5
<1> QED BY <1>1, <1>2, NextOver, Invariance, PTL DEF Spec
=============================================================================
