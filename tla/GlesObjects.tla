----------------------------- MODULE GlesObjects -----------------------------
(* What RenderEGLImage makes and destroys for every image it draws: a        *)
(* texture, two shaders and a program, while GL calls fail.  In              *)
(* drm-prime-multi the compositor draws the images of its slots, a client    *)
(* its only one; in drm-prime-tile the parent draws one.                     *)
(* Programs are named by the number of the setup that makes them, a shader   *)
(* by that number and its kind.                                              *)
EXTENDS Integers, FiniteSets

CONSTANTS
  MaxSetups,  \* bound: programs that are set up
  MaxErrors   \* bound: GL and EGL calls that fail

ASSUME GlesAssumption == MaxSetups \in Nat /\ MaxErrors \in Nat

Users == {"compositor", "client", "tile"}
LastSlot == 1
Slots == 0 .. LastSlot
Setups == 1 .. MaxSetups
NoProg == 0
Kinds == {"vertex", "fragment"}
Shaders == Setups \X Kinds
Made(p, kinds) == {p} \X kinds

VARIABLES
  user,      \* who draws
  pc,        \* which step of RenderEGLImage is next
  images,    \* the slots that have an image
  index,     \* the slot that is drawn
  drawn,     \* a slot of this frame has been drawn
  gl,        \* the programs and shaders of the context
  setup,     \* the number of the last setup
  loaded,    \* the kinds of shaders LoadShader returned
  linkable,  \* both compiled
  prog,      \* tile: _prog of ShadersToProgram
  pending,   \* an error glGetError has not returned yet
  tex,       \* multi: _tex[0], of which RenderEGLImage draws every slot, names one
  lost,      \* the number of textures nobody has the name of
  errors,    \* history: the calls that failed
  since      \* history: the images begun since the last of them, at most 2

frameVars == <<user, images, index, drawn>>
setupVars == <<setup, loaded, linkable, prog>>
texVars == <<tex, lost>>
errVars == <<errors, since>>
vars == <<frameVars, pc, gl, setupVars, pending, texVars, errVars>>

Multi == user # "tile"
Goto(l) == pc' = l
Failing(calls) ==
  /\ errors' = errors + Cardinality(calls) /\ errors' \in 0 .. MaxErrors
  /\ since' = (IF calls = {} THEN since ELSE 0)
Works == UNCHANGED errVars
Fails == Failing({"call"})

-----------------------------------------------------------------------------
(* GL: what is marked for deletion is deleted when nothing uses it any more. *)
Reap(g) ==
  LET gone == g.doomed \ {g.current}
      kept == {s \in g.attached : s[1] \notin gone}
  IN [current |-> g.current, progs |-> g.progs \ gone, doomed |-> g.doomed \ gone,
      attached |-> kept, shaders |-> g.shaders \ (g.flagged \ kept),
      flagged |-> g.flagged \cap kept]

UseProgram(g, p) == Reap([g EXCEPT !.current = p])
DeleteProgram(g, p) == Reap([g EXCEPT !.doomed = @ \cup ({p} \cap g.progs)])
DeleteShaders(g, ss) == Reap([g EXCEPT !.flagged = @ \cup (ss \cap g.shaders)])
DetachShaders(g, ss) == Reap([g EXCEPT !.attached = @ \ ss])
Created(g, p, kinds) ==
  [g EXCEPT !.progs = @ \cup {p}, !.attached = @ \cup Made(p, kinds)]

Init ==
  /\ user \in Users /\ pc = "frame"
  /\ images = {} /\ index = 0 /\ drawn = FALSE
  /\ gl = [current |-> NoProg, progs |-> {}, doomed |-> {}, attached |-> {},
           shaders |-> {}, flagged |-> {}]
  /\ setup = 0 /\ loaded = {} /\ linkable = FALSE /\ prog = NoProg /\ pending = FALSE
  /\ tex = FALSE /\ lost = 0 /\ errors = 0 /\ since = 2

-----------------------------------------------------------------------------
(* A frame and its slots; the compositor has got an image in one of them.    *)
Begun(slot, having) == IF slot \in having /\ since < 2 THEN since + 1 ELSE since

Frame ==
  /\ pc = "frame" /\ setup + LastSlot < MaxSetups
  /\ \E s \in IF user = "compositor" THEN Slots ELSE {0} : images' = images \cup {s}
  /\ index' = 0 /\ drawn' = FALSE /\ since' = Begun(0, images')
  /\ Goto("texture")
  /\ UNCHANGED <<user, errors, gl, setupVars, pending, texVars>>

(* Render goes on to the next slot once one has been drawn, and presents the *)
(* frame; one of which nothing has been drawn ends multi and is left out by  *)
(* tile.                                                                     *)
OneSlotMore == index <= LastSlot  \* mutant
MoreSlots == index < LastSlot

NextSlot ==
  /\ pc \in {"drawn", "failed"} /\ user = "compositor" /\ drawn /\ MoreSlots
  /\ index' = index + 1 /\ since' = Begun(index + 1, images)
  /\ Goto("texture")
  /\ UNCHANGED <<user, images, drawn, errors, gl, setupVars, pending, texVars>>

Present ==
  /\ pc \in {"drawn", "failed"}
  /\ drawn /\ user = "compositor" => ~MoreSlots
  /\ Goto(IF drawn \/ ~Multi THEN "frame" ELSE "exit")
  /\ UNCHANGED <<frameVars, gl, setupVars, pending, texVars, errVars>>

(* A slot without an image is not drawn.                                     *)
NoImage ==
  /\ pc = "texture" /\ index \notin images
  /\ Goto("failed")
  /\ UNCHANGED <<frameVars, gl, setupVars, pending, texVars, errVars>>

(* multi regenerates its texture and forgets the name whether or not it has  *)
(* deleted it.  From there up to glClear in RenderColor a failing call ends  *)
(* the drawing of the image.                                                 *)
Texture ==
  /\ pc = "texture" /\ Multi /\ index \in images
  /\ \/ Works /\ Goto("delete") /\ tex' = TRUE /\ UNCHANGED lost
     \/ /\ Fails /\ Goto("failed")
        /\ \/ UNCHANGED texVars
           \/ tex' = TRUE /\ UNCHANGED lost
           \/ tex' = FALSE /\ lost' \in {lost, IF tex THEN lost + 1 ELSE lost}
  /\ UNCHANGED <<frameVars, gl, setupVars, pending>>

(* tile makes a texture and keeps no name of it.                             *)
TileTexture ==
  /\ pc = "texture" /\ ~Multi
  /\ \/ Works /\ Goto("load") /\ lost' = lost + 1
     \/ Fails /\ Goto("failed") /\ lost' \in {lost, lost + 1}
  /\ UNCHANGED <<frameVars, gl, setupVars, pending, tex>>

(* DeleteCurrentProgram of multi.  After an error the loop over the shaders  *)
(* goes on but does not ask for errors any more, so that a second one is     *)
(* left.  A shader that was marked goes when it is detached, and cannot be   *)
(* deleted then.                                                             *)
Current == {s \in gl.attached : s[1] = gl.current}
OnlyDetached(detached, deleted) == DetachShaders(gl, detached)  \* mutant
Dismantled(detached, deleted) == DeleteShaders(DetachShaders(gl, detached), deleted)
UnboundToo(g) == DeleteProgram(UseProgram(g, NoProg), g.current)  \* mutant
Deleted(g) == DeleteProgram(g, g.current)

Dismantle(detached, deleted) ==
  LET undetached == (Current \ detached) \X {"glDetachShader"}
      undeleted  == (Current \ deleted) \X {"glDeleteShader"}
      gone       == (detached \cap gl.flagged) \X {"glDeleteShader"}
      wrong      == undetached \cup undeleted
      left       == Dismantled(detached, deleted)
  IN /\ gone \subseteq undeleted
     /\ \/ /\ wrong = {} /\ Works /\ Goto("load")
           /\ gl' = Deleted(left)
        \/ /\ wrong = {} /\ Fails /\ Goto("error")
           /\ gl' = left
        \/ /\ wrong # {} /\ Failing(wrong \ gone) /\ Goto("error")
           /\ gl' = left
     /\ pending' = (Cardinality(wrong) > 1)

DeleteCurrentProgram ==
  /\ pc = "delete"
  /\ \/ gl.current = NoProg /\ Works /\ Goto("load") /\ UNCHANGED <<gl, pending>>
     \/ Fails /\ Goto("error") /\ UNCHANGED <<gl, pending>>
     \/ /\ gl.current # NoProg /\ Current = {} /\ Works /\ Goto("error")
        /\ UNCHANGED <<gl, pending>>
     \/ /\ gl.current # NoProg /\ Current # {}
        /\ \E detached, deleted \in SUBSET Current : Dismantle(detached, deleted)
  /\ UNCHANGED <<frameVars, setupVars, texVars>>

(* LoadShader for both kinds: one that is not made is 0, one that does not   *)
(* compile is there all the same.                                            *)
LoadShaders ==
  /\ pc = "load"
  /\ setup' = setup + 1
  /\ \E made \in SUBSET Kinds : \E compiled \in SUBSET made :
       /\ Failing(Kinds \ compiled)
       /\ gl' = [gl EXCEPT !.shaders = @ \cup Made(setup + 1, made)]
       /\ loaded' = made /\ linkable' = (compiled = Kinds)
  /\ Goto("link")
  /\ UNCHANGED <<frameVars, prog, pending, texVars>>

(* ShadersToProgram of multi: what it has made when a call fails stays.  A   *)
(* link that fails shows when the program is used.                           *)
Attached == {{}, {"vertex"}, Kinds}

ShadersToProgram ==
  /\ pc = "link" /\ Multi
  /\ \/ Fails /\ Goto("error") /\ UNCHANGED gl
     \/ \E kinds \in Attached :
          LET made == Created(gl, setup, kinds) IN
          /\ kinds \subseteq loaded
          /\ \/ /\ kinds = Kinds /\ linkable /\ Works /\ Goto("blend")
                /\ gl' = UseProgram(made, setup)
             \/ /\ IF linkable THEN Fails ELSE Works
                /\ Goto("error")
                /\ gl' = made
  /\ UNCHANGED <<frameVars, setupVars, pending, texVars>>

Blend ==
  /\ pc = "blend"
  /\ \/ Works /\ Goto("polygon")
     \/ Fails /\ Goto("error")
  /\ UNCHANGED <<frameVars, gl, setupVars, pending, texVars>>

(* ShadersToProgram of tile marks the current program first, and undoes what *)
(* it has made itself; a program it has no number of is 0, and using that    *)
(* unbinds the current one.                                                  *)
TileProgram ==
  /\ pc = "link" /\ ~Multi
  /\ \/ /\ Fails /\ Goto("undo") /\ prog' = NoProg
        /\ gl' \in {gl, Deleted(gl)}
     \/ \E kinds \in Attached :
          /\ kinds \subseteq loaded
          /\ gl' = Created(Deleted(gl), setup, kinds)
          /\ prog' = setup
          /\ \/ kinds = Kinds /\ Works /\ Goto("use")
             \/ (IF loaded = Kinds THEN Fails ELSE Works) /\ Goto("undo")
  /\ UNCHANGED <<frameVars, setup, loaded, linkable, pending, texVars>>

TileUndo ==
  /\ pc = "undo"
  /\ \/ Works /\ Goto("use") /\ gl' = DeleteProgram(gl, prog)
     \/ Fails /\ Goto("drop") /\ UNCHANGED gl
  /\ UNCHANGED <<frameVars, setupVars, pending, texVars>>

TileUse ==
  /\ pc = "use"
  /\ \/ /\ prog = NoProg \/ (prog \in gl.progs /\ linkable)
        /\ Works /\ Goto("flag")
        /\ gl' = UseProgram(gl, prog)
     \/ prog # NoProg /\ ~(prog \in gl.progs /\ linkable)
        /\ Works /\ Goto("error") /\ UNCHANGED gl
     \/ Fails /\ Goto("error") /\ UNCHANGED gl
  /\ UNCHANGED <<frameVars, setupVars, pending, texVars>>

(* The shaders: the vertex shader is deleted only if the undoing failed.     *)
TileDeleteShader(l, kind, next) ==
  /\ pc = l
  /\ \/ Works /\ Goto(next) /\ gl' = DeleteShaders(gl, Made(setup, {kind}))
     \/ Fails /\ Goto("error") /\ UNCHANGED gl
  /\ UNCHANGED <<frameVars, setupVars, pending, texVars>>

TileShaders ==
  \/ TileDeleteShader("drop", "vertex", "flag")
  \/ TileDeleteShader("flag", "fragment", "polygon")

(* Colour on error: setting it successfully makes the setup a success.       *)
NotRecovered == "failed"  \* mutant
Recovered == "polygon"

ColourOnError ==
  /\ pc = "error" /\ pending' = FALSE
  /\ \/ Works /\ Goto(IF pending THEN "failed" ELSE Recovered)
     \/ Fails /\ Goto("failed")
  /\ UNCHANGED <<frameVars, gl, setupVars, texVars>>

(* The attribute of program 0 has no location.                               *)
RenderPolygon ==
  /\ pc = "polygon"
  /\ \/ gl.current # NoProg /\ Works /\ drawn' = TRUE /\ Goto("drawn")
     \/ gl.current = NoProg /\ Works /\ UNCHANGED drawn /\ Goto("failed")
     \/ Fails /\ UNCHANGED drawn /\ Goto("failed")
  /\ UNCHANGED <<user, images, index, gl, setupVars, pending, texVars>>

(* Nobody asks for another frame.                                            *)
Ended == pc \in {"frame", "exit"} /\ UNCHANGED vars

Next ==
  \/ Frame \/ NextSlot \/ Present \/ NoImage \/ Texture \/ TileTexture
  \/ DeleteCurrentProgram \/ LoadShaders \/ ShadersToProgram \/ Blend
  \/ TileProgram \/ TileUndo \/ TileUse \/ TileShaders
  \/ ColourOnError \/ RenderPolygon \/ Ended

Spec == Init /\ [][Next]_vars

-----------------------------------------------------------------------------
Contexts ==
  [current : Setups \cup {NoProg}, progs : SUBSET Setups, doomed : SUBSET Setups,
   attached : SUBSET Shaders, shaders : SUBSET Shaders, flagged : SUBSET Shaders]

TypeOK ==
  /\ user \in Users
  /\ pc \in {"frame", "texture", "delete", "load", "link", "blend", "undo", "use",
             "drop", "flag", "error", "polygon", "drawn", "failed", "exit"}
  /\ images \subseteq Slots /\ index \in Slots /\ drawn \in BOOLEAN
  /\ gl \in Contexts
  /\ setup \in 0 .. MaxSetups /\ loaded \subseteq Kinds /\ linkable \in BOOLEAN
  /\ prog \in 0 .. MaxSetups /\ pending \in BOOLEAN
  /\ tex \in BOOLEAN /\ lost \in Nat
  /\ errors \in 0 .. MaxErrors /\ since \in 0 .. 2

(* Whatever failed before, an image is drawn if no call fails while it is    *)
(* drawn: no half-deleted program or shader is in the way for ever.  Only the*)
(* image after one whose shaders could both not be detached fails once more. *)
Recovers ==
  [][pc # "failed" /\ pc' = "failed" /\ index \in images =>
       since' = 0 \/ (since' = 1 /\ pending)]_vars

(* Between frames the objects that belong to no current program or texture   *)
(* are those of calls that failed; the vertex shaders and textures of tile   *)
(* are left out, which pile up.                                              *)
LeaksAreFailures ==
  pc = "frame" =>
    /\ Cardinality(gl.progs \ {gl.current}) <= errors
    /\ Multi => Cardinality(gl.shaders) <= 2 * (errors + 1) /\ lost <= errors
    /\ ~Multi => Cardinality({s \in gl.shaders : s[2] = "fragment"}) <= errors + 1

(* multi never loses the program it draws with before it has the next one,   *)
(* although it deletes it first.                                             *)
KeepsDrawing == [][Multi /\ gl.current # NoProg => gl'.current # NoProg]_vars
=============================================================================
