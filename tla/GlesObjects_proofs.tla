-------------------------- MODULE GlesObjects_proofs --------------------------
(* Proofs about GlesObjects, for any number of setups and of failing calls.  *)
EXTENDS GlesObjects, FiniteSetTheorems, TLAPS

USE GlesAssumption

-----------------------------------------------------------------------------
(* The calls of GL.                                                          *)

(* What is deleted at last is taken away, nothing else.                      *)
LEMMA ReapShrinks ==
  ASSUME NEW g \in Contexts
  PROVE  /\ Reap(g) \in Contexts
         /\ Reap(g).current = g.current
         /\ Reap(g).attached \subseteq g.attached
         /\ Reap(g).flagged \subseteq g.flagged
BY DEF Reap, Contexts

(* A program that is used becomes the current one.                           *)
LEMMA Uses ==
  ASSUME NEW g \in Contexts, NEW p \in Setups \cup {NoProg}
  PROVE  /\ UseProgram(g, p) \in Contexts
         /\ UseProgram(g, p).current = p
         /\ UseProgram(g, p).attached \subseteq g.attached
         /\ UseProgram(g, p).flagged \subseteq g.flagged
<1> DEFINE h == [g EXCEPT !.current = p]
<1>1. h \in Contexts /\ h.current = p /\ h.attached = g.attached /\ h.flagged = g.flagged
  BY DEF Contexts
<1> QED BY <1>1, ReapShrinks DEF UseProgram

(* A program that is deleted stays current.                                  *)
LEMMA Deletes ==
  ASSUME NEW g \in Contexts, NEW p
  PROVE  /\ DeleteProgram(g, p) \in Contexts
         /\ DeleteProgram(g, p).current = g.current
         /\ DeleteProgram(g, p).attached \subseteq g.attached
         /\ DeleteProgram(g, p).flagged \subseteq g.flagged
<1> DEFINE h == [g EXCEPT !.doomed = @ \cup ({p} \cap g.progs)]
<1>1. h \in Contexts /\ h.current = g.current /\ h.attached = g.attached
      /\ h.flagged = g.flagged
  BY DEF Contexts
<1> QED BY <1>1, ReapShrinks DEF DeleteProgram

(* Shaders that are deleted are marked or gone.                              *)
LEMMA Flags ==
  ASSUME NEW g \in Contexts, NEW ss
  PROVE  /\ DeleteShaders(g, ss) \in Contexts
         /\ DeleteShaders(g, ss).current = g.current
         /\ DeleteShaders(g, ss).attached \subseteq g.attached
         /\ DeleteShaders(g, ss).flagged \subseteq g.flagged \cup ss
<1> DEFINE h == [g EXCEPT !.flagged = @ \cup (ss \cap g.shaders)]
<1>1. h \in Contexts /\ h.current = g.current /\ h.attached = g.attached
      /\ h.flagged \subseteq g.flagged \cup ss
  BY DEF Contexts
<1> QED BY <1>1, ReapShrinks DEF DeleteShaders

(* Shaders that are detached are not attached any more.                      *)
LEMMA Detaches ==
  ASSUME NEW g \in Contexts, NEW ss
  PROVE  /\ DetachShaders(g, ss) \in Contexts
         /\ DetachShaders(g, ss).current = g.current
         /\ DetachShaders(g, ss).attached \subseteq g.attached \ ss
         /\ DetachShaders(g, ss).flagged \subseteq g.flagged
<1> DEFINE h == [g EXCEPT !.attached = @ \ ss]
<1>1. h \in Contexts /\ h.current = g.current /\ h.attached = g.attached \ ss
      /\ h.flagged = g.flagged
  BY DEF Contexts
<1> QED BY <1>1, ReapShrinks DEF DetachShaders

(* A new program has the shaders attached to it.                             *)
LEMMA Creates ==
  ASSUME NEW g \in Contexts, NEW p \in Setups, NEW kinds \in SUBSET Kinds
  PROVE  /\ Created(g, p, kinds) \in Contexts
         /\ Created(g, p, kinds).current = g.current
         /\ Created(g, p, kinds).attached = g.attached \cup Made(p, kinds)
         /\ Created(g, p, kinds).flagged = g.flagged
         /\ p \in Created(g, p, kinds).progs
BY DEF Created, Contexts, Made, Shaders

-----------------------------------------------------------------------------
(* The inductive invariant.                                                  *)

(* There is room for the setups of the slots to come.                        *)
Before == {"texture", "delete", "load"}
After == {"link", "blend", "undo", "use", "drop", "flag", "error", "polygon", "drawn",
          "failed"}
Room ==
  /\ pc \in Before => setup + LastSlot - index < MaxSetups
  /\ pc \in After => setup + LastSlot - index <= MaxSetups
  /\ prog <= setup

(* Nothing is named by a setup to come.                                      *)
Numbers(g, n) == g.current <= n /\ \A s \in g.attached \cup g.flagged : s[1] <= n
Past ==
  /\ Numbers(gl, setup)
  /\ pc = "link" => Numbers(gl, setup - 1)

(* No shader is marked that is attached to the current program of multi.     *)
Unmarked(g) == \A s \in g.attached : s[1] = g.current => s \notin g.flagged
Waiting == pc \in {"texture", "delete"} /\ index \in images
Settled ==
  Multi => IF Waiting THEN since = 2 => Unmarked(gl) ELSE since > 0 => Unmarked(gl)

(* How far the setup has come if no call has failed.                         *)
Steady ==
  /\ pending => pc = "error" /\ since < 2
  /\ pc = "link" /\ since > 0 => linkable /\ loaded = Kinds
  /\ pc \in {"blend", "polygon", "flag"} /\ since > 0 => gl.current # NoProg
  /\ pc = "error" /\ since > 0 => Multi /\ gl.current # NoProg
  /\ pc \in {"undo", "drop"} => since = 0
  /\ pc = "use" /\ since > 0 => prog # NoProg /\ prog \in gl.progs /\ linkable
  /\ pc \in {"delete", "blend"} => Multi
  /\ pc \in {"undo", "use", "drop", "flag"} => ~Multi

IInv == TypeOK /\ Room /\ Past /\ Settled /\ Steady

-----------------------------------------------------------------------------
(* The steps.                                                                *)

(* Nothing is there at the start.                                            *)
LEMMA InitIInv == Init => IInv
<1> SUFFICES ASSUME Init PROVE IInv
  OBVIOUS
<1>1. gl \in Contexts /\ Numbers(gl, 0) /\ Unmarked(gl)
  BY DEF Init, Contexts, Numbers, Unmarked, NoProg
<1>2. TypeOK
  <2>1. /\ drawn \in BOOLEAN /\ linkable \in BOOLEAN /\ pending \in BOOLEAN
        /\ tex \in BOOLEAN
    BY DEF Init
  <2> QED BY <1>1, <2>1 DEF Init, TypeOK, Slots, LastSlot, NoProg
<1>3. Room /\ Past /\ Settled /\ Steady
  BY <1>1 DEF Init, Room, Past, Settled, Steady, Before, After, NoProg
<1> QED BY <1>2, <1>3 DEF IInv

(* How many calls have failed.                                               *)
LEMMA FailingTyped ==
  ASSUME TypeOK, NEW calls, Failing(calls)
  PROVE  /\ errors' \in 0 .. MaxErrors /\ since' \in 0 .. 2
         /\ since' > 0 => calls = {} /\ since' = since
BY DEF Failing, TypeOK

(* A call that fails or does not.                                            *)
LEMMA WorksTyped ==
  ASSUME TypeOK
  PROVE  /\ Works => errors' \in 0 .. MaxErrors /\ since' \in 0 .. 2 /\ since' = since
         /\ Fails => errors' \in 0 .. MaxErrors /\ since' \in 0 .. 2 /\ since' = 0
<1>1. Fails => errors' \in 0 .. MaxErrors /\ since' \in 0 .. 2 /\ since' = 0
  BY FailingTyped DEF Fails, Failing
<1>2. Works => errors' \in 0 .. MaxErrors /\ since' \in 0 .. 2 /\ since' = since
  BY DEF Works, errVars, TypeOK
<1> QED BY <1>1, <1>2

(* Frames and slots: what is marked when an image begins was not marked by   *)
(* the image before it, if no call has failed since.                         *)
LEMMA FrameStep ==
  IInv /\ (Frame \/ NextSlot \/ Present \/ NoImage) => IInv'
<1> SUFFICES ASSUME IInv, Frame \/ NextSlot \/ Present \/ NoImage PROVE IInv'
  OBVIOUS
<1> USE DEF IInv
<1>1. CASE Frame
  <2>0. images' \subseteq Slots /\ drawn' \in BOOLEAN
    <3>1. PICK s \in IF user = "compositor" THEN Slots ELSE {0} :
                 images' = images \cup {s}
      BY <1>1 DEF Frame
    <3>2. images \subseteq Slots /\ s \in Slots
      BY <3>1 DEF TypeOK, Slots, LastSlot
    <3>3. drawn' = FALSE
      BY <1>1 DEF Frame
    <3> QED BY <3>1, <3>2, <3>3
  <2>1. /\ index' = 0 /\ pc' = "texture" /\ pc = "frame"
        /\ setup + LastSlot < MaxSetups
        /\ UNCHANGED <<user, errors, gl, setupVars, pending, texVars>>
    BY <1>1 DEF Frame, Goto
  <2>2. since' \in 0 .. 2 /\ (since' = 2 => since > 0)
        /\ (0 \notin images' => since' = since)
    BY <1>1 DEF Frame, Begun, TypeOK
  <2>3. TypeOK'
    BY <2>0, <2>1, <2>2 DEF TypeOK, setupVars, texVars, Slots, LastSlot
  <2>4. Room'
    BY <2>1 DEF Room, Before, After, TypeOK, setupVars, LastSlot
  <2>5. Past'
    BY <2>1 DEF Past, setupVars
  <2>6. Steady'
    BY <2>1, <2>2 DEF Steady
  <2>7. Settled'
    BY <2>1, <2>2 DEF Settled, Waiting, TypeOK, Multi
  <2> QED BY <2>3, <2>4, <2>5, <2>6, <2>7
<1>2. CASE NextSlot
  <2>1. /\ index = 0 /\ index' = 1 /\ pc' = "texture" /\ pc \in {"drawn", "failed"}
        /\ UNCHANGED <<user, images, drawn, errors, gl, setupVars, pending, texVars>>
    BY <1>2 DEF NextSlot, MoreSlots, Goto, TypeOK, Slots, LastSlot
  <2>2. since' \in 0 .. 2 /\ (since' = 2 => since > 0)
        /\ (1 \notin images => since' = since)
    BY <1>2, <2>1 DEF NextSlot, MoreSlots, Begun, TypeOK
  <2>3. TypeOK'
    BY <2>1, <2>2 DEF TypeOK, setupVars, texVars, Slots, LastSlot
  <2>4. Room'
    BY <2>1 DEF Room, Before, After, TypeOK, setupVars, LastSlot
  <2>5. Past'
    BY <2>1 DEF Past, setupVars
  <2>6. Steady'
    BY <2>1, <2>2 DEF Steady
  <2>7. Settled'
    BY <2>1, <2>2 DEF Settled, Waiting, TypeOK, Multi
  <2> QED BY <2>3, <2>4, <2>5, <2>6, <2>7
<1>3. CASE Present \/ NoImage
  <2>1. /\ pc' \in {"frame", "exit", "failed"} /\ pc \in {"drawn", "failed", "texture"}
        /\ UNCHANGED <<frameVars, gl, setupVars, pending, texVars, errVars>>
        /\ ~Waiting /\ ~Waiting'
    BY <1>3 DEF Present, NoImage, Goto, Waiting, frameVars
  <2>2. TypeOK'
    BY <2>1 DEF TypeOK, frameVars, setupVars, texVars, errVars
  <2>3. Room' /\ Past' /\ Steady'
    BY <2>1 DEF Room, Past, Steady, Before, After, TypeOK, frameVars, setupVars,
                errVars, LastSlot, Slots
  <2>4. Settled'
    BY <2>1 DEF Settled, Multi, frameVars, errVars
  <2> QED BY <2>2, <2>3, <2>4
<1> QED BY <1>1, <1>2, <1>3

(* The texture.                                                              *)
LEMMA TextureStep == IInv /\ (Texture \/ TileTexture) => IInv'
<1> SUFFICES ASSUME IInv, Texture \/ TileTexture PROVE IInv'
  OBVIOUS
<1> USE DEF IInv
<1>1. /\ pc = "texture" /\ (Multi => Waiting)
      /\ \/ Works /\ pc' = (IF Multi THEN "delete" ELSE "load")
         \/ Fails /\ pc' = "failed"
      /\ UNCHANGED <<frameVars, gl, setupVars, pending>>
  BY DEF Texture, TileTexture, Goto, Waiting
<1>2. /\ errors' \in 0 .. MaxErrors /\ since' \in 0 .. 2
      /\ pc' # "failed" => since' = since
      /\ pc' = "failed" => since' = 0
  BY <1>1, WorksTyped
<1>3. tex' \in BOOLEAN
  <2>1. tex \in BOOLEAN
    BY DEF TypeOK
  <2>2. tex' = tex \/ tex' = TRUE \/ tex' = FALSE
    BY Zenon DEF Texture, TileTexture, texVars
  <2> QED BY Zenon, <2>1, <2>2
<1>4. lost' \in Nat
  <2>1. lost' = lost \/ lost' = lost + 1
    BY DEF Texture, TileTexture, texVars
  <2> QED BY <2>1 DEF TypeOK
<1>5. TypeOK'
  BY <1>1, <1>2, <1>3, <1>4 DEF TypeOK, frameVars, setupVars
<1>6. Room' /\ Past' /\ Steady'
  BY <1>1, <1>2 DEF Room, Past, Steady, Before, After, TypeOK, frameVars, setupVars,
                    Multi, LastSlot, Slots
<1>7. Settled'
  BY <1>1, <1>2 DEF Settled, Waiting, Multi, frameVars
<1> QED BY <1>5, <1>6, <1>7

(* The shaders of the current program are detached and deleted: what is left *)
(* of the context, and when all of them are off the program.                 *)
LEMMA DismantledContext ==
  ASSUME TypeOK, Past,
         NEW detached \in SUBSET Current, NEW deleted \in SUBSET Current
  PROVE  /\ Dismantled(detached, deleted) \in Contexts
         /\ Dismantled(detached, deleted).current = gl.current
         /\ Numbers(Dismantled(detached, deleted), setup)
         /\ Current \subseteq detached => Unmarked(Dismantled(detached, deleted))
<1> DEFINE g == DetachShaders(gl, detached)
           h == DeleteShaders(g, deleted)
<1>1. gl \in Contexts /\ Numbers(gl, setup)
  BY DEF TypeOK, Past
<1>2. /\ g \in Contexts /\ g.current = gl.current
      /\ g.attached \subseteq gl.attached \ detached /\ g.flagged \subseteq gl.flagged
  BY <1>1, Detaches
<1>3. /\ h \in Contexts /\ h.current = g.current
      /\ h.attached \subseteq g.attached /\ h.flagged \subseteq g.flagged \cup deleted
  BY <1>2, Flags
<1>4. deleted \subseteq gl.attached
  BY DEF Current
<1>5. Numbers(h, setup)
  BY <1>1, <1>2, <1>3, <1>4 DEF Numbers
<1>6. Current \subseteq detached => Unmarked(h)
  BY <1>2, <1>3 DEF Unmarked, Current
<1>7. h = Dismantled(detached, deleted)
  BY DEF Dismantled
<1> HIDE DEF h
<1> QED BY <1>2, <1>3, <1>5, <1>6, <1>7

(* A program that is only deleted keeps its shaders as they were.            *)
LEMMA DeletesUnmarked ==
  ASSUME NEW g \in Contexts, NEW p, NEW n, Numbers(g, n)
  PROVE  /\ Numbers(DeleteProgram(g, p), n)
         /\ Unmarked(g) => Unmarked(DeleteProgram(g, p))
BY Deletes DEF Numbers, Unmarked

(* DeleteCurrentProgram.                                                     *)
LEMMA DeleteStep == IInv /\ DeleteCurrentProgram => IInv'
<1> SUFFICES ASSUME IInv, DeleteCurrentProgram PROVE IInv'
  OBVIOUS
<1> USE DEF IInv
<1>1. /\ pc = "delete" /\ Multi /\ UNCHANGED <<frameVars, setupVars, texVars>>
      /\ pending = FALSE /\ gl \in Contexts
  BY DEF DeleteCurrentProgram, Steady, TypeOK
<1>2. since = 2 => Unmarked(gl)
  BY <1>1 DEF Settled, TypeOK
<1>3. ASSUME /\ pc' \in {"load", "error"} /\ gl' \in Contexts /\ Numbers(gl', setup)
             /\ errors' \in 0 .. MaxErrors /\ since' \in 0 .. 2 /\ pending' \in BOOLEAN
             /\ pending' => pc' = "error" /\ since' < 2
             /\ since' > 0 => Unmarked(gl')
             /\ pc' = "error" /\ since' > 0 => gl'.current # NoProg
      PROVE  IInv'
  <2>1. TypeOK'
    BY <1>1, <1>3 DEF TypeOK, frameVars, setupVars, texVars
  <2>2. Room'
    BY <1>1, <1>3 DEF Room, Before, After, TypeOK, frameVars, setupVars, LastSlot, Slots
  <2>3. Past'
    BY <1>1, <1>3 DEF Past, setupVars
  <2>4. Settled'
    BY <1>3 DEF Settled, Waiting
  <2>5. Multi'
    BY <1>1 DEF Multi, frameVars
  <2>6. Steady'
    BY <1>3, <2>5 DEF Steady
  <2> QED BY <2>1, <2>2, <2>3, <2>4, <2>6
<1>4. CASE gl.current = NoProg /\ Works /\ Goto("load") /\ UNCHANGED <<gl, pending>>
  <2>1. \A s \in gl.attached : s[1] # gl.current
    BY <1>1, <1>4 DEF Contexts, Shaders, Setups, NoProg
  <2>2. Unmarked(gl) /\ Numbers(gl, setup)
    BY <2>1 DEF Unmarked, Past
  <2>3. gl' = gl /\ pending' = FALSE /\ pc' = "load"
    BY <1>1, <1>4 DEF Goto
  <2>4. errors' \in 0 .. MaxErrors /\ since' \in 0 .. 2
    BY <1>4, WorksTyped
  <2>5. Unmarked(gl') /\ Numbers(gl', setup)
    BY <2>2, <2>3
  <2> QED BY <1>1, <1>3, <2>3, <2>4, <2>5
<1>5. CASE Fails /\ Goto("error") /\ UNCHANGED <<gl, pending>>
  <2>1. gl' = gl /\ pending' = FALSE /\ pc' = "error"
    BY <1>1, <1>5 DEF Goto
  <2>2. errors' \in 0 .. MaxErrors /\ since' \in 0 .. 2 /\ since' = 0
    BY <1>5, WorksTyped
  <2>3. Numbers(gl', setup) /\ gl' \in Contexts /\ pending' \in BOOLEAN
    BY <1>1, <2>1 DEF Past
  <2>4. ~(since' > 0) /\ ~pending'
    BY <2>1, <2>2
  <2> QED BY <1>3, <2>1, <2>2, <2>3, <2>4
<1>6. CASE /\ gl.current # NoProg /\ Current = {} /\ Works /\ Goto("error")
           /\ UNCHANGED <<gl, pending>>
  <2>1. Unmarked(gl) /\ Numbers(gl, setup)
    BY <1>6 DEF Unmarked, Past, Current
  <2>2. gl' = gl /\ pending' = FALSE /\ pc' = "error"
    BY <1>1, <1>6 DEF Goto
  <2>3. errors' \in 0 .. MaxErrors /\ since' \in 0 .. 2
    BY <1>6, WorksTyped
  <2>4. Unmarked(gl') /\ Numbers(gl', setup) /\ gl'.current # NoProg
    BY <2>1, <2>2, <1>6
  <2> QED BY <1>1, <1>3, <2>2, <2>3, <2>4
<1>7. CASE /\ gl.current # NoProg
           /\ \E detached, deleted \in SUBSET Current : Dismantle(detached, deleted)
  <2>1. PICK detached \in SUBSET Current, deleted \in SUBSET Current :
               Dismantle(detached, deleted)
    BY <1>7
  <2> DEFINE undetached == (Current \ detached) \X {"glDetachShader"}
             undeleted  == (Current \ deleted) \X {"glDeleteShader"}
             gone       == (detached \cap gl.flagged) \X {"glDeleteShader"}
             wrong      == undetached \cup undeleted
             left       == Dismantled(detached, deleted)
  <2>2. /\ left \in Contexts /\ left.current = gl.current /\ Numbers(left, setup)
        /\ Current \subseteq detached => Unmarked(left)
    BY DismantledContext
  <2>3. /\ pending' = (Cardinality(wrong) > 1)
        /\ \/ /\ wrong = {} /\ Works /\ pc' = "load"
              /\ gl' = Deleted(left)
           \/ wrong = {} /\ Fails /\ pc' = "error" /\ gl' = left
           \/ wrong # {} /\ Failing(wrong \ gone) /\ pc' = "error" /\ gl' = left
    BY <2>1 DEF Dismantle, Goto
  <2>4. undetached \cap gone = {}
    OBVIOUS
  <2>5. undetached = {} => Current \subseteq detached
    <3> SUFFICES ASSUME NEW s \in Current, s \notin detached PROVE undetached # {}
      OBVIOUS
    <3>1. <<s, "glDetachShader">> \in undetached
      OBVIOUS
    <3> QED BY <3>1
  <2>6. Unmarked(gl) => gone = {}
    <3> SUFFICES ASSUME Unmarked(gl), NEW x \in gone PROVE FALSE
      OBVIOUS
    <3>1. PICK s \in detached \cap gl.flagged : x = <<s, "glDeleteShader">>
      OBVIOUS
    <3>2. s \in gl.attached /\ s[1] = gl.current
      BY DEF Current
    <3> QED BY <3>1, <3>2 DEF Unmarked
  <2>7. wrong = {} => ~pending'
    <3> HIDE DEF wrong
    <3>1. wrong = {} => ~(Cardinality(wrong) > 1)
      BY FS_EmptySet
    <3>2. pending' = (Cardinality(wrong) > 1)
      BY <2>3
    <3> QED BY <3>1, <3>2
  <2> HIDE DEF undetached, undeleted, gone, left
  <2>8. pending' \in BOOLEAN
    BY <2>3
  <2>9. CASE wrong = {} /\ Works /\ pc' = "load" /\ gl' = Deleted(left)
    <3>1. errors' \in 0 .. MaxErrors /\ since' \in 0 .. 2
      BY <2>9, WorksTyped
    <3>2. Unmarked(left)
      BY <2>9, <2>2, <2>5
    <3>3. gl' \in Contexts /\ Numbers(gl', setup) /\ Unmarked(gl')
      BY <2>9, <2>2, <3>2, Deletes, DeletesUnmarked DEF Deleted
    <3> QED BY <1>3, <2>7, <2>8, <2>9, <3>1, <3>3
  <2>10. CASE wrong = {} /\ Fails /\ pc' = "error" /\ gl' = left
    <3>1. errors' \in 0 .. MaxErrors /\ since' \in 0 .. 2 /\ since' = 0
      BY <2>10, WorksTyped
    <3>2. ~(since' > 0) /\ ~pending'
      BY <2>7, <2>10, <3>1
    <3> QED BY <1>3, <2>2, <2>8, <2>10, <3>1, <3>2
  <2>11. CASE wrong # {} /\ Failing(wrong \ gone) /\ pc' = "error" /\ gl' = left
    <3>1. /\ errors' \in 0 .. MaxErrors /\ since' \in 0 .. 2
          /\ since' > 0 => wrong \ gone = {} /\ since' = since
      BY <2>11, FailingTyped
    <3>2. since' > 0 => Unmarked(left)
      BY <2>2, <2>4, <2>5, <3>1
    <3>3. since' < 2
      BY <1>2, <2>6, <2>11, <3>1
    <3>4. gl' \in Contexts /\ Numbers(gl', setup) /\ gl'.current # NoProg
      BY <1>7, <2>2, <2>11
    <3>5. since' > 0 => Unmarked(gl')
      BY <2>11, <3>2
    <3> QED BY <1>3, <2>8, <2>11, <3>1, <3>3, <3>4, <3>5
  <2> QED BY <2>3, <2>9, <2>10, <2>11
<1> QED BY <1>4, <1>5, <1>6, <1>7 DEF DeleteCurrentProgram

(* LoadShader for both kinds: a new setup.                                   *)
LEMMA LoadStep == IInv /\ LoadShaders => IInv'
<1> SUFFICES ASSUME IInv, LoadShaders PROVE IInv'
  OBVIOUS
<1> USE DEF IInv
<1>1. PICK made \in SUBSET Kinds, compiled \in SUBSET Kinds :
        /\ compiled \subseteq made
        /\ Failing(Kinds \ compiled)
        /\ gl' = [gl EXCEPT !.shaders = @ \cup Made(setup + 1, made)]
        /\ loaded' = made /\ linkable' = (compiled = Kinds)
  BY DEF LoadShaders
<1>2. /\ pc = "load" /\ pc' = "link" /\ setup' = setup + 1
      /\ UNCHANGED <<frameVars, prog, pending, texVars>>
  BY DEF LoadShaders, Goto
<1>3. setup \in Nat /\ setup + LastSlot - index < MaxSetups /\ index \in 0 .. 1 /\ prog \in Nat
  BY <1>2 DEF TypeOK, Room, Before, Slots, LastSlot
<1>4. setup + 1 \in Setups
  BY <1>3 DEF Setups, LastSlot
<1>5. Made(setup + 1, made) \subseteq Shaders
  BY <1>4 DEF Made, Shaders
<1>6. gl \in Contexts
  BY DEF TypeOK
<1>7. /\ gl' \in Contexts /\ gl'.current = gl.current
      /\ gl'.attached = gl.attached /\ gl'.flagged = gl.flagged
  BY <1>1, <1>5, <1>6 DEF Contexts
<1>8. /\ errors' \in 0 .. MaxErrors /\ since' \in 0 .. 2
      /\ since' > 0 => Kinds \ compiled = {} /\ since' = since
  BY <1>1, FailingTyped
<1>9. pending' = FALSE
  BY <1>2 DEF Steady, TypeOK
<1>10. loaded' \subseteq Kinds /\ linkable' \in BOOLEAN
  BY <1>1
<1>11. since' > 0 => linkable' /\ loaded' = Kinds
  BY <1>1, <1>8
<1>12. TypeOK'
  BY <1>2, <1>4, <1>7, <1>8, <1>9, <1>10 DEF TypeOK, frameVars, texVars, Setups
<1>13. Room'
  BY <1>2, <1>3 DEF Room, Before, After, LastSlot, frameVars
<1>14. Past'
  <2>1. Numbers(gl, setup) /\ setup' - 1 = setup /\ setup \in Nat
    BY <1>2, <1>3 DEF Past
  <2>2. gl.current \in Nat /\ \A s \in gl.attached \cup gl.flagged : s[1] \in Nat
    BY <1>6 DEF Contexts, Setups, NoProg, Shaders
  <2>3. Numbers(gl', setup) /\ Numbers(gl', setup')
    BY <1>2, <1>7, <2>1, <2>2 DEF Numbers
  <2> QED BY <2>1, <2>3 DEF Past
<1>15. Settled'
  <2>1. Multi /\ since > 0 => Unmarked(gl)
    BY <1>2 DEF Settled, Waiting
  <2>2. Unmarked(gl) => Unmarked(gl')
    BY <1>7 DEF Unmarked
  <2>3. Multi' = Multi
    BY <1>2 DEF Multi, frameVars
  <2>4. Multi' /\ since' > 0 => Unmarked(gl')
    BY <1>8, <2>1, <2>2, <2>3
  <2> QED BY <1>2, <2>4 DEF Settled, Waiting
<1>16. Steady'
  BY <1>2, <1>9, <1>11 DEF Steady
<1> QED BY <1>12, <1>13, <1>14, <1>15, <1>16

(* The steps after the shaders: what they have in common.                    *)
LEMMA SetupFrame ==
  ASSUME TypeOK, Room,
         pc \in After, pc' \in After \ {"link"},
         UNCHANGED <<user, images, index, setup, loaded, linkable, texVars>>,
         drawn' \in BOOLEAN, pending' \in BOOLEAN,
         gl' \in Contexts, Numbers(gl', setup),
         prog' \in 0 .. setup,
         errors' \in 0 .. MaxErrors, since' \in 0 .. 2,
         Multi /\ since' > 0 => Unmarked(gl'),
         Steady'
  PROVE  IInv'
<1>1. prog' \in 0 .. MaxSetups
  BY DEF TypeOK
<1>2. TypeOK'
  BY <1>1 DEF TypeOK, After, texVars
<1>3. Room'
  BY DEF Room, After, Before, TypeOK
<1>4. Past'
  BY DEF Past
<1>5. Settled'
  BY DEF Settled, Waiting, Multi, After
<1> QED BY <1>2, <1>3, <1>4, <1>5 DEF IInv

(* ShadersToProgram of multi: no shader of the new program is marked, its    *)
(* number is new.                                                            *)
LEMMA LinkStep == IInv /\ ShadersToProgram => IInv'
<1> SUFFICES ASSUME IInv, ShadersToProgram PROVE IInv'
  OBVIOUS
<1> USE DEF IInv
<1>1. /\ pc = "link" /\ Multi
      /\ UNCHANGED <<user, images, index, setup, loaded, linkable, texVars>>
      /\ drawn' = drawn /\ prog' = prog /\ pending' = pending /\ pending = FALSE
  BY DEF ShadersToProgram, frameVars, setupVars, Steady, TypeOK
<1>2. Multi' /\ drawn' \in BOOLEAN /\ pending' \in BOOLEAN /\ prog' \in 0 .. setup /\ ~pending'
  BY <1>1 DEF Multi, TypeOK, Room
<1>3. /\ gl \in Contexts /\ Numbers(gl, setup - 1) /\ setup \in Setups
      /\ Numbers(gl, setup)
  BY <1>1 DEF TypeOK, Past, Numbers, Contexts, Setups, NoProg
<1>4. CASE Fails /\ Goto("error") /\ UNCHANGED gl
  <2>1. errors' \in 0 .. MaxErrors /\ since' \in 0 .. 2 /\ since' = 0
    BY <1>4, WorksTyped
  <2>2. pc' = "error" /\ gl' = gl
    BY <1>4 DEF Goto
  <2>3. Steady'
    BY <1>2, <2>1, <2>2 DEF Steady
  <2> QED BY <1>1, <1>2, <1>3, <2>1, <2>2, <2>3, SetupFrame DEF After
<1>5. ASSUME NEW kinds \in Attached, kinds \subseteq loaded
      PROVE  /\ Created(gl, setup, kinds) \in Contexts
             /\ Created(gl, setup, kinds).current = gl.current
             /\ Created(gl, setup, kinds).attached = gl.attached \cup Made(setup, kinds)
             /\ Created(gl, setup, kinds).flagged = gl.flagged
             /\ Numbers(Created(gl, setup, kinds), setup)
  <2>1. kinds \in SUBSET Kinds
    BY DEF Attached, Kinds
  <2>2. /\ Created(gl, setup, kinds) \in Contexts
        /\ Created(gl, setup, kinds).current = gl.current
        /\ Created(gl, setup, kinds).attached = gl.attached \cup Made(setup, kinds)
        /\ Created(gl, setup, kinds).flagged = gl.flagged
    BY <1>3, <2>1, Creates
  <2>3. \A s \in Made(setup, kinds) : s[1] = setup
    BY DEF Made
  <2>4. setup \in Nat
    BY <1>3 DEF Setups
  <2> QED BY <1>3, <2>2, <2>3, <2>4 DEF Numbers
<1>6. ASSUME NEW kinds \in Attached, kinds \subseteq loaded, Works, Goto("blend"),
             gl' = UseProgram(Created(gl, setup, kinds), setup)
      PROVE  IInv'
  <2> DEFINE made == Created(gl, setup, kinds)
  <2>1. errors' \in 0 .. MaxErrors /\ since' \in 0 .. 2
    BY <1>6, WorksTyped
  <2>2. /\ made \in Contexts /\ made.current = gl.current
        /\ made.attached = gl.attached \cup Made(setup, kinds)
        /\ made.flagged = gl.flagged /\ Numbers(made, setup)
    BY <1>5, <1>6
  <2>3. gl' = UseProgram(made, setup)
    BY <1>6
  <2> HIDE DEF made
  <2>4. /\ gl' \in Contexts /\ gl'.current = setup
        /\ gl'.attached \subseteq made.attached /\ gl'.flagged \subseteq made.flagged
    BY <1>3, <2>2, <2>3, Uses
  <2>5. setup # NoProg /\ setup \in Nat
    BY <1>3 DEF Setups, NoProg
  <2>6. Numbers(gl', setup)
    BY <2>2, <2>4, <2>5 DEF Numbers
  <2>7. \A s \in gl'.flagged : s[1] <= setup - 1
    BY <1>3, <2>2, <2>4 DEF Numbers
  <2>8. Unmarked(gl')
    BY <2>4, <2>5, <2>7 DEF Unmarked
  <2>9. pc' = "blend"
    BY <1>6 DEF Goto
  <2>10. Steady'
    BY <1>2, <2>4, <2>5, <2>9 DEF Steady
  <2> QED BY <1>1, <1>2, <2>1, <2>4, <2>6, <2>8, <2>9, <2>10, SetupFrame DEF After
<1>7. ASSUME NEW kinds \in Attached, kinds \subseteq loaded,
             IF linkable THEN Fails ELSE Works, Goto("error"),
             gl' = Created(gl, setup, kinds)
      PROVE  IInv'
  <2>1. errors' \in 0 .. MaxErrors /\ since' \in 0 .. 2 /\ since' = 0
    BY <1>1, <1>7, WorksTyped DEF Steady, TypeOK
  <2>2. gl' \in Contexts /\ Numbers(gl', setup)
    BY <1>5, <1>7
  <2>3. pc' = "error"
    BY <1>7 DEF Goto
  <2>4. Steady'
    BY <1>2, <2>1, <2>3 DEF Steady
  <2> QED BY <1>1, <1>2, <2>1, <2>2, <2>3, <2>4, SetupFrame DEF After
<1> QED BY <1>4, <1>6, <1>7 DEF ShadersToProgram

(* Blending, the colour on error and the drawing: the context stays.         *)
LEMMA DrawStep == IInv /\ (Blend \/ ColourOnError \/ RenderPolygon) => IInv'
<1> SUFFICES ASSUME IInv, Blend \/ ColourOnError \/ RenderPolygon PROVE IInv'
  OBVIOUS
<1> USE DEF IInv
<1>1. /\ UNCHANGED <<user, images, index, setup, loaded, linkable, texVars>>
      /\ gl' = gl /\ prog' = prog
  BY DEF Blend, ColourOnError, RenderPolygon, frameVars, setupVars
<1>2. /\ pc \in {"blend", "error", "polygon"}
      /\ pc' \in {"polygon", "error", "failed", "drawn"}
      /\ Works \/ Fails
  BY DEF Blend, ColourOnError, RenderPolygon, Goto, Recovered
<1>3. drawn' \in BOOLEAN /\ pending' = FALSE
  <2>1. drawn' = drawn \/ drawn' = TRUE
    BY DEF Blend, ColourOnError, RenderPolygon, frameVars
  <2>2. drawn \in BOOLEAN /\ pending \in BOOLEAN
    BY DEF TypeOK
  <2>3. pending' = FALSE \/ (pending' = pending /\ pc # "error")
    BY DEF Blend, ColourOnError, RenderPolygon
  <2>4. pc # "error" => pending = FALSE
    BY <2>2 DEF Steady
  <2> QED BY <2>1, <2>2, <2>3, <2>4
<1>4. /\ errors' \in 0 .. MaxErrors /\ since' \in 0 .. 2
      /\ since' > 0 => since' = since
      /\ pc' = "error" => since' = 0
  <2>1. pc' = "error" => Fails
    BY DEF Blend, ColourOnError, RenderPolygon, Goto, Recovered
  <2> QED BY <1>2, <2>1, WorksTyped
<1>5. /\ gl' \in Contexts /\ Numbers(gl', setup) /\ prog' \in 0 .. setup
      /\ (Multi /\ since' > 0 => Unmarked(gl'))
  <2>1. gl \in Contexts /\ Numbers(gl, setup) /\ prog \in 0 .. setup
    BY DEF TypeOK, Past, Room
  <2>2. Multi /\ since > 0 => Unmarked(gl)
    BY <1>2 DEF Settled, Waiting
  <2> QED BY <1>1, <1>4, <2>1, <2>2
<1>6. pc' = "polygon" /\ since' > 0 => gl'.current # NoProg
  <2>1. since > 0 /\ pc # "polygon" => gl.current # NoProg
    BY <1>2 DEF Steady
  <2>2. pc = "polygon" => pc' # "polygon"
    BY DEF Blend, ColourOnError, RenderPolygon, Goto
  <2> QED BY <1>1, <1>4, <2>1, <2>2
<1>7. Steady'
  BY <1>2, <1>3, <1>4, <1>6 DEF Steady
<1>8. pending' \in BOOLEAN
  BY <1>3
<1> QED BY <1>1, <1>2, <1>3, <1>4, <1>5, <1>7, <1>8, SetupFrame DEF After

(* A step of tile's setup, and how far it has come if no call has failed.    *)
TileGoes(from, to) ==
  /\ ~Multi /\ pc = from /\ from \in After \ {"error"}
  /\ to \in After \ {"link", "blend"} /\ pc' = to
  /\ to \in {"error", "undo", "drop"} => since' = 0
  /\ to \in {"flag", "polygon"} /\ since' > 0 => gl'.current # NoProg
  /\ to = "use" /\ since' > 0 => prog' # NoProg /\ prog' \in gl'.progs /\ linkable

(* Such a step keeps the invariant: nothing it deletes is needed by multi.   *)
LEMMA TileFrame ==
  ASSUME IInv, NEW from, NEW to, TileGoes(from, to),
         UNCHANGED <<user, images, index, drawn, setup, loaded, linkable, pending, texVars>>,
         gl' \in Contexts, Numbers(gl', setup), prog' \in 0 .. setup,
         errors' \in 0 .. MaxErrors, since' \in 0 .. 2
  PROVE  IInv'
<1>1. pc \in After /\ pc' \in After \ {"link"} /\ ~Multi
  BY DEF TileGoes
<1>2. pending' = FALSE /\ ~Multi' /\ pc # "error"
  BY DEF IInv, Steady, TypeOK, Multi, TileGoes
<1>3. drawn' \in BOOLEAN /\ pending' \in BOOLEAN
  BY <1>2 DEF IInv, TypeOK
<1>4. pc' = "use" /\ since' > 0 => linkable'
  BY DEF TileGoes
<1>5. Steady'
  BY <1>2, <1>4 DEF Steady, After, TileGoes
<1> QED BY <1>1, <1>3, <1>5, SetupFrame DEF IInv

(* ShadersToProgram of tile.                                                 *)
LEMMA TileProgramStep == IInv /\ TileProgram => IInv'
<1> SUFFICES ASSUME IInv, TileProgram PROVE IInv'
  OBVIOUS
<1>1. /\ pc = "link" /\ ~Multi
      /\ UNCHANGED <<user, images, index, drawn, setup, loaded, linkable, pending, texVars>>
  BY DEF TileProgram, frameVars
<1>2. /\ gl \in Contexts /\ Numbers(gl, setup) /\ setup \in Setups /\ setup \in Nat
  BY <1>1 DEF IInv, TypeOK, Past, Numbers, Contexts, Setups, NoProg
<1> DEFINE g == Deleted(gl)
<1>3. g \in Contexts /\ Numbers(g, setup)
  BY <1>2, Deletes, DeletesUnmarked DEF Deleted
<1> HIDE DEF g
<1>4. CASE Fails /\ Goto("undo") /\ prog' = NoProg /\ gl' \in {gl, g}
  <2>1. errors' \in 0 .. MaxErrors /\ since' \in 0 .. 2 /\ since' = 0
    BY <1>4, WorksTyped DEF IInv
  <2>2. pc' = "undo" /\ gl' \in Contexts /\ Numbers(gl', setup) /\ prog' \in 0 .. setup
    BY <1>2, <1>3, <1>4 DEF Goto, NoProg
  <2>3. TileGoes("link", "undo")
    BY <1>1, <2>1, <2>2 DEF TileGoes, After
  <2> QED BY <1>1, <2>1, <2>2, <2>3, TileFrame
<1>5. ASSUME NEW kinds \in Attached, kinds \subseteq loaded,
             gl' = Created(g, setup, kinds), prog' = setup,
             \/ kinds = Kinds /\ Works /\ Goto("use")
             \/ (IF loaded = Kinds THEN Fails ELSE Works) /\ Goto("undo")
      PROVE  IInv'
  <2>1. kinds \in SUBSET Kinds
    BY DEF Attached, Kinds
  <2>2. /\ gl' \in Contexts /\ gl'.current = g.current
        /\ gl'.attached = g.attached \cup Made(setup, kinds)
        /\ gl'.flagged = g.flagged /\ setup \in gl'.progs
    BY <1>2, <1>3, <1>5, <2>1, Creates
  <2>3. \A s \in Made(setup, kinds) : s[1] = setup
    BY DEF Made
  <2>4. Numbers(gl', setup)
    BY <1>2, <1>3, <2>2, <2>3 DEF Numbers
  <2>5. /\ errors' \in 0 .. MaxErrors /\ since' \in 0 .. 2
        /\ pc' = "undo" => since' = 0
        /\ since' > 0 => since' = since
        /\ pc' \in {"use", "undo"}
    BY <1>1, <1>5, WorksTyped DEF IInv, Steady, Goto, TypeOK
  <2>6. since' > 0 => linkable
    BY <1>1, <2>5 DEF IInv, Steady
  <2>7. prog' \in 0 .. setup /\ prog' # NoProg /\ prog' \in gl'.progs
    BY <1>2, <1>5, <2>2 DEF Setups, NoProg
  <2>8. TileGoes("link", pc')
    BY <1>1, <2>5, <2>6, <2>7 DEF TileGoes, After
  <2> QED BY <1>1, <2>2, <2>4, <2>5, <2>7, <2>8, TileFrame
<1>6. \/ Fails /\ Goto("undo") /\ prog' = NoProg /\ gl' \in {gl, g}
      \/ \E kinds \in Attached :
           /\ kinds \subseteq loaded
           /\ gl' = Created(g, setup, kinds) /\ prog' = setup
           /\ \/ kinds = Kinds /\ Works /\ Goto("use")
              \/ (IF loaded = Kinds THEN Fails ELSE Works) /\ Goto("undo")
  BY DEF TileProgram, g
<1> QED BY <1>4, <1>5, <1>6

(* Undoing, using and deleting the shaders.                                  *)
LEMMA TileStep == IInv /\ (TileUndo \/ TileUse \/ TileShaders) => IInv'
<1> SUFFICES ASSUME IInv, TileUndo \/ TileUse \/ TileShaders PROVE IInv'
  OBVIOUS
<1>1. /\ UNCHANGED <<user, images, index, drawn, setup, loaded, linkable, pending, texVars>>
      /\ prog' = prog
      /\ Works \/ Fails
  BY DEF TileUndo, TileUse, TileShaders, TileDeleteShader, frameVars, setupVars
<1>2. /\ errors' \in 0 .. MaxErrors /\ since' \in 0 .. 2
      /\ Works => since' = since
      /\ Fails => since' = 0
  BY <1>1, WorksTyped DEF IInv
<1>3. /\ gl \in Contexts /\ Numbers(gl, setup) /\ prog \in 0 .. setup /\ setup \in Nat
      /\ prog \in Setups \cup {NoProg}
  BY DEF IInv, TypeOK, Past, Room, Setups, NoProg
<1>4. setup \in Setups \/ setup = 0
  BY <1>3 DEF IInv, TypeOK, Setups
<1>5. CASE TileUndo
  <2>1. /\ pc = "undo" /\ ~Multi /\ pc' \in {"use", "drop"} /\ since' = 0
    <3>1. pc = "undo" /\ pc' \in {"use", "drop"}
      BY <1>5 DEF TileUndo, Goto
    <3>2. ~Multi /\ since = 0
      BY <3>1 DEF IInv, Steady, TypeOK
    <3> QED BY <1>1, <1>2, <3>1, <3>2
  <2>2. gl' \in Contexts /\ Numbers(gl', setup)
    BY <1>3, <1>5, Deletes, DeletesUnmarked DEF TileUndo
  <2>3. TileGoes("undo", pc')
    BY <2>1 DEF TileGoes, After
  <2> QED BY <1>1, <1>2, <1>3, <2>2, <2>3, TileFrame
<1>6. CASE TileUse
  <2>1. pc = "use" /\ ~Multi
    BY <1>6 DEF TileUse, IInv, Steady
  <2>2. since > 0 => prog # NoProg /\ prog \in gl.progs /\ linkable
    BY <2>1 DEF IInv, Steady
  <2>3. CASE Works /\ pc' = "flag" /\ gl' = UseProgram(gl, prog)
    <3>1. /\ gl' \in Contexts /\ gl'.current = prog
          /\ gl'.attached \subseteq gl.attached /\ gl'.flagged \subseteq gl.flagged
      BY <1>3, <2>3, Uses
    <3>2. Numbers(gl', setup)
      BY <1>3, <3>1 DEF Numbers
    <3>3. since' > 0 => prog # NoProg
      BY <1>2, <2>2, <2>3
    <3>4. TileGoes("use", "flag")
      BY <2>1, <2>3, <3>1, <3>3 DEF TileGoes, After
    <3> QED BY <1>1, <1>2, <1>3, <3>1, <3>2, <3>4, TileFrame
  <2>4. CASE pc' = "error" /\ gl' = gl /\ since' = 0
    <3>1. TileGoes("use", "error")
      BY <2>1, <2>4 DEF TileGoes, After
    <3>2. gl' \in Contexts /\ Numbers(gl', setup)
      BY <1>3, <2>4
    <3> QED BY <1>1, <1>2, <1>3, <3>1, <3>2, TileFrame
  <2>5. \/ Works /\ pc' = "flag" /\ gl' = UseProgram(gl, prog)
        \/ Works /\ prog # NoProg /\ ~(prog \in gl.progs /\ linkable)
           /\ pc' = "error" /\ gl' = gl
        \/ Fails /\ pc' = "error" /\ gl' = gl
    BY <1>6 DEF TileUse, Goto
  <2>6. since \in 0 .. 2
    BY DEF IInv, TypeOK
  <2>7. prog # NoProg /\ ~(prog \in gl.progs /\ linkable) => since = 0
    BY <2>2, <2>6
  <2> QED BY <1>2, <2>3, <2>4, <2>5, <2>7
<1>7. ASSUME NEW l, NEW kind \in Kinds, NEW next, TileDeleteShader(l, kind, next),
             (l = "drop" /\ next = "flag") \/ (l = "flag" /\ next = "polygon")
      PROVE  IInv'
  <2>1. pc = l /\ ~Multi /\ pc' \in {next, "error"} /\ (pc' = "error" => since' = 0)
    BY <1>2, <1>7 DEF TileDeleteShader, Goto, IInv, Steady
  <2>2. /\ gl' \in Contexts /\ gl'.current = gl.current
        /\ gl'.attached \subseteq gl.attached
        /\ gl'.flagged \subseteq gl.flagged \cup Made(setup, {kind})
    <3>1. gl' = gl \/ gl' = DeleteShaders(gl, Made(setup, {kind}))
      BY <1>7 DEF TileDeleteShader
    <3> QED BY <1>3, <3>1, Flags
  <2>3. \A s \in Made(setup, {kind}) : s[1] = setup
    BY DEF Made
  <2>4. Numbers(gl', setup)
    <3> DEFINE ss == Made(setup, {kind})
    <3>1. \A s \in ss : s[1] = setup
      BY <2>3
    <3>2. gl'.flagged \subseteq gl.flagged \cup ss
      BY <2>2
    <3> HIDE DEF ss
    <3> QED BY <1>3, <2>2, <3>1, <3>2 DEF Numbers
  <2>5. since' > 0 => since > 0
    BY <1>1, <1>2
  <2>6. /\ l = "drop" => ~(since > 0)
        /\ l = "flag" /\ since > 0 => gl.current # NoProg
    BY <2>1 DEF IInv, Steady
  <2>7. TileGoes(l, pc')
    BY <1>7, <2>1, <2>2, <2>5, <2>6 DEF TileGoes, After
  <2> QED BY <1>1, <1>2, <1>3, <2>2, <2>4, <2>7, TileFrame
<1>8. "vertex" \in Kinds /\ "fragment" \in Kinds
  BY DEF Kinds
<1>9. TileDeleteShader("drop", "vertex", "flag") => IInv'
  BY <1>7, <1>8, Zenon
<1>10. TileDeleteShader("flag", "fragment", "polygon") => IInv'
  BY <1>7, <1>8, Zenon
<1> QED BY <1>5, <1>6, <1>9, <1>10 DEF TileShaders

(* Nobody asks for a frame.                                                  *)
LEMMA StutterStep == IInv /\ UNCHANGED vars => IInv'
<1> SUFFICES ASSUME IInv, UNCHANGED vars PROVE IInv'
  OBVIOUS
<1> USE DEF vars, frameVars, setupVars, texVars, errVars
<1>1. TypeOK'
  BY DEF IInv, TypeOK
<1>2. Room' /\ Past'
  BY DEF IInv, Room, Past
<1>3. Settled'
  BY DEF IInv, Settled, Waiting, Multi
<1>4. Steady'
  BY DEF IInv, Steady, Multi
<1> QED BY <1>1, <1>2, <1>3, <1>4 DEF IInv

(* Every step.                                                               *)
LEMMA NextIInv == IInv /\ [Next]_vars => IInv'
<1> SUFFICES ASSUME IInv, Next \/ UNCHANGED vars PROVE IInv'
  OBVIOUS
<1>1. CASE Frame \/ NextSlot \/ Present \/ NoImage
  BY <1>1, FrameStep
<1>2. CASE Texture \/ TileTexture \/ DeleteCurrentProgram \/ LoadShaders \/ ShadersToProgram
  BY <1>2, TextureStep, DeleteStep, LoadStep, LinkStep
<1>3. CASE Blend \/ ColourOnError \/ RenderPolygon
  BY <1>3, DrawStep
<1>4. CASE TileProgram \/ TileUndo \/ TileUse \/ TileShaders
  BY <1>4, TileProgramStep, TileStep
<1>5. CASE Ended \/ UNCHANGED vars
  BY <1>5, StutterStep DEF Ended
<1> QED BY <1>1, <1>2, <1>3, <1>4, <1>5 DEF Next

-----------------------------------------------------------------------------
(* The theorems.                                                             *)

(* The invariant holds in every state.                                       *)
THEOREM Invariance == Spec => []IInv
<1>1. Init => IInv
  BY InitIInv
<1>2. IInv /\ [Next]_vars => IInv'
  BY NextIInv
<1> QED BY <1>1, <1>2, PTL DEF Spec

(* Every variable keeps its type: among them, the numbers of the slots and   *)
(* setups stay in range, and gl is a context that GL can be in.              *)
THEOREM TypeCorrect == Spec => []TypeOK
BY Invariance, PTL DEF IInv

(* A frame that does not get to draw an image has had a call that failed in  *)
(* it, or follows one in which the shaders could not be detached.            *)
LEMMA RecoverStep ==
  IInv /\ [Next]_vars =>
    (pc # "failed" /\ pc' = "failed" /\ index \in images =>
       since' = 0 \/ (since' = 1 /\ pending))
<1> SUFFICES ASSUME IInv, Next \/ UNCHANGED vars,
                    pc # "failed", pc' = "failed", index \in images
             PROVE  since' = 0 \/ (since' = 1 /\ pending)
  OBVIOUS
<1>0. since \in 0 .. 2 /\ TypeOK
  BY DEF IInv, TypeOK
<1>1. Texture \/ TileTexture \/ ColourOnError \/ RenderPolygon
  <2>1. ~UNCHANGED vars
    BY DEF vars
  <2>2. ~(Frame \/ NextSlot \/ Present \/ NoImage)
    BY DEF Frame, NextSlot, Present, NoImage, Goto
  <2>3. ~(DeleteCurrentProgram \/ LoadShaders \/ ShadersToProgram \/ Blend)
    BY DEF DeleteCurrentProgram, Dismantle, LoadShaders, ShadersToProgram, Blend, Goto
  <2>4. ~(TileProgram \/ TileUndo \/ TileUse \/ TileShaders)
    BY DEF TileProgram, TileUndo, TileUse, TileShaders, TileDeleteShader, Goto
  <2> QED BY <2>1, <2>2, <2>3, <2>4 DEF Next, Ended
<1>2. Fails => since' = 0
  BY <1>0, WorksTyped
<1>3. CASE Texture \/ TileTexture
  BY <1>2, <1>3 DEF Texture, TileTexture, Goto
<1>4. CASE ColourOnError
  <2>1. Fails \/ (Works /\ pending)
    BY <1>4 DEF ColourOnError, Goto, Recovered
  <2>2. pending => since < 2
    BY DEF IInv, Steady
  <2>3. Works => since' = since
    BY <1>0, WorksTyped
  <2> QED BY <1>0, <1>2, <2>1, <2>2, <2>3
<1>5. CASE RenderPolygon
  <2>1. pc = "polygon" /\ (Fails \/ (Works /\ gl.current = NoProg))
    BY <1>5 DEF RenderPolygon, Goto
  <2>2. gl.current = NoProg => ~(since > 0)
    BY <2>1 DEF IInv, Steady
  <2>3. Works => since' = since
    BY <1>0, WorksTyped
  <2> QED BY <1>0, <1>2, <2>1, <2>2, <2>3
<1> QED BY <1>1, <1>3, <1>4, <1>5

(* Drawing recovers from whatever failed before.                             *)
THEOREM RecoversHolds == Spec => Recovers
<1>1. IInv /\ [Next]_vars =>
        [pc # "failed" /\ pc' = "failed" /\ index \in images =>
           since' = 0 \/ (since' = 1 /\ pending)]_vars
  BY RecoverStep
<1> QED BY <1>1, Invariance, PTL DEF Spec, Recovers

(* The current program of multi changes when the next one is used, to it.    *)
LEMMA CurrentStep ==
  IInv /\ [Next]_vars => (Multi /\ gl.current # NoProg => gl'.current # NoProg)
<1> SUFFICES ASSUME IInv, Next \/ UNCHANGED vars, Multi, gl.current # NoProg
             PROVE  gl'.current # NoProg
  OBVIOUS
<1>1. gl \in Contexts /\ Past
  BY DEF IInv, TypeOK
<1>2. CASE gl' = gl
  BY <1>2
<1>3. ~(TileProgram \/ TileUndo \/ TileUse \/ TileShaders)
  BY DEF TileProgram, TileUndo, TileUse, TileShaders, TileDeleteShader, IInv, Steady
<1>4. CASE \/ Frame \/ NextSlot \/ Present \/ NoImage \/ Texture \/ TileTexture \/ Blend \/ ColourOnError
           \/ RenderPolygon \/ Ended \/ UNCHANGED vars
  BY <1>2, <1>4 DEF Frame, NextSlot, Present, NoImage, Texture, TileTexture, Blend, ColourOnError,
                    RenderPolygon, Ended, vars
<1>5. CASE DeleteCurrentProgram
  <2>1. CASE gl' = gl
    BY <2>1
  <2>2. ASSUME NEW detached \in SUBSET Current, NEW deleted \in SUBSET Current,
               Dismantle(detached, deleted)
        PROVE  gl'.current # NoProg
    <3> DEFINE left == Dismantled(detached, deleted)
    <3>1. left \in Contexts /\ left.current = gl.current
      BY DismantledContext DEF IInv
    <3>2. gl' = left \/ gl' = Deleted(left)
      BY <2>2 DEF Dismantle
    <3> HIDE DEF left
    <3>3. gl'.current = gl.current
      BY <3>1, <3>2, Deletes DEF Deleted
    <3> QED BY <3>3
  <2> QED BY <1>5, <2>1, <2>2 DEF DeleteCurrentProgram
<1>6. CASE LoadShaders
  <2>1. PICK made \in SUBSET Kinds :
          gl' = [gl EXCEPT !.shaders = @ \cup Made(setup + 1, made)]
    BY <1>6 DEF LoadShaders
  <2> QED BY <1>1, <2>1 DEF Contexts
<1>7. CASE ShadersToProgram
  <2>1. setup \in Setups /\ setup # NoProg
    BY <1>1, <1>7 DEF ShadersToProgram, Past, Numbers, Contexts, Setups, NoProg, IInv, TypeOK
  <2>2. CASE gl' = gl
    BY <2>2
  <2>3. ASSUME NEW kinds \in Attached,
               \/ gl' = UseProgram(Created(gl, setup, kinds), setup)
               \/ gl' = Created(gl, setup, kinds)
        PROVE  gl'.current # NoProg
    <3>1. kinds \in SUBSET Kinds
      BY DEF Attached, Kinds
    <3>2. /\ Created(gl, setup, kinds) \in Contexts
          /\ Created(gl, setup, kinds).current = gl.current
      BY <1>1, <2>1, <3>1, Creates
    <3>3. gl'.current = setup \/ gl'.current = gl.current
      BY <2>1, <2>3, <3>2, Uses
    <3> QED BY <2>1, <3>3
  <2> QED BY <1>7, <2>2, <2>3 DEF ShadersToProgram
<1> QED BY <1>3, <1>4, <1>5, <1>6, <1>7 DEF Next

(* multi always has a program to draw with once it has had one.              *)
THEOREM KeepsDrawingHolds == Spec => KeepsDrawing
<1>1. IInv /\ [Next]_vars =>
        [Multi /\ gl.current # NoProg => gl'.current # NoProg]_vars
  BY CurrentStep
<1> QED BY <1>1, Invariance, PTL DEF Spec, KeepsDrawing
=============================================================================
