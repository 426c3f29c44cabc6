--------------------------- MODULE GlesLeaks_proofs ---------------------------
(* Proof that only failed calls leave programs, shaders and textures behind: *)
(* every setup has a number, and a number that holds a stray object has an   *)
(* error of its own that paid for it.                                        *)
EXTENDS GlesObjects_proofs

USE GlesAssumption

(* The current program and its shaders are taken by the next setup, those of *)
(* tile as soon as they are marked; every other object is a stray.           *)
Watched == IF Multi THEN Kinds ELSE {"fragment"}
Tended(g, s) == s[1] = g.current /\ s \in g.attached /\ (Multi \/ s \in g.flagged)
StrayShader(g, p) == \E k \in Watched : <<p, k>> \in g.shaders /\ ~Tended(g, <<p, k>>)
Strays(g) == {p \in Setups : p \in g.progs \ {g.current} \/ StrayShader(g, p)}

(* What a setup under way has made is not counted, but the error that will   *)
(* leave it behind is, from the call that failed on.                         *)
SettingUp == pc \in {"link", "undo", "use", "drop", "flag"}
Owing ==
  \/ pc = "link" /\ ~linkable
  \/ pc \in {"undo", "drop"}
  \/ pc = "use" /\ ~(prog \in gl.progs /\ linkable)
  \/ pc = "flag" /\ setup \in gl.progs \ {gl.current}
Others == IF SettingUp THEN Strays(gl) \ {setup} ELSE Strays(gl)
Owes == SettingUp /\ Owing
Paid == IF Owes THEN Cardinality(Others) + 1 <= errors ELSE Cardinality(Others) <= errors

(* A shader is attached to a program that is there.                          *)
Owns(g) == \A s \in g.attached : s[1] \in g.progs
(* The current program goes as soon as it is not current any more.           *)
Leaving(g) == g.current \in g.progs => g.current \in g.doomed
Bare(g) == \A s \in g.attached : s[1] # g.current

Numbered == \A p \in gl.progs : p <= setup /\ (pc = "link" => p < setup)
Replaced ==
  /\ pc = "link" /\ linkable => loaded = Kinds
  /\ Multi /\ pc \in {"load", "link"} => Leaving(gl) /\ Bare(gl)
  /\ pc \in {"undo", "use"} => prog \in {NoProg, setup}
  /\ pc \in {"undo", "use"} /\ prog = NoProg => setup \notin gl.progs
  /\ pc \in {"undo", "use"} /\ prog # NoProg => Leaving(gl)
Textures == Multi => lost <= errors

LInv == Paid /\ Owns(gl) /\ Numbered /\ Replaced /\ Textures

-----------------------------------------------------------------------------
(* Numbers of sets of setups.                                                *)
LEMMA Counts ==
  ASSUME NEW A \in SUBSET Setups, NEW B \in SUBSET Setups, NEW x
  PROVE  /\ IsFiniteSet(A) /\ Cardinality(A) \in Nat
         /\ A \subseteq B => Cardinality(A) <= Cardinality(B)
         /\ A \subseteq B \cup {x} => Cardinality(A) <= Cardinality(B) + 1
<1>1. IsFiniteSet(Setups)
  BY FS_Interval DEF Setups
<1>2. IsFiniteSet(A) /\ IsFiniteSet(B)
  BY <1>1, FS_Subset
<1>3. Cardinality(A) \in Nat /\ Cardinality(B) \in Nat
  BY <1>2, FS_CardinalityType
<1>4. A \subseteq B => Cardinality(A) <= Cardinality(B)
  BY <1>2, FS_Subset
<1>5. /\ IsFiniteSet(B \cup {x})
      /\ Cardinality(B \cup {x}) \in {Cardinality(B), Cardinality(B) + 1}
  BY <1>2, FS_AddElement
<1>6. A \subseteq B \cup {x} => Cardinality(A) <= Cardinality(B \cup {x})
  BY <1>5, FS_Subset
<1> QED BY <1>2, <1>3, <1>4, <1>5, <1>6

(* What a call that works or fails adds to the errors.                       *)
LEMMA Errors ==
  /\ Works => errors' = errors
  /\ Fails => errors' = errors + 1
<1>1. Cardinality({"call"}) = 1
  BY FS_Singleton
<1> QED BY <1>1 DEF Works, Fails, Failing, errVars

-----------------------------------------------------------------------------
(* What the calls of GL make of the strays.                                  *)

(* Taking away what is deleted makes no strays.                              *)
LEMMA ReapStrays ==
  ASSUME NEW g \in Contexts, Owns(g)
  PROVE  /\ Strays(Reap(g)) \subseteq Strays(g)
         /\ Reap(g).progs = g.progs \ (g.doomed \ {g.current})
         /\ Owns(Reap(g))
         /\ Leaving(g) => Leaving(Reap(g))
         /\ Bare(g) => Bare(Reap(g))
         /\ \A s \in Reap(g).shaders :
              s \in g.shaders /\ (s \in g.flagged => s \in Reap(g).attached)
         /\ \A s \in Reap(g).attached : s[1] \notin g.doomed \ {g.current}
         /\ \A s \in g.attached : s[1] = g.current => s \in Reap(g).attached
         /\ \A s \in g.flagged : s \in Reap(g).attached => s \in Reap(g).flagged
<1> DEFINE h == Reap(g)
           gone == g.doomed \ {g.current}
           kept == {s \in g.attached : s[1] \notin gone}
<1>1. /\ h.current = g.current /\ h.progs = g.progs \ gone
      /\ h.doomed = g.doomed \ gone /\ h.attached = kept
      /\ h.shaders = g.shaders \ (g.flagged \ kept)
      /\ h.flagged = g.flagged \cap kept
  BY DEF Reap
<1>2. \A s : Tended(g, s) => Tended(h, s)
  BY <1>1 DEF Tended
<1> HIDE DEF h
<1>3. Strays(h) \subseteq Strays(g)
  BY <1>1, <1>2 DEF Strays, StrayShader
<1> USE DEF h
<1>4. /\ Owns(h) /\ (Leaving(g) => Leaving(h)) /\ (Bare(g) => Bare(h))
  BY <1>1 DEF Owns, Leaving, Bare
<1> QED BY <1>1, <1>3, <1>4

(* Deleting a program neither.                                               *)
LEMMA DeleteStrays ==
  ASSUME NEW g \in Contexts, NEW p, Owns(g)
  PROVE  /\ Strays(DeleteProgram(g, p)) \subseteq Strays(g)
         /\ DeleteProgram(g, p).progs \subseteq g.progs
         /\ Owns(DeleteProgram(g, p))
         /\ Leaving(g) \/ p = g.current => Leaving(DeleteProgram(g, p))
         /\ Bare(g) => Bare(DeleteProgram(g, p))
         /\ p # g.current => p \notin DeleteProgram(g, p).progs
<1> DEFINE h == [g EXCEPT !.doomed = @ \cup ({p} \cap g.progs)]
<1>1. /\ h \in Contexts /\ h.current = g.current /\ h.progs = g.progs
      /\ h.attached = g.attached /\ h.shaders = g.shaders
      /\ h.flagged = g.flagged /\ h.doomed = g.doomed \cup ({p} \cap g.progs)
  BY DEF Contexts
<1> HIDE DEF h
<1>2. Owns(h) /\ (Leaving(g) \/ p = g.current => Leaving(h)) /\ (Bare(g) => Bare(h))
  BY <1>1 DEF Owns, Leaving, Bare
<1>3. \A s : Tended(g, s) => Tended(h, s)
  BY <1>1 DEF Tended
<1>4. Strays(h) \subseteq Strays(g)
  BY <1>1, <1>3 DEF Strays, StrayShader
<1>5. DeleteProgram(g, p) = Reap(h)
  BY DEF DeleteProgram, h
<1> QED BY <1>1, <1>2, <1>4, <1>5, ReapStrays

(* Deleting shaders neither; one that is still there is attached and marked. *)
LEMMA FlagStrays ==
  ASSUME NEW g \in Contexts, NEW ss, Owns(g)
  PROVE  /\ Strays(DeleteShaders(g, ss)) \subseteq Strays(g)
         /\ DeleteShaders(g, ss).progs \subseteq g.progs
         /\ Owns(DeleteShaders(g, ss))
         /\ \A s \in DeleteShaders(g, ss).shaders :
              /\ s \in g.shaders
              /\ s \in ss \cup g.flagged => s \in DeleteShaders(g, ss).attached
                                            /\ s \in DeleteShaders(g, ss).flagged
<1> DEFINE h == [g EXCEPT !.flagged = @ \cup (ss \cap g.shaders)]
<1>1. /\ h \in Contexts /\ h.current = g.current /\ h.progs = g.progs
      /\ h.attached = g.attached /\ h.shaders = g.shaders
      /\ h.flagged = g.flagged \cup (ss \cap g.shaders) /\ h.doomed = g.doomed
  BY DEF Contexts
<1> HIDE DEF h
<1>2. Owns(h)
  BY <1>1 DEF Owns
<1>3. \A s : Tended(g, s) => Tended(h, s)
  BY <1>1 DEF Tended
<1>4. Strays(h) \subseteq Strays(g)
  BY <1>1, <1>3 DEF Strays, StrayShader
<1>5. DeleteShaders(g, ss) = Reap(h)
  BY DEF DeleteShaders, h
<1>6. /\ Strays(Reap(h)) \subseteq Strays(h) /\ Owns(Reap(h))
      /\ Reap(h).progs \subseteq h.progs
      /\ \A s \in Reap(h).shaders :
           s \in h.shaders /\ (s \in h.flagged => s \in Reap(h).attached)
      /\ \A s \in h.flagged : s \in Reap(h).attached => s \in Reap(h).flagged
  BY <1>1, <1>2, ReapStrays
<1> QED BY <1>1, <1>4, <1>5, <1>6

(* A program that is not current any more may be a stray, unless it has been *)
(* deleted and its shaders have been taken off it or, in tile, marked.       *)
LEMMA UseStrays ==
  ASSUME NEW g \in Contexts, NEW p \in Setups \cup {NoProg}, Owns(g)
  PROVE  /\ Strays(UseProgram(g, p)) \subseteq Strays(g) \cup {g.current, p}
         /\ Leaving(g) /\ (Multi => Bare(g)) =>
              Strays(UseProgram(g, p)) \subseteq Strays(g) \cup {p}
         /\ UseProgram(g, p).progs \subseteq g.progs
         /\ Owns(UseProgram(g, p))
         /\ \A s \in g.attached : s[1] = p => s \in UseProgram(g, p).attached
         /\ p \in g.progs => p \in UseProgram(g, p).progs
<1> DEFINE h == [g EXCEPT !.current = p]
           u == Reap(h)
<1>1. /\ h \in Contexts /\ h.current = p /\ h.progs = g.progs
      /\ h.attached = g.attached /\ h.shaders = g.shaders
      /\ h.flagged = g.flagged /\ h.doomed = g.doomed
  BY DEF Contexts
<1>2. UseProgram(g, p) = u
  BY DEF UseProgram
<1> HIDE DEF h
<1>3. Owns(h)
  BY <1>1 DEF Owns
<1>4. /\ u.current = p
      /\ Strays(u) \subseteq Strays(h)
      /\ u.progs = h.progs \ (h.doomed \ {p})
      /\ Owns(u)
      /\ \A s \in u.shaders : s \in h.shaders /\ (s \in h.flagged => s \in u.attached)
      /\ \A s \in u.attached : s[1] \notin h.doomed \ {p}
      /\ \A s \in h.attached : s[1] = p => s \in u.attached
  BY <1>1, <1>3, ReapStrays, ReapShrinks
<1>5. Strays(h) \subseteq Strays(g) \cup {g.current, p}
  <2> SUFFICES ASSUME NEW q \in Strays(h), q # g.current, q # p
               PROVE  q \in Strays(g)
    OBVIOUS
  <2>1. CASE q \in h.progs \ {h.current}
    BY <1>1, <2>1 DEF Strays
  <2>2. CASE StrayShader(h, q)
    <3>1. PICK k \in Watched : <<q, k>> \in h.shaders
      BY <2>2 DEF StrayShader
    <3>2. ~Tended(g, <<q, k>>)
      BY DEF Tended
    <3> QED BY <1>1, <3>1, <3>2 DEF Strays, StrayShader
  <2> QED BY <2>1, <2>2 DEF Strays
<1> HIDE DEF u
<1>6. ASSUME Leaving(g), Multi => Bare(g), g.current # p,
             g.current \in Strays(u)
      PROVE  g.current \in Strays(g)
  <2>1. g.current \notin u.progs
    BY <1>1, <1>4, <1>6 DEF Leaving
  <2>2. PICK k \in Watched : <<g.current, k>> \in u.shaders
    BY <1>6, <2>1 DEF Strays, StrayShader
  <2>3. ~Tended(g, <<g.current, k>>)
    <3> SUFFICES ASSUME Tended(g, <<g.current, k>>) PROVE FALSE
      OBVIOUS
    <3>1. <<g.current, k>> \in g.attached /\ <<g.current, k>> \in g.flagged
      BY <1>6 DEF Tended, Bare
    <3>2. g.current \in g.doomed
      BY <3>1, <1>6 DEF Owns, Leaving
    <3>3. <<g.current, k>> \notin u.attached
      BY <1>1, <1>4, <1>6, <3>2
    <3> QED BY <1>1, <1>4, <2>2, <3>1, <3>3
  <2>4. g.current \in Setups /\ <<g.current, k>> \in g.shaders
    BY <1>1, <1>4, <1>6, <2>2 DEF Strays
  <2> QED BY <2>2, <2>3, <2>4 DEF Strays, StrayShader
<1> QED BY <1>1, <1>2, <1>4, <1>5, <1>6

(* A new program makes no stray but itself.                                  *)
LEMMA CreateStrays ==
  ASSUME NEW g \in Contexts, NEW p \in Setups, NEW kinds \in SUBSET Kinds, Owns(g),
         p \notin g.progs
  PROVE  /\ Strays(Created(g, p, kinds)) \subseteq Strays(g) \cup {p}
         /\ Created(g, p, kinds).progs = g.progs \cup {p}
         /\ Owns(Created(g, p, kinds))
         /\ Leaving(g) /\ p # g.current => Leaving(Created(g, p, kinds))
         /\ Bare(g) /\ p # g.current => Bare(Created(g, p, kinds))
         /\ \A k \in kinds : <<p, k>> \in Created(g, p, kinds).attached
<1> DEFINE h == Created(g, p, kinds)
<1>1. /\ h \in Contexts /\ h.current = g.current /\ h.progs = g.progs \cup {p}
      /\ h.attached = g.attached \cup Made(p, kinds) /\ h.shaders = g.shaders
      /\ h.flagged = g.flagged /\ h.doomed = g.doomed
  BY DEF Created, Contexts, Made, Shaders
<1>2. \A s \in Made(p, kinds) : s[1] = p
  BY DEF Made
<1> HIDE DEF h
<1>3. \A s : Tended(g, s) => Tended(h, s)
  BY <1>1 DEF Tended
<1>4. Strays(h) \subseteq Strays(g) \cup {p}
  BY <1>1, <1>3 DEF Strays, StrayShader
<1>5. /\ Owns(h) /\ (Leaving(g) /\ p # g.current => Leaving(h))
      /\ (Bare(g) /\ p # g.current => Bare(h))
  BY <1>1, <1>2 DEF Owns, Leaving, Bare
<1>6. \A k \in kinds : <<p, k>> \in h.attached
  BY <1>1 DEF Made
<1> USE DEF h
<1> QED BY <1>1, <1>4, <1>5, <1>6

-----------------------------------------------------------------------------
(* How a step keeps Paid: it leaves no new stray, or one that is paid for.   *)
OthersAfter == IF SettingUp' THEN Strays(gl') \ {setup'} ELSE Strays(gl')

(* The step.                                                                 *)
LEMMA PaidStep ==
  ASSUME TypeOK, TypeOK', Paid, UNCHANGED user, NEW x, errors <= errors',
         \/ /\ OthersAfter \subseteq Others
            /\ Owes' => Owes \/ errors + 1 <= errors'
         \/ /\ OthersAfter \subseteq Others \cup {x}
            /\ ~Owes' /\ (Owes \/ errors + 1 <= errors')
  PROVE  Paid'
<1>1. Others' = OthersAfter
  BY DEF Others, OthersAfter, Strays, StrayShader, Tended, Watched, Multi
<1>2. Others \in SUBSET Setups /\ OthersAfter \in SUBSET Setups
  BY DEF Others, OthersAfter, Strays
<1>3. /\ Cardinality(Others) \in Nat /\ Cardinality(OthersAfter) \in Nat
      /\ OthersAfter \subseteq Others => Cardinality(OthersAfter) <= Cardinality(Others)
      /\ OthersAfter \subseteq Others \cup {x} =>
           Cardinality(OthersAfter) <= Cardinality(Others) + 1
  BY <1>2, Counts
<1>4. errors \in Int /\ errors' \in Int
  BY DEF TypeOK
<1>5. Cardinality(Others) <= errors /\ (Owes => Cardinality(Others) + 1 <= errors)
  BY <1>3, <1>4 DEF Paid
<1>6. /\ Cardinality(OthersAfter) <= errors'
      /\ Owes' => Cardinality(OthersAfter) + 1 <= errors'
  BY <1>3, <1>4, <1>5
<1> QED BY <1>1, <1>6 DEF Paid

(* A step of a frame, a texture or the drawing leaves the context alone.     *)
LEMMA QuietPaid ==
  ASSUME TypeOK, TypeOK', Paid, UNCHANGED <<gl, setup, user>>,
         ~SettingUp, ~SettingUp', errors <= errors'
  PROVE  Paid'
<1>1. OthersAfter \subseteq Others /\ ~Owes'
  BY DEF OthersAfter, Others, Owes
<1> QED BY <1>1, PaidStep

(* Such a step keeps the rest as well.                                       *)
LEMMA QuietStep ==
  ASSUME IInv, TypeOK', LInv, UNCHANGED <<gl, setup, user>>, ~SettingUp, ~SettingUp',
         Multi => pc' # "load", errors <= errors', Multi => lost' <= errors'
  PROVE  LInv'
<1> USE DEF LInv, IInv
<1>1. Paid'
  BY QuietPaid
<1>2. Owns(gl)' /\ Numbered'
  BY DEF Owns, Numbered, SettingUp
<1>3. Replaced' /\ Textures'
  BY DEF Replaced, Textures, SettingUp, Multi
<1> QED BY <1>1, <1>2, <1>3

(* Nothing is there at the start.                                            *)
LEMMA InitLInv == Init => LInv
<1> SUFFICES ASSUME Init PROVE LInv
  OBVIOUS
<1>1. /\ gl.progs = {} /\ gl.attached = {} /\ gl.shaders = {} /\ pc = "frame"
      /\ errors = 0 /\ lost = 0
  BY DEF Init
<1>2. Strays(gl) = {}
  BY <1>1 DEF Strays, StrayShader
<1>3. Others = {} /\ ~Owes
  BY <1>1, <1>2 DEF Others, Owes, SettingUp
<1>4. Cardinality(Others) = 0
  BY <1>3, FS_EmptySet
<1>5. Paid
  BY <1>1, <1>3, <1>4 DEF Paid
<1> QED
  BY <1>1, <1>5 DEF LInv, Owns, Numbered, Replaced, Textures

(* Everything outside the setup of a program.                                *)
LEMMA FrameLeaks ==
  IInv /\ IInv' /\ LInv
  /\ (Frame \/ NextSlot \/ Present \/ NoImage \/ Blend \/ ColourOnError \/ RenderPolygon)
  => LInv'
<1> SUFFICES ASSUME IInv, IInv', LInv,
                    Frame \/ NextSlot \/ Present \/ NoImage \/ Blend
                    \/ ColourOnError \/ RenderPolygon
             PROVE  LInv'
  OBVIOUS
<1>1. /\ UNCHANGED <<gl, setup, user, lost>>
      /\ ~SettingUp /\ ~SettingUp' /\ pc' # "load"
  BY DEF Frame, NextSlot, Present, NoImage, Blend, ColourOnError, RenderPolygon,
         frameVars, setupVars, texVars, Goto, SettingUp, Recovered
<1>2. errors' = errors \/ Works \/ Fails
  BY DEF Frame, NextSlot, Present, NoImage, Blend, ColourOnError, RenderPolygon,
         errVars
<1>3. errors \in Int /\ lost \in Int /\ TypeOK'
  BY DEF IInv, TypeOK
<1>4. errors <= errors'
  BY <1>2, <1>3, Errors
<1>5. Multi => lost' <= errors'
  BY <1>1, <1>2, <1>3, Errors DEF LInv, Textures
<1> QED BY <1>1, <1>3, <1>4, <1>5, QuietStep

(* A texture is lost when a call fails.                                      *)
LEMMA TextureLeaks == IInv /\ IInv' /\ LInv /\ (Texture \/ TileTexture) => LInv'
<1> SUFFICES ASSUME IInv, IInv', LInv, Texture \/ TileTexture PROVE LInv'
  OBVIOUS
<1>1. /\ UNCHANGED <<gl, setup, user>> /\ ~SettingUp /\ ~SettingUp'
      /\ Multi => pc' # "load"
  BY DEF Texture, TileTexture, frameVars, setupVars, Goto, SettingUp
<1>2. errors \in Int /\ lost \in Int /\ TypeOK'
  BY DEF IInv, TypeOK
<1>3. Works \/ Fails
  BY DEF Texture, TileTexture
<1>4. errors <= errors'
  BY <1>2, <1>3, Errors
<1>5. Multi => lost' <= errors'
  <2> SUFFICES ASSUME Multi PROVE lost' <= errors'
    OBVIOUS
  <2>1. lost' = lost \/ (Fails /\ lost' = lost + 1)
    BY DEF Texture, TileTexture, texVars
  <2> QED BY <1>2, <1>3, <2>1, Errors DEF LInv, Textures
<1> QED BY <1>1, <1>2, <1>4, <1>5, QuietStep

-----------------------------------------------------------------------------
(* DeleteCurrentProgram.                                                     *)

(* What is taken off the current program and not deleted makes it a stray.   *)
LEMMA DismantledStrays ==
  ASSUME gl \in Contexts, Owns(gl), Multi,
         NEW detached \in SUBSET Current, NEW deleted \in SUBSET Current
  PROVE  LET left == Dismantled(detached, deleted)
         IN /\ left \in Contexts /\ left.current = gl.current
            /\ left.progs \subseteq gl.progs /\ Owns(left)
            /\ Strays(left) \subseteq Strays(gl) \cup {gl.current}
            /\ Current \subseteq detached => Bare(left)
            /\ /\ Current \subseteq detached
               /\ Current \ deleted \subseteq detached \cap gl.flagged
               => Strays(left) \subseteq Strays(gl)
<1> DEFINE h == [gl EXCEPT !.attached = @ \ detached]
           g == Reap(h)
           left == DeleteShaders(g, deleted)
<1>1. /\ h \in Contexts /\ h.current = gl.current /\ h.progs = gl.progs
      /\ h.attached = gl.attached \ detached /\ h.shaders = gl.shaders
      /\ h.flagged = gl.flagged /\ h.doomed = gl.doomed
  BY DEF Contexts
<1>2. Dismantled(detached, deleted) = left
  BY DEF Dismantled, DetachShaders
<1> HIDE DEF h
<1>3. Owns(h)
  BY <1>1 DEF Owns
<1>4. /\ g \in Contexts /\ g.current = h.current /\ g.attached \subseteq h.attached
      /\ Strays(g) \subseteq Strays(h) /\ g.progs \subseteq h.progs /\ Owns(g)
      /\ \A s \in g.shaders : s \in h.shaders /\ (s \in h.flagged => s \in g.attached)
  BY <1>1, <1>3, ReapStrays, ReapShrinks
<1> HIDE DEF g
<1>5. /\ left \in Contexts /\ left.current = g.current
      /\ left.attached \subseteq g.attached
      /\ Strays(left) \subseteq Strays(g) /\ left.progs \subseteq g.progs /\ Owns(left)
      /\ \A s \in left.shaders :
           s \in g.shaders /\ (s \in deleted => s \in left.attached)
  BY <1>4, FlagStrays, Flags
<1> HIDE DEF left
<1>6. Strays(h) \subseteq Strays(gl) \cup {gl.current}
  <2>1. \A s : Tended(gl, s) /\ s[1] # gl.current => Tended(h, s)
    BY DEF Tended
  <2> QED BY <1>1, <2>1 DEF Strays, StrayShader, Tended
<1>7. Current \subseteq detached => Bare(left)
  BY <1>1, <1>4, <1>5 DEF Bare, Current
<1>8. ASSUME Current \subseteq detached,
             Current \ deleted \subseteq detached \cap gl.flagged,
             gl.current \in Strays(left)
      PROVE  gl.current \in Strays(gl)
  <2>1. PICK k \in Watched : <<gl.current, k>> \in left.shaders
    BY <1>1, <1>4, <1>5, <1>8 DEF Strays, StrayShader
  <2>2. <<gl.current, k>> \notin detached
    <3> SUFFICES ASSUME <<gl.current, k>> \in detached PROVE FALSE
      OBVIOUS
    <3>1. <<gl.current, k>> \notin g.attached /\ <<gl.current, k>> \notin left.attached
      BY <1>1, <1>4, <1>5
    <3>2. <<gl.current, k>> \in deleted \/ <<gl.current, k>> \in h.flagged
      BY <1>1, <1>8
    <3> QED BY <1>4, <1>5, <2>1, <3>1, <3>2
  <2>3. ~Tended(gl, <<gl.current, k>>)
    BY <1>8, <2>2 DEF Tended, Current
  <2>4. gl.current \in Setups /\ <<gl.current, k>> \in gl.shaders
    BY <1>1, <1>4, <1>5, <1>8, <2>1 DEF Strays
  <2> QED BY <2>3, <2>4 DEF Strays, StrayShader
<1> QED BY <1>1, <1>2, <1>4, <1>5, <1>6, <1>7, <1>8

(* A program is deleted, or what is left of it is paid for.                  *)
LEMMA DeleteLeaks == IInv /\ IInv' /\ LInv /\ DeleteCurrentProgram => LInv'
<1> SUFFICES ASSUME IInv, IInv', LInv, DeleteCurrentProgram PROVE LInv'
  OBVIOUS
<1>1. /\ pc = "delete" /\ Multi /\ UNCHANGED <<user, setup, lost>>
      /\ gl \in Contexts /\ Owns(gl) /\ ~SettingUp
  BY DEF DeleteCurrentProgram, IInv, LInv, Steady, TypeOK, frameVars, setupVars,
         texVars, SettingUp
<1>2. errors \in Int /\ lost \in Int /\ errors' \in Int /\ TypeOK /\ TypeOK'
  BY DEF IInv, TypeOK
<1>3. ASSUME /\ pc' \in {"load", "error"} /\ gl'.progs \subseteq gl.progs /\ Owns(gl')
             /\ pc' = "load" => Leaving(gl') /\ Bare(gl')
             /\ errors <= errors'
             /\ \/ Strays(gl') \subseteq Strays(gl)
                \/ Strays(gl') \subseteq Strays(gl) \cup {gl.current}
                   /\ errors + 1 <= errors'
      PROVE  LInv'
  <2>1. /\ ~Owes' /\ Others = Strays(gl) /\ OthersAfter = Strays(gl')
    BY <1>1, <1>3 DEF SettingUp, Owes, Others, OthersAfter
  <2>2. Paid'
    BY <1>1, <1>2, <1>3, <2>1, PaidStep DEF LInv
  <2>3. Numbered' /\ Owns(gl)'
    BY <1>1, <1>3 DEF LInv, Numbered, Owns
  <2>4. Replaced'
    BY <1>1, <1>3 DEF Replaced, Leaving, Bare
  <2>5. Textures'
    BY <1>1, <1>2, <1>3 DEF LInv, Textures, Multi
  <2> QED BY <2>2, <2>3, <2>4, <2>5 DEF LInv
<1>4. CASE gl.current = NoProg /\ Works /\ Goto("load") /\ UNCHANGED <<gl, pending>>
  <2>1. Leaving(gl) /\ Bare(gl)
    BY <1>1, <1>4 DEF Leaving, Bare, Contexts, Shaders, Setups, NoProg
  <2>2. gl' = gl /\ errors' = errors /\ pc' = "load"
    BY <1>4, Errors DEF Goto
  <2>3. Leaving(gl') /\ Bare(gl') /\ Owns(gl') /\ Strays(gl') \subseteq Strays(gl)
    BY <1>1, <2>1, <2>2
  <2> QED BY <1>2, <1>3, <2>2, <2>3
<1>5. CASE (Fails \/ Works) /\ Goto("error") /\ UNCHANGED <<gl, pending>>
  <2>1. gl' = gl /\ errors' \in {errors, errors + 1} /\ pc' = "error"
    BY <1>5, Errors DEF Goto
  <2>2. Owns(gl') /\ Strays(gl') \subseteq Strays(gl)
    BY <1>1, <2>1
  <2> QED BY <1>2, <1>3, <2>1, <2>2
<1>6. CASE \E detached, deleted \in SUBSET Current : Dismantle(detached, deleted)
  <2>1. PICK detached \in SUBSET Current, deleted \in SUBSET Current :
               Dismantle(detached, deleted)
    BY <1>6
  <2> DEFINE undetached == (Current \ detached) \X {"glDetachShader"}
             undeleted  == (Current \ deleted) \X {"glDeleteShader"}
             gone       == (detached \cap gl.flagged) \X {"glDeleteShader"}
             wrong      == undetached \cup undeleted
             left       == Dismantled(detached, deleted)
  <2>2. /\ left \in Contexts /\ left.current = gl.current
        /\ left.progs \subseteq gl.progs /\ Owns(left)
        /\ Strays(left) \subseteq Strays(gl) \cup {gl.current}
        /\ Current \subseteq detached => Bare(left)
        /\ /\ Current \subseteq detached
           /\ Current \ deleted \subseteq detached \cap gl.flagged
           => Strays(left) \subseteq Strays(gl)
    BY <1>1, DismantledStrays
  <2>3. \/ /\ wrong = {} /\ Works /\ pc' = "load" /\ gl' = Deleted(left)
        \/ wrong = {} /\ Fails /\ pc' = "error" /\ gl' = left
        \/ wrong # {} /\ Failing(wrong \ gone) /\ pc' = "error" /\ gl' = left
    BY <2>1 DEF Dismantle, Goto
  <2>4. wrong \ gone = {} =>
          /\ Current \subseteq detached
          /\ Current \ deleted \subseteq detached \cap gl.flagged
    <3> SUFFICES ASSUME wrong \ gone = {}
                 PROVE  /\ Current \subseteq detached
                        /\ Current \ deleted \subseteq detached \cap gl.flagged
      OBVIOUS
    <3>1. ASSUME NEW s \in Current, s \notin detached PROVE FALSE
      <4>1. <<s, "glDetachShader">> \in wrong /\ <<s, "glDetachShader">> \notin gone
        BY <3>1
      <4> QED BY <4>1
    <3>2. ASSUME NEW s \in Current, s \notin deleted PROVE s \in detached \cap gl.flagged
      <4>1. <<s, "glDeleteShader">> \in wrong
        BY <3>2
      <4>2. <<s, "glDeleteShader">> \in gone
        BY <4>1
      <4> QED BY <4>2
    <3> QED BY <3>1, <3>2
  <2>5. IsFiniteSet(wrong \ gone)
    <3>1. IsFiniteSet(Setups)
      BY Counts
    <3>2. IsFiniteSet(Kinds) /\ IsFiniteSet({"glDetachShader", "glDeleteShader"})
      <4>1. \A x, y : IsFiniteSet({x, y})
        <5> SUFFICES ASSUME NEW x, NEW y PROVE IsFiniteSet({x, y})
          OBVIOUS
        <5>1. IsFiniteSet({x} \cup {y}) /\ {x} \cup {y} = {x, y}
          BY FS_Singleton, FS_AddElement
        <5> QED BY <5>1
      <4> QED BY <4>1 DEF Kinds
    <3>3. IsFiniteSet(Shaders)
      BY <3>1, <3>2, FS_Product DEF Shaders
    <3>4. IsFiniteSet(Shaders \X {"glDetachShader", "glDeleteShader"})
      BY <3>2, <3>3, FS_Product
    <3>5. Current \subseteq Shaders
      BY <1>1 DEF Current, Contexts
    <3>6. wrong \ gone \subseteq Shaders \X {"glDetachShader", "glDeleteShader"}
      BY <3>5
    <3> QED BY <3>4, <3>6, FS_Subset
  <2> HIDE DEF undetached, undeleted, gone, left, wrong
  <2>6. CASE wrong = {} /\ Works /\ pc' = "load" /\ gl' = Deleted(left)
    <3>1. Strays(left) \subseteq Strays(gl) /\ Bare(left)
      BY <2>2, <2>4, <2>6
    <3>2. /\ Strays(gl') \subseteq Strays(left) /\ gl'.progs \subseteq left.progs
          /\ Owns(gl') /\ Leaving(gl') /\ Bare(gl')
      BY <2>2, <2>6, <3>1, DeleteStrays DEF Deleted
    <3>3. errors' = errors
      BY <2>6, Errors
    <3> QED BY <1>2, <1>3, <2>2, <2>6, <3>1, <3>2, <3>3
  <2>7. CASE wrong = {} /\ Fails /\ pc' = "error" /\ gl' = left
    <3>1. errors' = errors + 1
      BY <2>7, Errors
    <3> QED BY <1>2, <1>3, <2>2, <2>7, <3>1
  <2>8. CASE wrong # {} /\ Failing(wrong \ gone) /\ pc' = "error" /\ gl' = left
    <3>1. errors' = errors + Cardinality(wrong \ gone)
      BY <2>8 DEF Failing
    <3>2. /\ Cardinality(wrong \ gone) \in Nat
          /\ Cardinality(wrong \ gone) = 0 <=> wrong \ gone = {}
      BY <2>5, FS_CardinalityType, FS_EmptySet
    <3>3. CASE wrong \ gone = {}
      BY <1>2, <1>3, <2>2, <2>4, <2>8, <3>1, <3>2, <3>3
    <3>4. CASE wrong \ gone # {}
      <4>1. errors + 1 <= errors' /\ errors <= errors'
        BY <1>2, <3>1, <3>2, <3>4
      <4> QED BY <1>3, <2>2, <2>8, <4>1
    <3> QED BY <3>3, <3>4
  <2> QED BY <2>3, <2>6, <2>7, <2>8
<1> QED BY <1>4, <1>5, <1>6 DEF DeleteCurrentProgram

-----------------------------------------------------------------------------
(* LoadShaders: the setup under way has the objects it makes.                *)
LEMMA LoadLeaks == IInv /\ IInv' /\ LInv /\ LoadShaders => LInv'
<1> SUFFICES ASSUME IInv, IInv', LInv, LoadShaders PROVE LInv'
  OBVIOUS
<1>0. PICK made \in SUBSET Kinds : \E compiled \in SUBSET made :
        /\ Failing(Kinds \ compiled)
        /\ gl' = [gl EXCEPT !.shaders = @ \cup Made(setup + 1, made)]
        /\ loaded' = made /\ linkable' = (compiled = Kinds)
  BY DEF LoadShaders
<1>1. PICK compiled \in SUBSET made :
        /\ Failing(Kinds \ compiled)
        /\ gl' = [gl EXCEPT !.shaders = @ \cup Made(setup + 1, made)]
        /\ loaded' = made /\ linkable' = (compiled = Kinds)
  BY <1>0
<1>2. /\ pc = "load" /\ pc' = "link" /\ setup' = setup + 1
      /\ UNCHANGED <<user, lost>>
  BY DEF LoadShaders, Goto, frameVars, texVars
<1>3. /\ errors \in Int /\ errors' \in Int /\ lost \in Int /\ setup \in Int
      /\ TypeOK /\ TypeOK' /\ gl \in Contexts
  BY DEF IInv, TypeOK
<1>4. /\ gl'.current = gl.current /\ gl'.progs = gl.progs
      /\ gl'.attached = gl.attached /\ gl'.doomed = gl.doomed
      /\ gl'.flagged = gl.flagged /\ gl'.shaders = gl.shaders \cup Made(setup', made)
  BY <1>1, <1>2, <1>3 DEF Contexts
<1>5. /\ errors <= errors'
      /\ ~linkable' => errors + 1 <= errors'
  <2>1. IsFiniteSet(Kinds \ compiled)
    <3>1. IsFiniteSet({"vertex"} \cup {"fragment"})
      BY FS_Singleton, FS_AddElement
    <3>2. Kinds \ compiled \subseteq {"vertex"} \cup {"fragment"}
      BY DEF Kinds
    <3> QED BY <3>1, <3>2, FS_Subset
  <2>2. /\ Cardinality(Kinds \ compiled) \in Nat
        /\ Cardinality(Kinds \ compiled) = 0 => Kinds \ compiled = {}
    BY <2>1, FS_CardinalityType, FS_EmptySet
  <2>3. Kinds \ compiled = {} => linkable'
    BY <1>1
  <2>4. errors' = errors + Cardinality(Kinds \ compiled)
    BY <1>1 DEF Failing
  <2> QED BY <1>3, <2>2, <2>3, <2>4
<1>6. Paid'
  <2>1. Others = Strays(gl) /\ OthersAfter = Strays(gl') \ {setup'}
    BY <1>2 DEF Others, OthersAfter, SettingUp
  <2>2. \A s : Tended(gl', s) <=> Tended(gl, s)
    BY <1>4 DEF Tended
  <2>3. \A s \in Made(setup', made) : s[1] = setup'
    BY DEF Made
  <2>4. OthersAfter \subseteq Others
    BY <1>4, <2>1, <2>2, <2>3 DEF Strays, StrayShader
  <2>5. Owes' => errors + 1 <= errors'
    BY <1>2, <1>5 DEF Owes, Owing
  <2>6. UNCHANGED user /\ Paid
    BY <1>2 DEF LInv
  <2> QED BY <1>3, <1>5, <2>4, <2>5, <2>6, PaidStep
<1>7. Owns(gl)'
  BY <1>4 DEF LInv, Owns
<1>8. Numbered'
  <2>1. \A p \in gl.progs : p \in Int /\ p <= setup
    BY <1>3 DEF LInv, Numbered, Contexts, Setups
  <2>2. \A p \in gl.progs : p < setup'
    BY <1>2, <1>3, <2>1
  <2>3. setup' \in Int
    BY <1>2, <1>3
  <2> QED BY <1>4, <2>1, <2>2, <2>3 DEF Numbered
<1>9. Replaced'
  <2>1. linkable' => loaded' = Kinds
    BY <1>1
  <2>2. Multi' => Leaving(gl)' /\ Bare(gl)'
    BY <1>2, <1>4 DEF LInv, Replaced, Leaving, Bare, Multi
  <2> QED BY <1>2, <2>1, <2>2 DEF Replaced
<1>10. Textures'
  BY <1>2, <1>3, <1>5 DEF LInv, Textures, Multi
<1> QED BY <1>6, <1>7, <1>8, <1>9, <1>10 DEF LInv

-----------------------------------------------------------------------------
(* A setup under way has a number.                                           *)
LEMMA SetupThere == IInv /\ pc = "link" => setup \in Setups
<1> SUFFICES ASSUME IInv, pc = "link" PROVE setup \in Setups
  OBVIOUS
<1>1. gl.current \in Nat /\ setup \in 0 .. MaxSetups
  BY DEF IInv, TypeOK, Contexts, Setups, NoProg
<1>2. gl.current <= setup - 1
  BY DEF IInv, Past, Numbers
<1> QED BY <1>1, <1>2 DEF Setups

(* ShadersToProgram of multi: the new program is used, or paid for.          *)
LEMMA LinkLeaks == IInv /\ IInv' /\ LInv /\ ShadersToProgram => LInv'
<1> SUFFICES ASSUME IInv, IInv', LInv, ShadersToProgram PROVE LInv'
  OBVIOUS
<1>1. /\ pc = "link" /\ Multi /\ UNCHANGED <<user, setup, lost, linkable>>
      /\ gl \in Contexts /\ Owns(gl) /\ setup \in Setups
      /\ pc' \in {"error", "blend"}
  BY SetupThere DEF ShadersToProgram, IInv, LInv, TypeOK, frameVars, setupVars,
                    texVars, Goto
<1>2. errors \in Int /\ lost \in Int /\ errors' \in Int /\ TypeOK /\ TypeOK'
  BY DEF IInv, TypeOK
<1>3. /\ setup \notin gl.progs /\ setup # gl.current /\ Leaving(gl) /\ Bare(gl)
      /\ \A p \in gl.progs : p <= setup
  BY <1>1, GlesAssumption DEF LInv, Numbered, Replaced, IInv, Past, Numbers, Setups
<1>4. /\ Others = Strays(gl) \ {setup} /\ OthersAfter = Strays(gl')
      /\ ~linkable => Owes
      /\ ~Owes'
  BY <1>1 DEF Others, OthersAfter, SettingUp, Owes, Owing
<1>5. ASSUME /\ gl'.progs \subseteq gl.progs \cup {setup} /\ Owns(gl')
             /\ \/ Strays(gl') \subseteq Strays(gl) \ {setup} /\ errors' = errors
                \/ /\ Strays(gl') \subseteq Strays(gl) \cup {setup}
                   /\ errors' = IF linkable THEN errors + 1 ELSE errors
      PROVE  LInv'
  <2>1. Paid'
    <3>1. CASE Strays(gl') \subseteq Strays(gl) \ {setup} /\ errors' = errors
      <4>1. OthersAfter \subseteq Others /\ errors <= errors'
        BY <1>2, <1>4, <3>1
      <4> QED BY <1>1, <1>2, <1>4, <4>1, PaidStep DEF LInv
    <3>2. CASE /\ Strays(gl') \subseteq Strays(gl) \cup {setup}
               /\ errors' = IF linkable THEN errors + 1 ELSE errors
      <4>1. OthersAfter \subseteq Others \cup {setup}
        BY <1>4, <3>2
      <4>2. errors <= errors' /\ (Owes \/ errors + 1 <= errors')
        BY <1>2, <1>4, <3>2
      <4> QED BY <1>1, <1>2, <1>4, <4>1, <4>2, PaidStep DEF LInv
    <3> QED BY <1>5, <3>1, <3>2
  <2>2. Numbered' /\ Owns(gl)'
    BY <1>1, <1>3, <1>5, <1>2 DEF Numbered, Owns, TypeOK
  <2>3. Replaced'
    BY <1>1 DEF Replaced
  <2>4. errors <= errors'
    BY <1>2, <1>5
  <2>5. Textures'
    BY <1>1, <1>2, <2>4 DEF LInv, Textures, Multi
  <2> QED BY <2>1, <2>2, <2>3, <2>5 DEF LInv
<1>6. CASE Fails /\ UNCHANGED gl
  <2>1. errors' = errors + 1
    BY <1>6, Errors
  <2>2. OthersAfter \subseteq Others \cup {setup}
    BY <1>4, <1>6
  <2>3. errors <= errors' /\ errors + 1 <= errors'
    BY <1>2, <2>1
  <2>4. Paid'
    BY <1>1, <1>2, <1>4, <2>2, <2>3, PaidStep DEF LInv
  <2>5. Numbered' /\ Owns(gl)'
    BY <1>1, <1>3, <1>6 DEF Numbered, Owns
  <2>6. Replaced' /\ Textures'
    BY <1>1, <1>2, <2>1 DEF LInv, Replaced, Textures, Multi
  <2> QED BY <2>4, <2>5, <2>6 DEF LInv
<1>7. CASE \E kinds \in Attached :
             LET made == Created(gl, setup, kinds) IN
             \/ /\ kinds = Kinds /\ linkable /\ Works
                /\ gl' = UseProgram(made, setup)
             \/ (IF linkable THEN Fails ELSE Works) /\ gl' = made
  <2>1. PICK kinds \in Attached :
          LET made == Created(gl, setup, kinds) IN
             \/ /\ kinds = Kinds /\ linkable /\ Works
                /\ gl' = UseProgram(made, setup)
             \/ (IF linkable THEN Fails ELSE Works) /\ gl' = made
    BY <1>7
  <2> DEFINE made == Created(gl, setup, kinds)
  <2>2. kinds \in SUBSET Kinds
    BY DEF Attached, Kinds
  <2>3. /\ Strays(made) \subseteq Strays(gl) \cup {setup}
        /\ made.progs = gl.progs \cup {setup} /\ Owns(made)
        /\ Leaving(made) /\ Bare(made)
        /\ \A k \in kinds : <<setup, k>> \in made.attached
    BY <1>1, <1>3, <2>2, CreateStrays
  <2>4. made \in Contexts
    BY <1>1, <2>2, Creates
  <2>5. \/ kinds = Kinds /\ linkable /\ Works /\ gl' = UseProgram(made, setup)
        \/ (IF linkable THEN Fails ELSE Works) /\ gl' = made
    BY <2>1
  <2> HIDE DEF made
  <2>6. CASE kinds = Kinds /\ linkable /\ Works /\ gl' = UseProgram(made, setup)
    <3>1. /\ Strays(gl') \subseteq Strays(made) \cup {setup}
          /\ gl'.progs \subseteq made.progs /\ Owns(gl') /\ gl'.current = setup
          /\ \A s \in made.attached : s[1] = setup => s \in gl'.attached
      BY <1>1, <2>3, <2>4, <2>6, UseStrays, Uses
    <3>2. \A k \in Kinds : Tended(gl', <<setup, k>>)
      BY <1>1, <2>3, <2>6, <3>1 DEF Tended
    <3>3. setup \notin Strays(gl')
      BY <1>1, <3>1, <3>2 DEF Strays, StrayShader, Watched
    <3>4. errors' = errors
      BY <2>6, Errors
    <3> QED BY <1>5, <2>3, <3>1, <3>3, <3>4
  <2>7. CASE (IF linkable THEN Fails ELSE Works) /\ gl' = made
    <3>1. errors' = IF linkable THEN errors + 1 ELSE errors
      BY <2>7, Errors
    <3> QED BY <1>5, <2>3, <2>7, <3>1
  <2> QED BY <2>5, <2>6, <2>7
<1> QED BY <1>6, <1>7 DEF ShadersToProgram

-----------------------------------------------------------------------------
(* tile.                                                                     *)

(* What every step of a setup of tile keeps.                                 *)
LEMMA TileClose ==
  ASSUME IInv, LInv, ~Multi, UNCHANGED <<user, setup>>, pc' # "link", Owns(gl'),
         gl'.progs \subseteq gl.progs \cup {setup}, Paid', Replaced'
  PROVE  LInv'
<1>1. \A p \in gl.progs : p <= setup
  BY DEF LInv, Numbered
<1>2. setup <= setup
  BY DEF IInv, TypeOK
<1>3. Numbered' /\ Owns(gl)'
  BY <1>1, <1>2 DEF Numbered, Owns
<1>4. Textures'
  BY DEF Textures, Multi
<1> QED BY <1>3, <1>4 DEF LInv

(* A step of tile leaves no stray but the setup under way, or pays for it.   *)
LEMMA TilePaid ==
  ASSUME IInv, IInv', LInv, SettingUp, UNCHANGED <<user, setup>>, Works \/ Fails,
         \/ /\ SettingUp'
            /\ Strays(gl') \subseteq Strays(gl) \cup {setup}
            /\ Owes' => Owes \/ Fails
         \/ /\ SettingUp'
            /\ Strays(gl') \subseteq Strays(gl) \cup {gl.current, setup}
            /\ ~Owes' /\ (Owes \/ Fails)
         \/ /\ ~SettingUp'
            /\ Strays(gl') \subseteq Strays(gl) \cup {setup}
            /\ Owes \/ Fails
         \/ ~SettingUp' /\ Strays(gl') \subseteq Strays(gl) \ {setup}
  PROVE  Paid'
<1>1. errors \in Int /\ TypeOK /\ TypeOK' /\ Paid
  BY DEF IInv, TypeOK, LInv
<1>2. errors <= errors' /\ (Fails => errors + 1 <= errors')
  BY <1>1, Errors
<1>3. /\ Others = Strays(gl) \ {setup}
      /\ OthersAfter = IF SettingUp' THEN Strays(gl') \ {setup} ELSE Strays(gl')
      /\ ~SettingUp' => ~Owes'
  BY DEF Others, OthersAfter, Owes
<1>4. CASE /\ SettingUp' /\ Strays(gl') \subseteq Strays(gl) \cup {setup}
           /\ Owes' => Owes \/ Fails
  <2>1. OthersAfter \subseteq Others
    BY <1>3, <1>4
  <2> QED BY <1>1, <1>2, <1>4, <2>1, PaidStep
<1>5. CASE /\ SettingUp'
           /\ Strays(gl') \subseteq Strays(gl) \cup {gl.current, setup}
           /\ ~Owes' /\ (Owes \/ Fails)
  <2>1. OthersAfter \subseteq Others \cup {gl.current}
    BY <1>3, <1>5
  <2> QED BY <1>1, <1>2, <1>5, <2>1, PaidStep
<1>6. CASE ~SettingUp' /\ Strays(gl') \subseteq Strays(gl) \cup {setup} /\ (Owes \/ Fails)
  <2>1. OthersAfter \subseteq Others \cup {setup}
    BY <1>3, <1>6
  <2> QED BY <1>1, <1>2, <1>3, <1>6, <2>1, PaidStep
<1>7. CASE ~SettingUp' /\ Strays(gl') \subseteq Strays(gl) \ {setup}
  <2>1. OthersAfter \subseteq Others
    BY <1>3, <1>7
  <2> QED BY <1>1, <1>2, <1>3, <1>7, <2>1, PaidStep
<1> QED BY <1>4, <1>5, <1>6, <1>7

(* ShadersToProgram of tile: the current program is to go, the new one is    *)
(* there or an error is owed for it.                                         *)
LEMMA TileProgramLeaks == IInv /\ IInv' /\ LInv /\ TileProgram => LInv'
<1> SUFFICES ASSUME IInv, IInv', LInv, TileProgram PROVE LInv'
  OBVIOUS
<1>1. /\ pc = "link" /\ ~Multi /\ UNCHANGED <<user, setup, loaded, linkable>>
      /\ gl \in Contexts /\ Owns(gl) /\ setup \in Setups
      /\ setup \notin gl.progs /\ setup # gl.current /\ setup # NoProg
      /\ linkable => loaded = Kinds
  <2>1. setup \in Setups /\ gl.current <= setup - 1 /\ gl.current \in Int
    BY SetupThere DEF TileProgram, IInv, Past, Numbers, TypeOK, Contexts, Setups, NoProg
  <2>2. setup # gl.current /\ setup # NoProg
    BY <2>1 DEF Setups, NoProg
  <2>3. setup \notin gl.progs
    BY <2>1 DEF TileProgram, LInv, Numbered, Setups
  <2> QED
    BY <2>1, <2>2, <2>3 DEF TileProgram, frameVars, LInv, Replaced, IInv, TypeOK
<1>2. LET g == Deleted(gl)
      IN /\ g \in Contexts /\ g.current = gl.current /\ g.progs \subseteq gl.progs
         /\ Strays(g) \subseteq Strays(gl) /\ Owns(g) /\ Leaving(g)
  BY <1>1, Deletes, DeleteStrays DEF Deleted
<1>3. CASE /\ Fails /\ pc' = "undo" /\ prog' = NoProg
           /\ gl' \in {gl, Deleted(gl)}
  <2>1. /\ Strays(gl') \subseteq Strays(gl) \cup {setup} /\ Owns(gl')
        /\ gl'.progs \subseteq gl.progs \cup {setup} /\ setup \notin gl'.progs
    BY <1>1, <1>2, <1>3
  <2>2. SettingUp /\ SettingUp'
    BY <1>1, <1>3 DEF SettingUp
  <2>3. Paid'
    BY <1>1, <1>3, <2>1, <2>2, TilePaid
  <2>4. Replaced'
    BY <1>1, <1>3, <2>1 DEF Replaced, Multi
  <2> QED BY <1>1, <1>3, <2>1, <2>3, <2>4, TileClose
<1>4. CASE \E kinds \in Attached :
             /\ gl' = Created(Deleted(gl), setup, kinds)
             /\ prog' = setup
             /\ \/ pc' = "use" /\ Works
                \/ (IF loaded = Kinds THEN Fails ELSE Works) /\ pc' = "undo"
  <2>1. PICK kinds \in Attached :
             /\ gl' = Created(Deleted(gl), setup, kinds)
             /\ prog' = setup
             /\ \/ pc' = "use" /\ Works
                \/ (IF loaded = Kinds THEN Fails ELSE Works) /\ pc' = "undo"
    BY <1>4
  <2>2. kinds \in SUBSET Kinds
    BY DEF Attached, Kinds
  <2>3. LET g == Deleted(gl)
        IN /\ Strays(gl') \subseteq Strays(g) \cup {setup}
           /\ gl'.progs = g.progs \cup {setup} /\ Owns(gl') /\ Leaving(gl')
    BY <1>1, <1>2, <2>1, <2>2, CreateStrays
  <2>4. /\ Strays(gl') \subseteq Strays(gl) \cup {setup} /\ setup \in gl'.progs
        /\ gl'.progs \subseteq gl.progs \cup {setup}
    BY <1>2, <2>3
  <2>5. /\ SettingUp /\ SettingUp' /\ (Works \/ Fails)
        /\ Owes' => Owes \/ Fails
    BY <1>1, <2>1, <2>4 DEF SettingUp, Owes, Owing
  <2>6. Paid'
    BY <1>1, <2>4, <2>5, TilePaid
  <2>7. Replaced'
    BY <1>1, <2>1, <2>3 DEF Replaced, Multi, Leaving
  <2> QED BY <1>1, <2>1, <2>3, <2>4, <2>6, <2>7, TileClose
<1> QED BY <1>3, <1>4 DEF TileProgram, Goto

(* What a program that cannot be used is undone by.                          *)
LEMMA TileUndoLeaks == IInv /\ IInv' /\ LInv /\ TileUndo => LInv'
<1> SUFFICES ASSUME IInv, IInv', LInv, TileUndo PROVE LInv'
  OBVIOUS
<1>1. /\ pc = "undo" /\ ~Multi /\ UNCHANGED <<user, setup, prog>>
      /\ gl \in Contexts /\ Owns(gl)
      /\ prog \in {NoProg, setup} /\ (prog = NoProg => setup \notin gl.progs)
      /\ prog # NoProg => Leaving(gl)
  BY DEF TileUndo, frameVars, setupVars, LInv, Replaced, IInv, TypeOK, Steady
<1>2. SettingUp /\ Owes
  BY <1>1 DEF SettingUp, Owes, Owing
<1>3. CASE Works /\ pc' = "use" /\ gl' = DeleteProgram(gl, prog)
  <2>1. /\ Strays(gl') \subseteq Strays(gl) /\ gl'.progs \subseteq gl.progs
        /\ Owns(gl') /\ (Leaving(gl) => Leaving(gl'))
    BY <1>1, <1>3, DeleteStrays
  <2>2. Paid'
    BY <1>1, <1>2, <1>3, <2>1, TilePaid DEF SettingUp
  <2>3. Replaced'
    BY <1>1, <1>3, <2>1 DEF Replaced, Multi, Leaving
  <2> QED BY <1>1, <1>3, <2>1, <2>2, <2>3, TileClose
<1>4. CASE Fails /\ pc' = "drop" /\ UNCHANGED gl
  <2>1. Strays(gl') \subseteq Strays(gl) /\ gl'.progs \subseteq gl.progs /\ Owns(gl')
    BY <1>1, <1>4
  <2>2. Paid'
    BY <1>1, <1>2, <1>4, <2>1, TilePaid DEF SettingUp
  <2>3. Replaced'
    BY <1>4 DEF Replaced
  <2> QED BY <1>1, <1>4, <2>1, <2>2, <2>3, TileClose
<1> QED BY <1>3, <1>4 DEF TileUndo, Goto

(* The use of the new program.                                               *)
LEMMA TileUseLeaks == IInv /\ IInv' /\ LInv /\ TileUse => LInv'
<1> SUFFICES ASSUME IInv, IInv', LInv, TileUse PROVE LInv'
  OBVIOUS
<1>1. /\ pc = "use" /\ ~Multi /\ UNCHANGED <<user, setup, prog>>
      /\ gl \in Contexts /\ Owns(gl) /\ prog \in Setups \cup {NoProg}
      /\ prog \in {NoProg, setup} /\ (prog = NoProg => setup \notin gl.progs)
      /\ prog # NoProg => Leaving(gl)
  BY DEF TileUse, frameVars, setupVars, LInv, Replaced, IInv, TypeOK, Steady, Setups,
         NoProg
<1>2. SettingUp /\ (Owes <=> ~(prog \in gl.progs /\ linkable))
  BY <1>1 DEF SettingUp, Owes, Owing
<1>3. CASE /\ prog = NoProg \/ (prog \in gl.progs /\ linkable)
           /\ Works /\ pc' = "flag" /\ gl' = UseProgram(gl, prog)
  <2>1. /\ Strays(gl') \subseteq Strays(gl) \cup {gl.current, prog}
        /\ Leaving(gl) => Strays(gl') \subseteq Strays(gl) \cup {prog}
        /\ gl'.progs \subseteq gl.progs /\ Owns(gl') /\ gl'.current = prog
    BY <1>1, <1>3, UseStrays, Uses
  <2>2. SettingUp' /\ Replaced'
    BY <1>3 DEF SettingUp, Replaced
  <2>3. ~Owes'
    BY <1>1, <1>3, <2>1 DEF Owes, Owing
  <2>4. Paid'
    <3>1. CASE prog = NoProg
      <4>1. NoProg \notin Setups /\ Strays(gl') \subseteq Setups
        BY DEF NoProg, Setups, Strays
      <4>2. Strays(gl') \subseteq Strays(gl) \cup {gl.current, setup}
        BY <2>1, <3>1, <4>1
      <4>3. prog \notin gl.progs
        BY <1>1, <3>1, <4>1 DEF Contexts
      <4> QED BY <1>1, <1>2, <1>3, <2>2, <2>3, <4>2, <4>3, TilePaid
    <3>2. CASE prog # NoProg
      <4>1. Strays(gl') \subseteq Strays(gl) \cup {setup}
        BY <1>1, <2>1, <3>2
      <4> QED BY <1>1, <1>2, <1>3, <2>2, <2>3, <4>1, TilePaid
    <3> QED BY <3>1, <3>2
  <2> QED BY <1>1, <1>3, <2>1, <2>2, <2>4, TileClose
<1>4. CASE /\ (Works /\ ~(prog \in gl.progs /\ linkable)) \/ Fails
           /\ pc' = "error" /\ UNCHANGED gl
  <2>1. Strays(gl') \subseteq Strays(gl) /\ gl'.progs \subseteq gl.progs /\ Owns(gl')
    BY <1>1, <1>4
  <2>2. ~SettingUp' /\ Replaced'
    BY <1>4 DEF SettingUp, Replaced
  <2>3. Paid'
    BY <1>1, <1>2, <1>4, <2>1, <2>2, TilePaid
  <2> QED BY <1>1, <1>4, <2>1, <2>2, <2>3, TileClose
<1> QED BY <1>3, <1>4 DEF TileUse, Goto

(* The fragment shader of the program in use is marked, one of no program is *)
(* gone.                                                                     *)
LEMMA TileShadersLeaks == IInv /\ IInv' /\ LInv /\ TileShaders => LInv'
<1> SUFFICES ASSUME IInv, IInv', LInv, TileShaders PROVE LInv'
  OBVIOUS
<1>1. /\ pc \in {"drop", "flag"} /\ ~Multi /\ UNCHANGED <<user, setup>>
      /\ gl \in Contexts /\ Owns(gl) /\ SettingUp
  BY DEF TileShaders, TileDeleteShader, frameVars, setupVars, LInv, IInv, TypeOK,
         Steady, SettingUp
<1>2. CASE Fails /\ pc' = "error" /\ UNCHANGED gl
  <2>1. Strays(gl') \subseteq Strays(gl) /\ gl'.progs \subseteq gl.progs /\ Owns(gl')
    BY <1>1, <1>2
  <2>2. ~SettingUp' /\ Replaced'
    BY <1>2 DEF SettingUp, Replaced
  <2>3. Paid'
    BY <1>1, <1>2, <2>1, <2>2, TilePaid
  <2> QED BY <1>1, <1>2, <2>1, <2>2, <2>3, TileClose
<1>3. CASE pc = "drop" /\ Works /\ pc' = "flag"
           /\ gl' = DeleteShaders(gl, Made(setup, {"vertex"}))
  <2>1. Strays(gl') \subseteq Strays(gl) /\ gl'.progs \subseteq gl.progs /\ Owns(gl')
    BY <1>1, <1>3, FlagStrays
  <2>2. SettingUp' /\ Replaced' /\ Owes
    BY <1>1, <1>3 DEF SettingUp, Replaced, Owes, Owing
  <2>3. Paid'
    BY <1>1, <1>3, <2>1, <2>2, TilePaid
  <2> QED BY <1>1, <1>3, <2>1, <2>2, <2>3, TileClose
<1>4. CASE pc = "flag" /\ Works /\ pc' = "polygon"
           /\ gl' = DeleteShaders(gl, Made(setup, {"fragment"}))
  <2>1. /\ Strays(gl') \subseteq Strays(gl) /\ gl'.progs \subseteq gl.progs /\ Owns(gl')
        /\ gl'.current = gl.current
        /\ \A s \in gl'.shaders : s \in Made(setup, {"fragment"}) =>
             s \in gl'.attached /\ s \in gl'.flagged
    BY <1>1, <1>4, FlagStrays, Flags
  <2>2. ~SettingUp' /\ Replaced'
    BY <1>4 DEF SettingUp, Replaced
  <2>3. ASSUME Owes PROVE Paid'
    BY <1>1, <1>4, <2>1, <2>2, <2>3, TilePaid
  <2>4. ASSUME ~Owes PROVE Paid'
    <3>1. setup \notin gl.progs \/ setup = gl.current
      BY <1>1, <1>4, <2>4 DEF Owes, Owing
    <3>2. <<setup, "fragment">> \in gl'.shaders => Tended(gl', <<setup, "fragment">>)
      <4> SUFFICES ASSUME <<setup, "fragment">> \in gl'.shaders
                   PROVE  Tended(gl', <<setup, "fragment">>)
        OBVIOUS
      <4>1. <<setup, "fragment">> \in gl'.attached /\ <<setup, "fragment">> \in gl'.flagged
        BY <2>1 DEF Made
      <4>2. setup \in gl'.progs
        BY <2>1, <4>1 DEF Owns
      <4> QED BY <2>1, <3>1, <4>1, <4>2 DEF Tended
    <3>3. setup \notin Strays(gl')
      BY <1>1, <2>1, <3>1, <3>2 DEF Strays, StrayShader, Watched
    <3>4. Strays(gl') \subseteq Strays(gl) \ {setup}
      BY <2>1, <3>3
    <3> QED BY <1>1, <1>4, <2>2, <3>4, TilePaid
  <2>5. Paid'
    BY <2>3, <2>4
  <2> QED BY <1>1, <1>4, <2>1, <2>2, <2>5, TileClose
<1> QED BY <1>2, <1>3, <1>4 DEF TileShaders, TileDeleteShader, Goto

-----------------------------------------------------------------------------
(* Every step keeps the account.                                             *)
LEMMA NextLInv == IInv /\ LInv /\ [Next]_vars => LInv'
<1> SUFFICES ASSUME IInv, LInv, Next \/ UNCHANGED vars PROVE LInv'
  OBVIOUS
<1>1. IInv'
  BY NextIInv
<1>2. CASE UNCHANGED vars
  BY <1>2 DEF vars, frameVars, setupVars, texVars, errVars, LInv, Paid, Owes, Owing,
              Others, SettingUp, Strays, StrayShader, Tended, Watched, Multi, Owns,
              Numbered, Replaced, Leaving, Bare, Textures
<1> QED
  BY <1>1, <1>2, FrameLeaks, TextureLeaks, DeleteLeaks, LoadLeaks, LinkLeaks,
     TileProgramLeaks, TileUndoLeaks, TileUseLeaks, TileShadersLeaks
  DEF Next, Ended

(* Between frames the strays are paid for, and what is no stray is the       *)
(* current program or a shader of it.                                        *)
LEMMA LeaksCounted == IInv /\ LInv => LeaksAreFailures
<1> SUFFICES ASSUME IInv, LInv, pc = "frame" PROVE LeaksAreFailures
  BY DEF LeaksAreFailures
<1>1. gl \in Contexts /\ errors \in Nat
  BY DEF IInv, TypeOK
<1> DEFINE S == Strays(gl)
           C == S \cup {gl.current}
<1>2. S \in SUBSET Setups
  BY DEF Strays
<1>3. Cardinality(S) <= errors
  BY DEF LInv, Paid, Owes, Others, SettingUp
<1>4. /\ IsFiniteSet(S) /\ Cardinality(S) \in Nat
      /\ \A A \in SUBSET Setups : A \subseteq S => Cardinality(A) <= Cardinality(S)
  BY <1>2, Counts
<1>5. /\ IsFiniteSet(C)
      /\ Cardinality(C) \in {Cardinality(S), Cardinality(S) + 1}
  BY <1>4, FS_AddElement
<1>6. Cardinality(C) \in Nat /\ Cardinality(C) <= errors + 1
  BY <1>1, <1>3, <1>4, <1>5
<1>7. Cardinality(gl.progs \ {gl.current}) <= errors
  <2>1. gl.progs \ {gl.current} \in SUBSET Setups /\ gl.progs \ {gl.current} \subseteq S
    BY <1>1 DEF Contexts, Strays
  <2>2. Cardinality(gl.progs \ {gl.current}) <= Cardinality(S)
    BY <1>4, <2>1
  <2>3. Cardinality(gl.progs \ {gl.current}) \in Nat
    BY <2>1, Counts
  <2> QED BY <1>1, <1>3, <1>4, <2>2, <2>3
<1>8. \A s \in gl.shaders : s = <<s[1], s[2]>> /\ s[1] \in Setups /\ s[2] \in Kinds
  BY <1>1 DEF Contexts, Shaders
<1>9. \A s \in gl.shaders : s[2] \in Watched => s[1] \in C
  BY <1>8 DEF Strays, StrayShader, Tended
<1> HIDE DEF S, C
<1>10. ASSUME Multi PROVE Cardinality(gl.shaders) <= 2 * (errors + 1)
  <2>1. gl.shaders \in SUBSET (C \X Kinds)
    BY <1>8, <1>9, <1>10 DEF Watched
  <2>2. IsFiniteSet(Kinds) /\ Cardinality(Kinds) = 2
    <3>1. IsFiniteSet({"vertex"}) /\ Cardinality({"vertex"}) = 1
      BY FS_Singleton
    <3>2. "fragment" \notin {"vertex"}
      OBVIOUS
    <3>3. /\ IsFiniteSet({"vertex"} \cup {"fragment"})
          /\ Cardinality({"vertex"} \cup {"fragment"}) = 2
      BY <3>1, <3>2, FS_AddElement
    <3>4. Kinds = {"vertex"} \cup {"fragment"}
      BY DEF Kinds
    <3> QED BY <3>3, <3>4
  <2>3. IsFiniteSet(C \X Kinds) /\ Cardinality(C \X Kinds) = Cardinality(C) * 2
    BY <1>5, <2>2, FS_Product
  <2>4. Cardinality(gl.shaders) <= Cardinality(C) * 2 /\ IsFiniteSet(gl.shaders)
    BY <2>1, <2>3, FS_Subset
  <2>5. Cardinality(gl.shaders) \in Nat
    BY <2>4, FS_CardinalityType
  <2> QED BY <1>1, <1>6, <2>4, <2>5
<1>11. ASSUME ~Multi
       PROVE  Cardinality({s \in gl.shaders : s[2] = "fragment"}) <= errors + 1
  <2> DEFINE F == {s \in gl.shaders : s[2] = "fragment"}
  <2>1. F \in SUBSET (C \X {"fragment"})
    BY <1>8, <1>9, <1>11 DEF Watched
  <2>2. IsFiniteSet({"fragment"}) /\ Cardinality({"fragment"}) = 1
    BY FS_Singleton
  <2>3. IsFiniteSet(C \X {"fragment"}) /\ Cardinality(C \X {"fragment"}) = Cardinality(C) * 1
    BY <1>5, <2>2, FS_Product
  <2> HIDE DEF F
  <2>4. Cardinality(F) <= Cardinality(C) * 1 /\ IsFiniteSet(F)
    BY <2>1, <2>3, FS_Subset
  <2>5. Cardinality(F) \in Nat
    BY <2>4, FS_CardinalityType
  <2>6. Cardinality(F) <= errors + 1
    BY <1>1, <1>6, <2>4, <2>5
  <2> QED BY <2>6 DEF F
<1> QED BY <1>7, <1>10, <1>11 DEF LeaksAreFailures, LInv, Textures

(* Whatever fails, between frames every program, shader and, in multi,       *)
(* texture that is not in use is that of a call that failed.                 *)
THEOREM LeaksAreFailuresHolds == Spec => []LeaksAreFailures
<1>1. Init => LInv
  BY InitLInv
<1>2. IInv /\ LInv /\ [Next]_vars => LInv'
  BY NextLInv
<1>3. IInv /\ LInv => LeaksAreFailures
  BY LeaksCounted
<1> QED BY <1>1, <1>2, <1>3, Invariance, PTL DEF Spec
=============================================================================
