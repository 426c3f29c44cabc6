# A TLA+ development of pwielders/domotica

The repository is a buildroot external tree: recipes, defconfigs and board
files, with a few programs and scripts of its own. The programs are
`addon/package/libdrm-examples/src/drm-prime-{simple,tile,multi}.cpp`. They pass
graphics buffers between processes (dma-buf file descriptors over a socket
pair), draw in them on one side and bring them on the screen on the other. That
is where processes interleave, calls fail and buffers change hands, and that is
what this development is about. M, S and T stand for the three files below.

## 1. The system

### drm-prime-multi (M)

`main` (M:2759-2822) makes one socket pair, forks two render clients and becomes
the compositor. The processes share the socket and the buffers, no memory.

| part | state | operations | hard |
|---|---|---|---|
| `Compositor` (666-709, 2580-2757) | the loop of `Run`; the image slots of `EGL` | `AwaitRequestCreateSharingBuffer`, `CreateSharedBuffer`, `ShareBuffer`, `AwaitRequestCompleteSharingBuffer`, `Render` | the operator's answers arrive in an order of their own |
| `RenderClient` (625-663, 2469-2578) | `_prime` of the received buffer, image slot 0, its open fds | `Run`, `Render`, `DestroyRemoteBuffer` | two clients read one socket end; end of stream |
| `Base` (563-623, 711-1133) | the socket ends | `Send`, `Receive`, `ShareBuffer`, `ReadKey` | blocking send, SIGPIPE, a message without its fd |
| `DRM` (140-386, 1145-1463) | fd, crtc, connector, encoder, `_fb` | `Init`, `Deinit`, `ValidModeSet`, `ScanOut` | asynchronous page flip, the event wait, EINVAL before the first mode set |
| `DRM::GBM` (197-330, 1465-1646) | device, surface, locked `_buf`, `_prime` | `Lock`, `Unlock`, `CreatePrime`, `DestroyPrime`, `ImportPrime` | a step of several failing |
| `EGL` (388-470, 1648-1908) | display, context, `_img` slots | `ImportBuffer`, `Render` | an image replaced while others stay |
| `GLES` (472-561, 1910-2467) | program, texture, geometry | `RenderTile`, `RenderTriangle`, `SetupProgram` ... | recovery after a GL error |

The compositor asks the operator (`ReadKey` on stdin), creates a buffer, sends
its fd, asks which client got it, makes it an image of that client's slot,
composes all slots and scans the result out. A client blocks in `Receive`,
imports, draws, and receives again.

*Correct* means: no buffer is drawn in by two clients; no buffer object is lost;
a slot shows a buffer of its own client and never goes back to an older one;
nobody blocks for ever; everybody ends when the compositor ends; a frame that
counts as scanned out is on the screen; EGL never draws in a buffer the kernel
is about to show; a process that draws has what it needs, and one that exits has
released it, once and in the right order, wherever the start-up failed; a GL
error of one frame does not end all later ones.

### drm-prime-simple (S) and drm-prime-tile (T)

Two processes and one socket pair. The child draws a frame for each `c` the
operator types, locks it, exports it and sends the fd; the parent receives,
imports and scans out. In S the parent shows the child's buffer itself, in T it
draws the received image on a surface of its own. Both start with `Init`,
`FindModeSet` and the exchange of the drm mastership, and end with `Deinit`.
*Correct* means: the child does not draw over what is under way or on the screen;
the parent leaks no fd and no buffer, whatever fails; every frame is shown; each
process ends after the other; the child does not keep the parent from the screen.

### Scripts

`board/explora/wpeframework.sh` copies the root file system to flash at its first
start and binds the copy at every one. `board/raspberrypi/post-build.sh` edits
files in place that an earlier build may have edited; `S80Bridge`, `S70nxserver`
and `S11*` start and stop daemons. *Correct* means: an interrupted copy is
completed, a second build changes nothing, one daemon runs after a restart.

### The rest

Package recipes, defconfigs, device trees, kernel fragments and patches are
declarations for buildroot and kconfig or changes to third-party programs. They
have no behaviour of their own and are not modelled.

The hazards of this code, each with its line and the properties that cover it,
are listed in `PROJECT.json`.

## 2. Modules

| module | models | status |
|---|---|---|
| `PrimeSharing` | M: every process, the socket, the prime buffers, the image slots | checked, proved |
| `Handoff` | the promise: a buffer goes to one client at most, oldest first | implemented by `PrimeSharing`, proved |
| `ScanOut` | M: swap, lock, framebuffer, page flip, event wait, unlock; the kernel | checked, proved |
| `Display` | the promise: a frame is rendered only when the one before is on the screen | implemented by `ScanOut`, proved |
| `PrimePair` | S and T (`tile`): both processes, the socket, the kernel | checked, proved |
| `ModeSet` | M, S, T: the search for a connector, an encoder and a crtc | part of `StartUp` |
| `StartUp` | M, S, T: `Init` and `Deinit` of every layer in both processes, drm mastership | checked, proved |
| `GlesObjects` | M, T: programs, shaders and textures over frames and slots while GL calls fail | checked, proved |
| `ExploraOverlay` | the first start of the explora board, its interruption, later starts | checked, proved |
| `PrimeSharing_proofs`, `SharingTruth_proofs`, `ScanOut_proofs`, `PrimePair_proofs`, `StartUp_proofs`, `GlesObjects_proofs`, `GlesLeaks_proofs`, `ExploraOverlay_proofs` | the theorems | proved |
| `MCPrimeSharing`, `MCScanOut`, `MCPrimePair`, `MCStartUp` | the faults and the cards the cfgs choose from | |

`StartUp` composes `ModeSet` with the layers; the other modules start where it
ends, at `run`, and model each what one loop of the programs does with the
objects built there.

### PrimeSharing

A buffer is named by the number of its creation. `NoBuf` = 0 is every invalid
value (`InvalidFd`, `InvalidBuf`, `InvalidImage`).

| variable | code |
|---|---|
| `cpc` | where `main` and `Compositor::Run` are; `exit`, `failed`, `killed` tell how the process ended |
| `numChilds` | `_numchilds` of `main` |
| `key`, `cin` | the last answer of `ReadKey`; whether `std::cin` is still good |
| `prime`, `bos` | `GBM::_prime` (buffer and fd); the buffer objects alive |
| `img`, `index` | the slots of `EGL::_img`; `_index` of the prompt and of `Render` |
| `sock` | the messages in the clients' end |
| `pc`, `cprime`, `fds`, `cimg` | per client: where `Run` is, `_prime`, the open fds, image slot 0 |
| `created`, `receiver`, `honest` | history: buffers made; which client received a buffer; whether every answer of the operator named the client that had |

An action is one call of `Run`: `Fork`, `Construct`,
`AwaitRequestCreateSharingBuffer`, `CreateSharedBuffer`, `ShareBuffer`,
`AwaitRequestCompleteSharingBuffer`, `ImportBuffer`, `RenderSlot` (one turn of
the loop of `Render`), `Present`; for a client `StartClient`, `Receive`,
`ReceiveEof`, `Import`, `Render`. The calls interact with other processes
through the socket only, so a call is one atomic step. `KillCompositor` and
`KillClient` are signals. `Faults` says which calls may fail. A buffer with more
than one plane fails after `_prime` has its object (M:1628) and before it has an
fd, and `DestroyPrime` releases nothing without an fd: such a buffer is lost if
another one is made. `CreateSharedBuffer` therefore only notes a failure
(`giveUp`), with what it leaves in `prime` and `bos`, and `GiveUp`, the end of
`Run`, is a step of its own. `BoNotLost` says that no buffer is made in between.

External: the kernel's socket. A send blocks while the socket is full, raises
SIGPIPE when no process has the other end open; a receive reports the end of the
stream when no process has the sending end open, a forked client that has not
closed its copy included; without a free descriptor the fd of a message is lost.

### ScanOut

One frame of the compositor: `Render` (eglSwapBuffers), `Lock`, `AddFb`,
`PageFlip`, `HandleEvent`/`WaitNoEvent`/`WaitDone` (the loop around pselect),
`SetCrtc` (the EINVAL branch), `Done`, `Unlock`. `member` and `fb` are the two
variables the code calls `_fb`: the member and the local one that hides it.
`waiting` is the static `_callback_data`. External: `VerticalBlank`, the
kernel's flip at a moment of its own, and the surface, from which EGL takes any
buffer that is not locked. `ScanOut` implements `Display`: rendering is `Display!Render`,
the vertical blank and the mode set are `Show`, an error is `Stop`.

### PrimePair

One module for S and T, which differ in what the parent does with a frame;
`tile`, which no step changes, says which of the two runs. `word`, the size of a
`size_t`, and `faults`, whether calls may fail in this behaviour, are chosen at
the start too, so that one run covers all combinations. A frame is named by the
number of its drawing, a framebuffer by its frame. `content` records which frame
each of the child's buffers holds, so that drawing over a frame is visible;
`boOf` which buffer a frame was exported from; `rest` the bytes of a message for
which the parent's receive buffer, `word` bytes long, had no room (`MsgLen`).
`flag` is the static `_callback_data`, here never set again. `ReadKey`, `Draw`,
`Export`, `Send` are the child; `ClosePrime`, `Receive`, `ReceiveNothing`,
`ReceiveFails`, `Import`, `PageFlip`, `HandleEvent`, `WaitTimeout`, `LeaveWait`,
`WaitFails`, `SetCrtc` the parent. External: the socket, the surface, the kernel,
which keeps `EventSpace` unread events and refuses a flip beyond them; signals.

### ModeSet and StartUp

`ModeSet` takes the loop over the connectors one turn per step. A card is any
choice of connected connectors, of their encoders and of the encoders' crtcs.
`ValidModeSetTurn` overwrites connector, encoder and crtc at each connector with
an encoder and breaks once all three are valid; `FindModeSetTurn` stops at the
first connector with an encoder, crtc or not. `ValidModeSet` answers true when it
has found nothing; `ScanOut` is what fails then.

`StartUp` has two processes, `screen` (Compositor, Parent) and `drawer`
(RenderClient, Child), and two programs, `multi` (M) and `pair` (S, T). `pc` names
the layer a process builds (`drm`, `search`, `gbm`, `egl`, `master`), `run`, or the
layer it takes down (`egl-`, `fd-`, `gbm-`), in the order of the program. `held`
are the handles that are not invalid, `alive` the objects there are: a handle of
a dead object and an object without a handle are the two things that go wrong.
What the code does and the model shows:

- in M a layer that fails does not keep the next one from being built on it;
  `EGL::Init` prints the failures of single calls and looks at `eglSwapBuffers`
  at its end, which fails if anything before it did;
- `Init` of the pair learns of EGL only from `eglMakeCurrent`, which takes no
  context and no surface as well: with a failed `eglCreateContext` and
  `eglCreateWindowSurface` Init is true, and the first frame fails. `ReadyToRun`
  therefore promises less for the pair;
- `DRM::Deinit` closes the fd before `_gbm` is destroyed, which needs it; the
  window of the pair outlives its gbm surface, as that of M does where the driver
  has no contexts without a surface. `LayersStand` leaves these out by name, so
  that of M it says what stands on the device, not on the fd;
- parent and child of the pair both open the card, and the first one is master.
  If that is the child, the parent's `drmSetMaster` is refused until the child's
  `drmDropMaster`; either call may fail besides. Both programs print the
  error and go on: the child draws as master (S:743-745, T:1023-1025), the parent
  scans out without being it (S:843-845). `refused` records who got an error.
  `RightMaster` promises that a child that draws as master has been told so, and
  that a parent that is not master has been told so and did not come first. No other
  program with the mastership is assumed.

Objects made while running (framebuffers, locked buffers, images) belong to the
other modules.

### GlesObjects

What `RenderEGLImage` makes and destroys for each image it draws, with `user` the
compositor, which draws one image per slot, a client or the tile's parent, which
draw one. `gl` is the state GL keeps: the current program, programs marked for
deletion, what is attached to what; `Reap` is the rule that what is marked goes
when nothing uses it. `setup` numbers the programs; `pending` is an error that
`glGetError` has not returned yet; `tex` says whether `_tex[0]`, with which M draws
the images of all slots, names a texture, and `lost` counts the textures whose name
nobody has.
`errors` counts the calls that failed, `since` the images begun since the last.
An action is one of the functions and lambdas of `SetupProgram`
(`DeleteCurrentProgram`, `LoadShaders`, `ShadersToProgram`, `Blend`,
`ColourOnError`), of the tile's `SetupGLProgram` (`TileProgram`, `TileUndo`,
`TileUse`, `TileShaders`), or the texture, the polygon, the frame around them;
each says which of its calls fails. What the code does and the model shows:

- after a failure the clear colour is set to red, and setting it turns the
  failure into success; drawing goes on with the program that is current, marked
  or without shaders as it may be. In M the red is never seen, for `RenderColor`
  sets a colour of its own before it clears; in T it is the background of the next
  frame;
- two errors in the loop that detaches the shaders leave one behind, which ends
  that image and is gone for the next;
- once its shaders are detached, the current program of M cannot be deleted any
  more: `DeleteCurrentProgram` takes a program without shaders for an error, and
  `SetupProgram` loads no others then (M:2440-2448). It stays current as long as the
  context is there, and every later image is drawn with it, without an error.
  A program whose setup failed before it was used is left behind as well.
  `LeaksAreFailures` says that it takes a failed call for each program or shader that
  is left; the textures and vertex shaders that T leaves with every image, no call
  failing (T:924), are not part of it;
- each slot clears the whole surface, so that of the images of a frame only the
  last one stays. Pixels are not modelled.

### ExploraOverlay

`dest` (`DESTINATION` is there), `made`, `copied` and `added` (the programs, and
the links of each directory) are on flash and survive `PowerLoss`; `bound`, the
mounts, do not. `Start` looks at `dest` as the script does. Each `mkdir`, `cp` and
`mount` is a step, the links of one directory are one (`Links`, in the order in
which the script finishes them). The script looks at no result, so any of them
may fail and the script goes on (`Faults`); one whose directory is not there fails
in any case. `mkdir -p` and the copy of the programs may make `DESTINATION` alone.

## 3. Runs

`MaxBuffers`, `MaxFrames`, `SocketCap`, `FdLimit`, `EventSpace`, `MaxSetups`,
`MaxErrors` and `MaxStarts` bound what the code does not; every other constant has
the value of the code, or less.

| run | question | bounds and why they are enough |
|---|---|---|
| `sharing_faults` | `OneReceiver`, `BoNotLost`, `DistinctSlots`, `SlotsAdvance`, `SlotOfClient`, `ShownIsDrawn`, the inductive invariant, `Handoff`, `ClientsFollow`, `SendReturns`, `TransitEnds`, `AnswerComes`; every call may fail, every process may be killed | two clients and two slots as in the code; three buffers: one shown, one under way, one being made; a socket of two messages, so that the third send blocks; two fds, so that a client runs out |
| `scanout` | `FrameSettled`, `LockedWhilePending`, the inductive invariant, `Display`, `WaitEnds`, `EveryFrameShown`; every call may fail | three buffers, four frames: a buffer comes round again; a crtc with a mode and one without |
| `pair_faults` | `OnePrime`, `BoReturned`, the inductive invariant, `SentIntact`, `ShownIntact`, `ScreenAdvances`, `ParentFollows`, `SendReturns`, `WaitEnds`, `EveryFrameShown`, S and T, words of 4 and 8 bytes, with every call allowed to fail and with none | two buffers, the fewest with which the child can draw while one is locked; four frames, so that each comes round again; a socket of one message, so that a send blocks; room for two events, so that the third flip is refused and a frame follows it |
| `startup` | `SearchFinds`, `ReadyToRun`, `LayersStand`, `NothingLeft`, `RightMaster`, `Settles`; both programs, every call may fail, every process may be killed | every card with two connectors, two encoders and a crtc: a connector without a crtc before one that has it; both processes of a program |
| `gles` | `Recovers`, `KeepsDrawing`, `LeaksAreFailures`; every user, every GL call may fail | eight setups: four frames of two slots, so that what is left of one is met by the next three; four failing calls, two more than the loop over the shaders can set aside |

Each run also checks the type invariant, `sharing_faults` and `pair_faults` as the
first part of the inductive one. Deadlock is checked in every run. A
process that has ended stays so (`Finished`, `Ended`), which is the only way the
models stop.

Runs that show where the code and what it says disagree:

| run | what it shows |
|---|---|
| `sharing_quit` | `q` at the second prompt of M imports the buffer in slot 0 and renders |
| `sharing_answer` | a true answer (client 2 first) ends the compositor with an error |
| `sharing_fds` | a client keeps the fd of every buffer it received |
| `scanout_fbs` | the previous framebuffer is never removed |
| `pair_wait` | from the second frame on S and T do not wait for their page flip |
| `pair_word` | with 4-byte words the parent of S and T ends after its first frame |
| `overlay` | after power was lost during the copy the explora board binds incomplete directories at its second start, without any call of the script failing (`Faults` is empty) |

Both prompts of M also say that Enter quits, where `ReadKey` answers `0xD` and the
loop goes on (M:2665, M:2701): the action's disjunct for `Enter` shows it.

`SlotOfClient` and `ShownIsDrawn` are about an operator whose answers are true;
`honest` stays true as long as they are, so that the invariants say nothing after a
false one and everything up to it. `SlotOfClient` says whose buffer a slot shows,
`ShownIsDrawn` that it is the one its client draws in now: no running client is left
out of a frame, and none is shown by a buffer it has given up.

`ShownIntact` and `EveryFrameShown` of `PrimePair` are about behaviours in which no
call fails (`faults` is empty) and an operator who
types when the last frame is shown (`hasty` records the first time that was not
so). A hasty one makes the child draw in the buffer on the screen, with two
buffers as with three: the child knows only which buffer it has locked, not
which one the parent shows. `EveryFrameShown` needs room for the unread events
besides: see the hazard at S:222. `EveryFrameShown` of `ScanOut` says that a frame
is shown or is the last one; without "is the last one" the bound on the frames,
which ends the compositor, would make it true.

### Fairness

Weak fairness of each process: the kernel schedules them, and every action is a
call that returns or a wait whose condition stays true once it is (the end of
the stream, a message only this process may take, an event nobody else reads).
Two clients compete for a message, so no fairness is asked of who gets it.
Weak fairness of `VerticalBlank`: the display keeps scanning. None of the
operator or of signals; and a call that waits may fail but is never made to:
`WaitFails` of both modules and `ReceiveFails` are excluded from the fairness, so
that no wait ends by an error that fairness forced. In `StartUp` each process's
`Step` is weakly fair: opening, building and taking down are calls that return.
`Leave` (the operator or the other process ends the loop), `SearchRefused` and
signals are not, so `Settles` shows that the search itself ends.

## 4. Proofs

Everything below holds for every value of the constants that satisfies the
named assumptions (`PrimeSharingAssumption`, `ScanOutAssumption`,
`PrimePairAssumption`, `ModeSetAssumption`, `StartUpAssumption`, `GlesAssumption`:
natural numbers, at least one client, slot, buffer, byte, faults among the known
ones, cards that are cards).

**PrimeSharing.** None of the properties is inductive. `OneReceiver` needs to
know that a message in the socket has no receiver yet, that the socket is in the
order of creation (so that its head is in it once), and that the buffer about to
be sent is newer than all of these; `DistinctSlots` and `SlotsAdvance` need that
the buffer about to be imported is the newest and that no slot is ahead of it.
`BoNotLost` is kept by the failures of a creation because the compositor makes no
other one after them: nothing but `GiveUp` is left at `giveUp`.
`IInv` is the conjunction of these parts: `SockOrdered`, `SockFresh`,
`NotYetReceived`, `FdsReceived`, `ShareFresh`, `PrimeNewest`. The proof has a lemma
per action. `OneReceiverHolds`, `BoNotLostHolds`, `DistinctSlotsHolds` follow from
`Invariance`, `SlotsAdvanceHolds` and `Refinement` from `Invariance` and one more
case analysis over the actions. `SlotOfClient` has an invariant of its own on top of
`IInv`: an answer that was true stays true until the import (`AnsweredTrue`),
because what a client receives had no receiver before (`SockFresh`) and so is in no
slot.

What true answers give is the subject of `SharingTruth_proofs`. It takes two more
invariants. `Knows` holds of any operator: a running client has exactly one open fd
for each buffer it ever received (`FdsKeptHolds`, which is the leak of `sharing_fds` in full),
draws in the newest of them, and nothing under way is older than what anybody has
received; hence `ClientsAdvance` and `ReceivedOnce`. `Shown` adds the true answers:
outside the second prompt the socket is empty, and what a running client draws in
is in its slot or is the buffer the prompt is about. The step that matters is the
answer, and it needs the newest buffer to be what its receiver draws in
(`NewestDrawn`). From `Shown` follow `ShownIsDrawnHolds`, `SendNeverBlocks` (the
socket never fills up, however small: an operator who waits for the receiver waits
for the socket, too) and `TrueAnswerNeedsFirst`, which says when the claim of the
prompt that `sharing_answer` refutes is true after all: as soon as the first client,
whose slot is the one that must not be empty, has a buffer.

The refinement maps the state to the owner of each buffer: not made, with the
compositor, in the socket, with a client, or gone. Every step of `PrimeSharing`
is a step of `Handoff` or leaves all owners alone.

**ScanOut.** `FrameSettled` and `LockedWhilePending` follow from `IInv`, which says
for each place in `ScanOut` which of three things holds of the flip asked for:
it is pending, done and not yet read, or settled. The argument turns on the wait
loop: `ret` becomes true only by reading the one event there is, and after an
error the compositor ends, so no event is left for a later frame. `NeverBusy` is
a consequence: the EBUSY branch is never taken. The refinement of `Display` maps the
framebuffer on the crtc to the frame it was made of; it needs `Newest` besides: the
framebuffer in hand, the pending one and, at the head of the loop, the one on the
screen are those of the last frame rendered. What the refinement means for the
viewer is `NoFrameSkipped`: the screen moves on by one frame or not at all.
`OneFbPerFrame` counts what `scanout_fbs` finds: the framebuffers are exactly those
of the frames rendered so far, so that there is one more with every frame and the
comment on removing the previous one holds up to the second.

**PrimePair.** The invariant has five parts; all but the last need nothing but themselves and the types.
`Typed`: the types, and `InHand`, which says that there is a frame where one is
used and room for the event of a pending flip. `Tidy`: `OnePrime`, `BoReturned`
and `Clean`, which says that nothing is left of a frame when the next one is
received, so that the new fd is the only one. `Intact`: `SentIntact` and
`SentLocked`, which says that the frame sent last is in the buffer the child has
locked, until the next one has been drawn elsewhere and is about to be sent; it
holds while there is a parent, and if lock and export do not fail, which
`SentIntact` says itself. `InOrder`: from the screen over the pending flip, the
parent and the socket to the child every frame is newer than those ahead of it, with
any operator and any failure. `ScreenAdvances` follows, although later flips are not
waited for and a mode set may follow a refused flip: the kernel takes no second flip
while one is pending, a mode set waits for the pending one, and the frame in hand is
newer than both the pending one and the screen. `Seen`, which needs the others: `ShownIntact`;
`InOnePlace`, which says that with a patient operator the frame sent last is in one
place only (socket, parent, pending flip or screen) and the screen is not more than
one frame behind; and `SentWhenShown`: from the moment a patient operator has asked
for a frame until it is sent the screen shows the one before, so that `SentIntact`
is about the buffer on the screen. `PatientDisplay` puts it as the refinement of the
promise M keeps: as long as the operator is patient and no call fails, each step of
S is one of `Display` or leaves drawing and screen alone.

Three theorems say exactly when the findings about S and T bite.
`ParentStaysWithRoom`: with a `size_t` as long as the message the parent stays, so
that `pair_word` is about the word size alone. `FirstFrameAwaited`: until the static
flag is cleared ScanOut does wait, if pselect and drmHandleEvent do not fail.
`ScreenFreezes`: once the flag is cleared and the space for events is full, with a mode
on the crtc and no call failing, nothing but the end of the parent changes the
screen, whatever the child sends. The proof needs of a frozen state only that no
step but a refused flip is left.

**StartUp.** The invariant says, layer by layer and for each place of a process,
which handles it has, which objects exist and what is current: a handle names a
living object except where the take-down is about to forget it, and an object
without a handle is a bound context or window. The search has an invariant of its
own: of the connectors passed over none was on the screen (M), or had an encoder
(S, T). `RightMaster` needs that a master has the card open, that nobody else becomes
master as long as the opener has it open, and that a parent that came first stays
master, since no child drops what it does not have; a call that fails is in `refused`.
`RunsOnScreen` compares the two
searches over all cards: the compositor finds a crtc if the card has one on any
connected connector; the pair settles for the first connected connector and runs
without a crtc when that one has none.

**GlesObjects.** `Recovers` and `KeepsDrawing` are about steps and follow from what
holds at each place of `RenderEGLImage`, given how long ago the last call failed:
how far the setup has come (`Steady`), that no shader of the current program is
marked (`Settled`: such a one could be detached, but not deleted), and that nothing
bears the number of a setup to come (`Past`). `LeaksAreFailures`, in `GlesLeaks_proofs`,
counts numbers instead of objects: a number of a setup is a stray (`Strays`) when its
program is not the current one or a shader of it is not one the next setup takes
along. `Paid` says that there are not more strays than errors, where the setup under
way is not counted but has to have an error of its own in reserve (`Owes`) from the
call on that will make a stray of it. A step of the deletion, the linking or the use
of a program then adds one number at most, and only with an error.

**ExploraOverlay.** `Inv` says for each loop of the script what it has done so far,
whatever failed. `FlashDecides`: if no mount fails, what WPEFramework runs on is the
complete copy exactly if all is on flash that the first start puts there; the mounts
have to be assumed, for the script does not look at their results.
`NeverRepaired` is the finding of `overlay` for all time and any failures: after a
first start that was cut off once it had made `DESTINATION`, or had a copy or a link
fail, no start changes what is on flash, with whatever losses of power in between,
and WPEFramework never runs on a complete copy.

**Not proved.** Liveness under fairness and anything about ENABLED are out of
the prover's reach, and so is induction over data for what a recursive
definition computes; the liveness properties stay with TLC (`ClientsFollow`,
`SendReturns`, `TransitEnds`, `AnswerComes`, `ParentFollows`, `WaitEnds`,
`EveryFrameShown`, `Settles`). Every invariant and every action property that a
passing run checks is proved.

## 5. What is not modelled

- Pixels, geometry and colours, hence which part of a half-drawn buffer the
  compositor shows when the operator answers early (M:2517), and the framebuffer
  object in which a client draws.
- The wording of messages on stdout; a failed `close` or destroy, which the code
  reports and ignores. `GBM::ImportPrime` has no caller.
- The text of a socket message (M:725-867). Formatting and parsing are inverse but
  for a modifier above 2^31 - 1 where a `long` has 32 bits; the buffers are made
  with `GBM_BO_USE_LINEAR`, whose modifier is 0.
- The post-build scripts: sequences of copies and appended lines with one guard
  each. The guard that never matches (raspberrypi/post-build.sh:296) shows in a
  second build, and a model of it would only restate two lines.
- The init scripts: whether a restarted `nxserver` meets its predecessor depends on
  `start-stop-daemon` and on the daemon, neither of which is in the repository.
- Of `wpeframework.sh` the environment and the small files; recipes, defconfigs and
  patches, which have no behaviour of their own.
