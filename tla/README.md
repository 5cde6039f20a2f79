# Verification of the Haifeng companion

TLA+ models of the concurrent parts of this repository, their model-checking
configurations, and proofs. Every definition follows the source;
`PROJECT.json` (`map`) names the lines each definition stands for. External
systems (the robot's daemon, child processes, the radio, a model that answers)
appear as actions that choose among the outcomes the code handles.

    tlc -workers 2 -config RequestWorker.cfg MCRequestWorker
    tlapm MotionExecutor_proofs.tla

## Inventory

The repository is a set of independent processes around one robot (Reachy), one
pair of glasses (Luma) and one hand-held controller (M5).

| Component | State it keeps | Operations | Interacts with | Module |
|---|---|---|---|---|
| **Motion executor** `pet_motion/` | queue, awaited results, a history of results, the active task, a control lock, a latched fault, the measured origin and the held baseline | submit, stop, cancel, set_turn, invalidate_baseline, review, close; one worker | the robot's daemon; called by the pet controller | `MotionExecutor`, `MotionContract` |
| **Pet controller and its links** `pet_interaction/` | decisions and their tasks, active decision, owner of the output, voice turn, retired sessions, held baseline, one lock | handle, voice_turn, disconnects, receipts, tick, close | motion executor, voice service, vision | `PetController` |
| **Pet voice** `patches/reachy_companion/` | turn gate (epoch, pending sound), lease, capture queue, recogniser | advance, enqueue, render, submit, mute, interrupt | audio callbacks, local agent, pet controller | `PetVoice` |
| **Wake gate** `voice_gate/` | open or shut, cues, pre-roll and replay | feed, close_now | microphone uplink | `WakeGate` |
| **Realtime server** `realtime_server/` | utterance, busy, talking, reply tasks, idle loop | audio, interrupt, turn, respond, picture | model, speech, camera | `RealtimeSession` |
| **Bridge** `bridge/worker.py`, `session_store.py`, `main.py` | SQLite tables of sessions, requests, messages, images; in memory a queue, the active request and its task | create, submit, cancel, delete, upload, shutdown, restart | photo child process, model, robot; browser | `RequestWorker` |
| **Glasses link** `bridge/luma_daemon.py`, `luma_ble.py`, `glasses_pipeline.py`, and what the M5 is told of a photo | link, file parser, waiting capture, reactions | run loop, notifications, capture, stop | the glasses, the robot, the M5 | `LumaLink` |
| **Local agent** `local_agent/agent_app/` | SQLite tables of jobs, messages, effects; quiet mode; active turn | submit, cancel, quiet, worker, recovery | model, photo, robot | `AgentService` |
| **Guards** `tools/robot_guard.py`, `conversation_watchdog.py` | step, cooldown and backoff of each watcher | tick, recover, restart | daemon, hub, conversation app | `Guards` |
| **Pet vision** `pet_vision/face_cues.py` | face track, smile candidate, latch, absence | update | camera, pet controller | `FaceCues` |

Not modelled as components: diary, biometric tools, probes, set-up scripts,
media and model clients (see "Not modelled").

What is hard in them is nearly everywhere the same: one event loop whose tasks
interleave at `await`, state read before an `await` and used after it, tasks
that are cancelled while they handle a failure, external work that cannot be
taken back once asked for (a move, a sound, a photo), answers that come late,
and tables that survive a crash when the queue next to them does not.
`PROJECT.json` (`hazards`) lists these places one by one.

What makes each correct:

- *Motion executor*: every accepted request gets its result; nothing of
  an earlier turn runs on; no move runs unknown to an executor that is fit to
  move; a fault is final; a held pose is never the base of another pitch.
- *Pet controller*: a stopped pet is still; one decision answers a turn; no pose
  of another session is returned from; what the pet shows is true.
- *Pet voice*: a sound plays only in its turn and under its lease, a turn has one
  answer, each admitted sound is told its end, and a name that is remembered is not
  played again.
- *Wake gate*: frames leave in order, and the server hears the pause that ends an
  utterance. *Realtime server*: the robot is never left marked busy.
- *Bridge*: an accepted request ends, once, and across restarts; what was given
  up writes and says nothing; deleting leaves nothing behind.
- *Glasses link*: an image is one photo, handed over once; the robot is asked
  for one reaction at a time; the M5 does not pretend; the parser is always cleared again.
- *Local agent*: a job expresses itself at most once, across restarts; no speech
  after quiet or cancel.
- *Guards*: whoever restarts the daemon re-enables its motors; it comes back.
- *Pet vision*: a cue is earned by an unbroken smile and told once.

## Modules

A step of every module is the code between two awaits (in `PetVoice`, between two
takings of its lock; in `Guards`, between two requests). Definitions marked MUTANT are
plausible slips of the definition next to them. No specification uses them: replacing
the original by one makes the named property fail, which shows that it can.
`MC*` modules give TLC its instances and symmetry; `*_proofs` hold the proofs.

**MotionExecutor** - `pet_motion/executor.py` with the runs of `posture.py`,
`micro.py` and the session of `transport.py`. `task` is the active task: its phase
says which await it is in (measuring, connecting, in the POST, following events,
stopping, settling, re-reading, holding) and `why` which handler that await belongs
to. `control` and `waitingFor` are the holder of the control lock and what it awaits;
`futures` and `status` are `_futures` and `_results`. `Caller` holds the public
operations, `Controller` the second halves of those that wait, `Worker` the worker
loop, `Run` the active task, `DeadlinePasses` the `timeout_at` block, `Daemon` the
daemon's side of our last move. A stop looks for a duplicate of its id, waits for the
lock (`StopWaits`: the ids in `stops`) and begins later (`BeginStop`) without looking
again, so that several stops of one id and a request of it may meet. A POST that is given
up on, by its own timeout or by an interrupt, stays in `late`: `StrayStarts` may start its
move (`astray`) at any later moment, after a fault, a close or another request as well, and
more than once. `MayCut` names the handlers of a failure that another
`task.cancel()`, by a control operation or by the run's deadline, may cut short: the wait
for a shielded POST, the stop handshake, the reread and the hold. `cut` is history: the
handlers that were. Properties that such an interrupt breaks are stated relative to it,
and are proved for every `MayCut`.

**MotionContract** - what a program that uses the executor relies on, in four
actions: a request is accepted, the executor works by itself, a control operation
holds it and releases it when no result is awaited any more. `undone` says that a hold was
cut short by an interrupt: from then on a crashed run may leave its result awaited and a
fault may leave a pose on offer. `KeepsContract`
instantiates it over the variables of `MotionExecutor`. `PetController` instantiates
it as its robot: the two programs meet at this module.

**PetController** - `pet_interaction/controller.py` with `visual_response.py` and
what the links bring. A decision carries the phase of its task, its receipt and what it
answers; `lock` is the handler that awaits the executor while it holds `self.lock`;
`active`, `output`, `baseline` are the fields of these names. `Loses` says whether the
executor may lose results as its contract allows (`undone`); a wait for one that was lost
times out like any other.

**PetVoice** - `TurnGate`, `Companion` with its two audio threads, its capture loop,
recogniser, monitor and handlers, and `ProactiveAudio` with its leases. `seen` and
`used` are the two bounded memories of names, the oldest first; `told` is the last
receipt of each name: `Refuse` is the receipt "dropped" that a refused result puts under its own
name, whatever became of the sound of that name. `repeated`, `answers` and `since` are
history: that the pending name was refused meanwhile, the answers of each turn, and how many
sounds were admitted since one was.

**WakeGate**, **RealtimeSession**, composed in **VoiceChain** as the patch of the
conversation app composes them: the gate sits before
`input_audio_buffer.append`, and the session hears what the gate sends. A frame is
its age and whether it holds speech, so the order of the uplink can be told.

**RequestWorker** - `bridge/worker.py` over `session_store.py`, with the handlers of
`main.py` and the photo command of `luma_adapter.py`. The tables survive `Crash`;
`queue`, `active`, `flow`, `caller` and `child` do not. `flow.phase` is the position of
`process`; the phases of `MidCommit` lie between two commits with no await, where only
a crash can come in. `HandlersFirst` is asyncio's ready queue: the exit of the photo
process wakes a waiting cancel before the runner learns that the flow is over.

**LumaLink** - `LumaSession` (run loop, subscription, drain, capture, stop) over
`FileReassembler`, the glasses and the radio, and `Pipeline.handle` for the photos of
both loops. A photo is its info, its chunks and an end; a frame may be torn by the loss
of the link, and its first bytes swallow the beginning of the next. A message to
the M5 may be lost with the link to it (`Shows`): the M5 goes on showing what it did, and
`missed` (history) keeps the photos whose last message was lost. The gap after a
reaction is one of the clock (`GapEnds`), whatever the robot still plays.

**AgentService** - `local_agent/agent_app/service.py` over `storage.py`, with the
expression of `robot.py`. `flow` is the active turn: its phase is the await it is in,
`hit` a cancellation not yet delivered, `cancelled` and `expired` who asked for it.
`sound` is what the robot plays, which the code can only guess at through
`audio_active`. How often the model is asked is a choice, so that only the turn's
timeout bounds it; an accepted play request is taken to be played before the turn learns
of its own cancellation, and speech to last no longer than the length computed for it.
Two pairs of commits are one step: the row and the effect of a turn that is given up
(`Leaves`, service.py:119-122) and the message and the status of one that starts
(`TurnStarts`, 135-136). Only a crash can come between them, and `Start` makes the same of
the tables whichever of the two was reached: an effect under way becomes unknown whatever
its row says, and a turn that stored its message only is queued as before.

**Guards** - `robot_guard` and `conversation_watchdog`, with the daemon, the hub its
motors hang on, and the app. Cooldowns and the backoff are flags time clears.

**FaceCues** - `FaceCueEngine.update` per frame, with the times of the code in tenths
of a second (the cooldown is shortened). `seen` is history: what really was in front
of the camera, which the engine's own state must follow.

Time is otherwise left to chance: a deadline may pass whenever it is armed, and a
cooldown or gap may end as soon as it has begun.

## Runs

| Run | Bounds | Question |
|---|---|---|
| motion_safety | 3 ids, 2 turns, all kinds, queue 1, history 2, one id with a waiting stop, interrupts of rereads and holds | is every result accounted for, of its turn, and never given twice; is a fault final, also for POSTs given up on; does a held pose stay safe across interrupts and retired sessions; is the contract kept |
| motion_patient | 2 ids, 2 turns, all kinds, no waiting stops, interrupts of shielded POSTs, stops and rereads, fair | no untracked motion, no untrusted baseline; every result arrives and every operation returns |
| pet_safety | 2 decisions, 2 sessions, 3 turns, smile, call, look_up and return, an executor that loses nothing | stop, turns, baselines, what is shown, receipts |
| pet_live | 1 decision, 2 turns of one session, smile, wave and speech, an executor that may lose results, fair | decisions end, the output is released, the lock too |
| voice | 2 answers, 2 proactive sounds, 2 connections, 4 turns, 2 names remembered by the gate and 1 by the leases | right to sound, one answer per turn, every end told, no replay of a remembered name |
| voice_chain | pre-roll 1, 2 turn slots, fair | order of the uplink, end of utterances, ownership of busy |
| bridge | 2 requests, 1 session, 2 client ids, 2 handlers, crashes, fair | rows against queue and sessions, answers against history, late writes, whom a cancel interrupts; requests end, handlers return |
| luma | 3 photos of 2, 1 and 2 chunks, 3 places for notifications, fair | whole images handed over once, reactions apart, an honest M5, a parser that recovers |
| agent | 2 jobs, 2 sessions, 1 handler, queue 1, restarts, fair | no repeated expression, settled effects, final outcomes, silence; jobs end, handlers return |
| guards | 4 faults, 2 failing calls, fair | motors cared for; daemon returns; heard users are answered or get a session |
| guards_reattach | 1 fault | **violated**, see below |
| face_cues | 2 places, every frame, pauses | earned and single cues, steady presence |

The bounds are the smallest at which the cases meet. A full history needs one id
more than it keeps; two turns make an old and a new one; with two requests one runs
while the other is queued, cancelled or submitted; two handlers or two connections
overlap; a queue of one is full with one job waiting next to the active one; two
decisions compete for one output; of three photos one is under way, one waits and one
arrives; four faults let the second watcher fail while the first recovers. A memory of
two names forgets one that four names in four turns can bring again. The two motion runs
divide the four handlers `MayCut` is made of: with a hold cut short a worker may die and
nothing arrives, so the fair run leaves that one to the safety run, whose properties allow for
it; the theorems have no such division. Nor have those of the pet controller, whose safety
run keeps `Loses` out to stay small. Ids, turns,
jobs and connections are opaque to the code, which makes symmetry sound; the
fair runs use none. Deadlock is checked for the agent, the voice chain and the face
cues; the other systems really are at rest when nobody asks for anything or all bounded
inputs are used up.

**Fairness.** The event loop runs what is ready, so a worker, a started task and a
handler go on (`WF` of each). The calls they make have timeouts in the code (HTTP
clients, `wait_for`, `timeout_at`, kill after terminate), so they end. Three places
need more or less: the agent's turn as a whole is cut off by `asyncio.timeout` alone
(`WF` of `Expires`); `asyncio.Lock` is first come, first served, so whoever
waits for the controller's lock gets it although others take it again and again (`SF` of
`LockedTask`, `Tick`, `Service`); the glasses are found again although the link may be
lost in between (`SF` of `Connects`, `Subscribed`). Callers, users, faults and crashes
are never assumed to happen.

**Violation.** *guards_reattach*: `start_guards.ps1:3-5` says that robot_guard,
having revived the daemon, "restarts the conversation app so it re-attaches to it".
`restart_conversation` names `ROOT` (robot_guard.py:182), which the file never defines:
the NameError leaves `recover`, the app keeps its lost link, and neither the attempt's
time nor its success is recorded.

## Divergences

Places where reading for the models, or a run of one, showed the code to differ from
what it or a document says. No property of a passing run can cover them; the
models contain the behaviour, and the properties are stated around it.

*Motion executor.* `_stop` catches `Exception`: a second `CancelledError` passes
through it (executor.py:323), no fault is latched, and the next request is taken while
the old move may run on, although the caller's interrupt was not to "release admission
prematurely" (executor.py:244). The same interrupt of the wait for a shielded POST leaves
a move that may start later, with no fault. A deadline that passes inside the hold after a
failure becomes a `TimeoutError` that `_run` does not catch (executor.py:298): the worker is
dead and its result never arrives; a control operation that interrupts that hold may
restore a baseline after a fault. `BodyTrusted`, `OriginKept` and `KeepsContract` say which
handler must have been cut short for this. Several stops of one id may pass the check of
line 127 before the first of them has the lock; each then stores its own result over what
is retained under the id (132), that of a request admitted in between included.
`NeverRunTwice` allows a stop this and nothing else. A POST that was given up on
(transport.py:49-50) may start its move after the fault it caused: `FaultIsFinal` says that
nothing else starts.

*Pet voice.* A result whose name is refused gets a "dropped" receipt under that name
(pet_audio.py:102), also while a sound of this name waits or plays: its reader is told two
ends. Names are forgotten after 256 sounds, proactive ones after 512 (pet_audio.py:53,
proactive_audio.py:14), and may then be played again.

*Bridge.* A cancelled photo ends as `failed`, for the exit of the terminated process
reaches the flow before its cancellation (worker.py:147). A request submitted while its
session is being deleted loses its row while it is active; `get_request` is then None and
every DELETE fails (worker.py:39). An upload read across a DELETE is stored for a
session that is gone (main.py:181).

*Agent.* The late answer to the `stop_sound` of a cancelled job clears `audio_active`
while the next job speaks (robot.py:162); that speech can no longer be stopped.

*Wake gate.* A cue scored while the gate is open is kept, and opens it again at the first
frame after the hold, with nobody speaking (wake_gate.py:201).

*Realtime session.* The `finally` of a cancelled turn clears the busy mark of the turn
that interrupted it (server.py:435). A reply the client asked for is not tracked
(server.py:249). An exception of the voice leaves `_talking` set; the idle loop of a
client that has gone survives a cancellation it catches.

*Glasses.* "A waiting capture owns this image" (luma_daemon.py:161), but any photo that
completes answers it: one of the shutter, or of a capture that timed out. The parser is not
reset when the link comes back, so a photo may be made of two. A waiting capture is not
failed by the loss of the link (line 139); a stop during a connection attempt disconnects
nothing and the attempt succeeds (216); a failed subscription leaves the client
connected (128, 181). "Reactions never overlap on the robot" (glasses_pipeline.py:48) holds of
the requests only: the gap is 8 s after the last answer, nobody waits for the end of the
recorded move, and a longer one is still played when the next is asked for.

*M5.* A last message that is lost is not sent again: the M5 shows the photo as
received until the next one (m5_link.py:123). An old reader may outlive the reopening of
the socket, and two of them add to `dropped`. The newest message replaces a waiting pat_start or pat_end
(m5_motion.py:129). The reaction to a photo does not wait for an idle robot.

*Watchers.* The mark in the app's log is not moved back when the log is truncated
(conversation_watchdog.py:233). A check that finds the app deaf while the daemon is not
running kills it, and the launcher then refuses: it stays down. A refused `set_mode`
leaves the motors off for good, since the guard sees a running daemon. The dance keeper
checks and then posts, with nothing to keep another post out.

## Proofs

For every value of the constants that satisfies the named assumption of the module.

**MotionExecutor** (`ExecutorAssumption`, `HolderAssumption`: a queue of at least one, a
history longer than the queue, ids distinct from the names of operations). Every safety
property of the two motion runs is proved.

`MotionExecutor_proofs` has `ConsistentAlways`, the inductive invariant; `TypeCorrect`;
`FaultFinal` (`FaultIsFinal`); `TurnIsCurrent` (`TurnCurrent`); `ResultsAccounted`
(`PendingAccounted`); `PromiseKept` (`KeepsContract`), the refinement; `ResultsFinal`
(`NeverRunTwice`); `PosturesAreSafe` (`PosturesSafe`); `BodyIsTrusted` (`BodyTrusted`).

`TypeOK` is not inductive: the outcome stored for a task is a terminal status only if its
phase and its fields agree (`TaskShape`), a control operation has nothing queued behind
it (`ControlShape`), and after a fault the queue is empty and the task can only stop
and hold (`Faulted`). `Consistent` is their conjunction with `TypeOK`; the other invariants
are relative to it. `Accounted` says that the awaited ids are those of
the queue and of the task, each once, and still unanswered, but for a crashed task. `Reliable` says what a
baseline on offer and the one to go back to are, from which each step is one of the
contract or a stutter. `Measured` says that a head that is lifted has a known origin, or a run
that will know it; `Retired` that a retired session left no posture behind that was not told to
stop; `Watched` that a running move is one the task still waits for; `Seeded` that an
offered pose has its origin. No theorem assumes anything of the interrupts: what they undo is in
the invariants. `Reliable` and `Seeded` hold until a hold is cut short, `Watched` until the wait for
a POST or a stop is, and `Measured` with `Strayed` (whatever was given up on is behind
a fault) until the wait for a POST is. Each proof has one case per action, and one
lemma for each helper on tasks.

**PetController** (`ControllerAssumption`, and `NoneApart`: `None` differs from what it stands
beside): `ComposedAlways`, the inductive invariant; `TypeCorrect`, `StillnessAlways`
(`StoppedIsStill`), `TurnsAnsweredOnce` (`OnePerTurn`), `BaselineStaysCurrent`
(`BaselineCurrent`), `ShownAlways` (`ShownTruly`), `ReceiptsOnlyAdvance` (`ReceiptsAdvance`).
That every safety property of the controller follows from one invariant is no accident:
a stop is still because nothing is active after it and a decision that has the lock has
asked the executor for nothing yet (`Stilled`). A turn is answered once because what was
answered is past (`Past`): a session that was left is retired, and in the one that is heard
turns only grow. A late receipt is harmless because who waits for a sound is active or done
(`Sounding`). A step changes the records of decisions in few ways (`Follows`, `Made`, `Aside`),
each with its lemma; the executor's contract is used only through `awaited`, `holder` and `undone`: a stop leaves
nothing awaited but what the executor has lost itself.

**RequestWorker** (`BridgeAssumption`): `OrderlyAlways`, the inductive invariant;
`RowsAccountedAlways`, `AnswerRecordedAlways`, `InterruptedForCauseAlways`,
`GivenUpIsFinalAlways`. `Orderly` has three parts besides the types: `Store` (rows, sessions,
queue), `Course` (the row follows the phase of a flow that was not told, and who waits for a
photo process waits for that of the active request) and `Record` (what each phase
has written). `Waiters` is why a late `cancel` cannot hit the next request; it needs
that handlers wake before the runner (`HandlersFirst`). The actions are grouped by what they
do to the rows (`FlowMoves`, `Withdraws`, `Aside`), one preservation lemma per group.

**PetVoice** (in `Voice_proofs`; `VoiceAssumption`: no agent names a response like one of the service's own
sounds, whose ids have prefixes; the code does not check it): `VoicedAlways`, the inductive
invariant; `TypeCorrect`, `SoundYieldsAlways`, `AnswersAccountedAlways`, `NeverReplayedAlways`.
`Counted` ties the answers of a turn to `answered`, so that a new turn is unanswered; `Memory` says
that the place of a name in `seen` tells how many sounds came after it, and that what has left it was
followed by as many as it holds; `Fresh` that the service's own names of turns to come are new.
`Heard` says that the words of a turn are in one place (heard, waiting or being
recognised) and that the display shows which: `submit` looks only at the display, the
capture loop and the queue, and this is why it cannot speak into a recognition.

**VoiceChain** (in `Voice_proofs`; `PreRollAssumption`, `SessionAssumption`):
`ChainedAlways`, the inductive invariant; `ChainTypeCorrect`, `BusyOwnedAlways`,
`UplinkStaysInOrder` (`UplinkInOrder`). TLC has a pre-roll of one frame; the theorem holds for
every length. `Queued` says that the frames waiting are consecutive, down to the frame heard
last, that pre-roll and replay are never both there, although a kept cue reopens a gate with
frames still to replay, and that as many frames were heard since the last one sent as wait now.
`BusyOwned` is inductive as it stands: the finally of any turn clears the mark.

**LumaLink** (`LumaAssumption`): `LinkedAlways`, the inductive invariant; `TypeCorrect`,
`PhotosHandedOverAlways`, `M5ClosedAlways`, `ReactionsStayApart` (`ReactionsApart`).
`Transferred` says that a transfer that is not old is of the photo on the air, over a link
that is up and with no torn frame before it, which `ImageWhole` needs. `Accounted` follows a photo
from taken over sent to handed over, so that no chunk of it comes again. `Reacting` says that
who reads or answers a photo is alone and not in the gap, and that a photo shown as received is
in hand or `missed`.
`Follows` is what any frame may leave with the parser; every branch of `Framed` and
`Pushed` has its lemma.

**AgentService** (`AgentAssumption`): `InvariantAlways`, `NotReplayedAlways`,
`EffectSettledAlways`, `CompletedToldAlways`, `OutcomeFinalAlways`; `SilenceAlways`
(`SilentWhenQuiet`) and `TypeCorrect`, with `Cardinality(Queued) <= MaxPending`. That the turn that
starts is fresh is a fact about jobs still queued (`UntouchedFresh`), which needs that a
turn under way has left the queue (`TurnTouches`). `RunningIsActive` says where an effect
can be under way. `OutcomeFinal` needs that a cancellation recorded in the table is
pending in the turn (`OutcomeAgreed`, `CancelPending`, `HitAwaits`), so that no step writes a
status before it is delivered, and that the turn then leaves as cancelled even if its timeout has
fired as well. The code asks for quiet mode twice only, before it expresses and before it
uploads; `QuietHits` is why no move or speech of a quiet session starts later: whoever sets
quiet mode meanwhile has hit the turn, or finds it cancelled and, by `OutcomeAgreed` and
`CancelPending`, hit already.

**FaceCues** (`TimesAssumption`): `FollowsAlways`, `CueEarnedAlways`, `OneCueAlways`,
`PresenceSteadyAlways`. The invariant ties what the engine remembers to what was seen: the
track is the face that stayed (`TrackFollows`), a candidate is the smile going on, and a
rest is no longer than the mouth was calm (`RuleFollows`).

**Guards** (`BoundsAssumption`): `CaredAlways`, `MotorsCaredAlways`. `MotorsCared` is about a
running daemon; it needs that every restart still under way is awaited by one of the two
watchers (`RestartAwaited`).

Model-checked only: all liveness (`AllReturn`, `AllEnds`, `HearsAgain`, `NeverDeaf`,
`AllRevived`), which is beyond the prover. Every other property of the passing runs is a theorem.

## Not modelled

- Image, audio and language processing; the wording and layout of messages, pages and
  logs; configuration and operators' scripts: nothing in them interacts with the state
  above.
- Diary (an append-only file), biometric tools, the status board and the probes: no state
  between two operations.
- `open_now` of the wake gate has no caller. `pet_vision/core.py` (gestures) debounces
  like `FaceCues`, over more cues; the IPC of frames and its stall guard restart a child process.
- The mirror of M5 movements (m5_motion.py) and the dance keeper share only the robot with
  the rest.
- Memories of the agent and their search, memory facts of the watchdog, conversation
  history, tools of the voice server: data no control depends on.
