---------------------------- MODULE AgentService ----------------------------
(***************************************************************************)
(* The local agent: the jobs of local_agent/agent_app/service.py, their    *)
(* tables in storage.py and the robot's expression of an answer (robot.py).*)
(*                                                                         *)
(*   - jobs, effects, answers and quiet mode are durable;                  *)
(*   - one worker takes queued jobs; a turn decides with the model, claims *)
(*     the effect of its job, and then speaks and moves;                   *)
(*   - cancel, quiet mode, a timeout and shutdown interrupt a turn.        *)
(*                                                                         *)
(* Between two awaits nothing else runs, but the process may crash between *)
(* two commits.                                                            *)
(***************************************************************************)
EXTENDS Integers, FiniteSets

CONSTANTS
  Jobs,        \* job ids, each a fresh uuid
  Sessions,
  Callers,     \* cancel and quiet handlers that may be waiting at a time
  Kinds,       \* a subset of {"message", "capture"}: without or with a photo
  MaxPending,  \* max_pending
  Restarts,    \* may the process crash or shut down?
  None

ASSUME AgentAssumption ==
  /\ Kinds \subseteq {"message", "capture"}
  /\ MaxPending \in Nat
  /\ Restarts \in BOOLEAN
  /\ None \notin Jobs \cup Sessions
  /\ IsFiniteSet(Jobs)

VARIABLES
  status, about,  \* durable: jobs
  effect,         \* durable: effects
  answered,       \* durable: the jobs with an assistant message
  quiet,          \* durable: the sessions in quiet mode
  service,        \* the process
  active, flow,   \* active_id, active_task
  audioActive,    \* robot.audio_active
  caller,         \* handlers suspended in cancel
  sound           \* external: the job whose speech the robot is playing

tables == <<status, about, effect, answered, quiet>>
vars == <<tables, service, active, flow, audioActive, caller, sound>>

Working == {"preparing", "capturing", "analyzing", "deciding", "expressing"}
Ended   == {"completed", "failed", "cancelled", "interrupted"}

Abouts == [session : Sessions, kind : Kinds]
NoRow  == [session |-> None, kind |-> None]

\* Where a turn is.  "claimed", "told" and "expressed" lie between commits
\* with no await in between.
Phases == {"none", "start", "capture", "observe", "decide", "claimed", "told",
           "ready", "tts", "connect", "post", "follow", "release", "unwind",
           "upload", "play", "speak", "hush", "expressed", "stop", "done"}

\* A turn: cancelled or past its timeout, an interrupt not yet delivered, and
\* whether there is speech to play.
Flows == [phase : Phases, cancelled : BOOLEAN, expired : BOOLEAN, hit : BOOLEAN, audio : BOOLEAN]
NoFlow == [phase |-> "none", cancelled |-> FALSE, expired |-> FALSE, hit |-> FALSE, audio |-> FALSE]

\* A handler waits for the turn it cancelled, then for stop_sound, which the
\* robot has heard or not.
Handlers == [job : Jobs \cup {None}, at : {"idle", "turn", "stop"}, heard : BOOLEAN]
Idle == [job |-> None, at |-> "idle", heard |-> FALSE]

Queued == {j \in Jobs : status[j] = "queued"}

TypeOK ==
  /\ status \in [Jobs -> {"unborn", "queued"} \cup Working \cup Ended]
  /\ about \in [Jobs -> Abouts \cup {NoRow}]
  /\ effect \in [Jobs -> {"none", "running", "completed", "partial", "unknown"}]
  /\ answered \subseteq Jobs /\ quiet \subseteq Sessions
  /\ service \in {"down", "up", "closing"}
  /\ active \in Jobs \cup {None} /\ flow \in Flows
  /\ audioActive \in BOOLEAN
  /\ caller \in [Callers -> Handlers]
  /\ sound \in Jobs \cup {None}
  /\ \A j \in Jobs : status[j] # "unborn" => about[j] \in Abouts
  /\ active = None <=> flow.phase = "none"
  /\ Cardinality(Queued) <= MaxPending

Init ==
  /\ status = [j \in Jobs |-> "unborn"] /\ about = [j \in Jobs |-> NoRow]
  /\ effect = [j \in Jobs |-> "none"] /\ answered = {} /\ quiet = {}
  /\ service = "down" /\ active = None /\ flow = NoFlow
  /\ audioActive = FALSE /\ caller = [c \in Callers |-> Idle] /\ sound = None

MidCommit == flow.phase \in {"claimed", "told", "expressed"}
Serving == service = "up" /\ ~MidCommit

-----------------------------------------------------------------------------
(* Handlers                                                                *)

HasRoom == Cardinality(Queued) < MaxPending

\* A request id already used returns the job it stands for.
Submit(j, s, k) ==
  /\ Serving /\ status[j] = "unborn" /\ HasRoom
  /\ status' = [status EXCEPT ![j] = "queued"]
  /\ about' = [about EXCEPT ![j] = [session |-> s, kind |-> k]]
  /\ UNCHANGED <<effect, answered, quiet, service, active, flow, audioActive, caller, sound>>

\* task.cancel(): nothing reaches a task that is over.
Told == IF flow.phase \in {"none", "done"} THEN flow
        ELSE [flow EXCEPT !.cancelled = TRUE, !.hit = TRUE]

\* cancel(j), up to its first await: a job that is over stays as it is.
CancelJob(c, j) ==
  IF status[j] \in Ended
  THEN UNCHANGED <<status, flow, caller>>
  ELSE /\ status' = [status EXCEPT ![j] = "cancelled"]
       /\ IF active = j
          THEN flow' = Told /\ caller' = [caller EXCEPT ![c] = [Idle EXCEPT !.job = j, !.at = "turn"]]
          ELSE UNCHANGED <<flow, caller>>

Cancel(c, j) ==
  /\ Serving /\ caller[c] = Idle /\ status[j] # "unborn"
  /\ CancelJob(c, j)
  /\ UNCHANGED <<about, effect, answered, quiet, service, active, audioActive, sound>>

\* MUTANT: the active turn of the session goes on.
DisturbsNothing(s) == FALSE

\* The active turn belongs to the session that becomes quiet.
Disturbs(s) == active # None /\ about[active].session = s

SetQuiet(c, s, value) ==
  /\ Serving /\ caller[c] = Idle
  /\ quiet' = IF value THEN quiet \cup {s} ELSE quiet \ {s}
  /\ IF value /\ Disturbs(s) THEN CancelJob(c, active) ELSE UNCHANGED <<status, flow, caller>>
  /\ UNCHANGED <<about, effect, answered, service, active, audioActive, sound>>

\* The turn is over: robot.stop(), which asks for nothing when no speech is
\* known to be active.
Due(c) == caller[c].at = "turn" /\ (active # caller[c].job \/ flow.phase = "done")

TurnIsOver(c) ==
  /\ Serving /\ Due(c)
  /\ caller' = [caller EXCEPT ![c] = IF audioActive THEN [@ EXCEPT !.at = "stop"] ELSE Idle]
  /\ UNCHANGED <<tables, service, active, flow, audioActive, sound>>

\* External: the robot hears stop_sound.
StopHeard(c) ==
  /\ ~MidCommit /\ caller[c].at = "stop" /\ ~caller[c].heard
  /\ caller' = [caller EXCEPT ![c].heard = TRUE]
  /\ sound' = None
  /\ UNCHANGED <<tables, service, active, flow, audioActive>>

StopConfirmed(c) ==
  /\ Serving /\ caller[c].at = "stop" /\ caller[c].heard
  /\ audioActive' = FALSE
  /\ caller' = [caller EXCEPT ![c] = Idle]
  /\ UNCHANGED <<tables, service, active, flow, sound>>

\* MUTANT: an answer that never comes is waited for.
StopUnanswered(c) == FALSE /\ UNCHANGED vars

\* The answer to stop_sound is an error, or late.
StopUnknown(c) ==
  /\ Serving /\ caller[c].at = "stop"
  /\ caller' = [caller EXCEPT ![c] = Idle]
  /\ UNCHANGED <<tables, service, active, flow, audioActive, sound>>

-----------------------------------------------------------------------------
(* The worker                                                              *)

NothingActive == active' = None /\ flow' = NoFlow

\* The next queued job, if any, becomes active.  (The code takes the oldest;
\* here, any.)
WorkerAdvances ==
  \/ Queued = {} /\ NothingActive
  \/ \E j \in Queued : active' = j /\ flow' = [NoFlow EXCEPT !.phase = "start"]

WorkerTakes ==
  /\ Serving /\ active = None /\ Queued # {}
  /\ WorkerAdvances
  /\ UNCHANGED <<tables, service, audioActive, caller, sound>>

WorkerCollects ==
  /\ Serving /\ flow.phase = "done"
  /\ WorkerAdvances
  /\ UNCHANGED <<tables, service, audioActive, caller, sound>>

-----------------------------------------------------------------------------
(* A turn: process(jid), _process and respond                              *)

\* check(jid) finds the job cancelled at these points.
Checked == flow.phase \in {"capture", "observe", "decide", "ready", "tts", "follow"}
             /\ status[active] = "cancelled"

\* The turn goes on from this phase.  What it waits for arrives only after the
\* handlers waiting for an earlier turn have run.
At(phase) ==
  /\ service # "down" /\ flow.phase = phase /\ ~flow.hit /\ ~Checked
  /\ \A c \in Callers : ~Due(c)
  /\ UNCHANGED <<about, service, active, caller>>

Goes(phase) == flow' = [flow EXCEPT !.phase = phase]

\* The user's message is stored; a photo is taken, an image (of this job or an
\* earlier one of the session) observed, or the model asked at once.
TurnStarts ==
  /\ At("start")
  /\ IF about[active].kind = "capture"
     THEN status' = [status EXCEPT ![active] = "capturing"] /\ Goes("capture")
     ELSE \/ status' = [status EXCEPT ![active] = "analyzing"] /\ Goes("observe")
          \/ status' = [status EXCEPT ![active] = "deciding"] /\ Goes("decide")
  /\ UNCHANGED <<effect, answered, quiet, audioActive, sound>>

PhotoTaken ==
  /\ At("capture")
  /\ status' = [status EXCEPT ![active] = "analyzing"] /\ Goes("observe")
  /\ UNCHANGED <<effect, answered, quiet, audioActive, sound>>

\* The image has been looked at.  (A failure within a tool call is an answer
\* to the model, too.)
Observed ==
  /\ At("observe")
  /\ status' = [status EXCEPT ![active] = "deciding"] /\ Goes("decide")
  /\ UNCHANGED <<effect, answered, quiet, audioActive, sound>>

\* A decision other than to respond: an image is looked at again, a memory is
\* searched or kept, quiet mode is set, or nothing is called.  That there are
\* at most max_steps of them is a failure that may come any time.
Decided ==
  /\ At("decide")
  /\ \/ Goes("observe") /\ UNCHANGED quiet
     \/ UNCHANGED flow
        /\ LET s == about[active].session IN quiet' \in {quiet \cup {s}, quiet \ {s}}
  /\ UNCHANGED <<status, effect, answered, audioActive, sound>>

\* claim_effect: INSERT OR IGNORE.  (A second respond of a job would be blocked;
\* a turn ends with its first.)
Claim ==
  /\ effect[active] = "none"
  /\ effect' = [effect EXCEPT ![active] = "running"]
  /\ Goes("claimed")

Responds ==
  /\ At("decide")
  /\ Claim
  /\ UNCHANGED <<status, answered, quiet, audioActive, sound>>

AnswerStored ==
  /\ At("claimed")
  /\ answered' = answered \cup {active} /\ Goes("told")
  /\ UNCHANGED <<status, effect, quiet, audioActive, sound>>

MayExpress == about[active].session \notin quiet

\* By text only (on request, in quiet mode, without a robot), or by the robot.
Expresses ==
  /\ At("told")
  /\ status' = [status EXCEPT ![active] = "expressing"]
  /\ \/ effect' = [effect EXCEPT ![active] = "completed"] /\ Goes("expressed")
     \/ MayExpress /\ UNCHANGED effect /\ Goes("ready")
  /\ UNCHANGED <<answered, quiet, audioActive, sound>>

\* MUTANT: the effect is left as it was claimed.
EffectForgotten(outcomes) == Goes("expressed") /\ UNCHANGED effect

\* The effect is recorded as completed, or partial when a part failed.
EffectRecorded(outcomes) ==
  /\ \E outcome \in outcomes : effect' = [effect EXCEPT ![active] = outcome]
  /\ Goes("expressed")

\* capabilities(): the robot is not ready, or speech is prepared (if enabled).
RobotNotReady ==
  /\ At("ready")
  /\ EffectRecorded({"partial"})
  /\ UNCHANGED <<status, answered, quiet, audioActive, sound>>

RobotReady ==
  /\ At("ready")
  /\ flow' = [flow EXCEPT !.phase = "tts", !.audio = TRUE] \/ Goes("connect")
  /\ UNCHANGED <<tables, audioActive, sound>>

\* With the motion over: speech is uploaded unless there is none, or quiet.
AfterMotion ==
  \/ Goes("upload") /\ flow.audio /\ MayExpress /\ UNCHANGED effect
  \/ ~(flow.audio /\ MayExpress) /\ EffectRecorded({"completed", "partial"})

\* tts() has succeeded or failed; the expression is then a motion or none.
SpeechPrepared ==
  /\ At("tts")
  /\ Goes("connect") \/ flow' = [flow EXCEPT !.phase = "connect", !.audio = FALSE]
  /\ UNCHANGED <<tables, audioActive, sound>>

\* segment(): connect, post the move, follow its events.  A move not known to
\* have ended is stopped.
NoMotion ==
  /\ At("connect")
  /\ AfterMotion
  /\ UNCHANGED <<status, answered, quiet, audioActive, sound>>

Connected ==
  /\ At("connect") /\ Goes("post")
  /\ UNCHANGED <<tables, audioActive, sound>>

MovePosted ==
  /\ At("post") /\ Goes("follow")
  /\ UNCHANGED <<tables, audioActive, sound>>

MoveRefused ==
  /\ At("post")
  /\ AfterMotion
  /\ UNCHANGED <<status, answered, quiet, audioActive, sound>>

\* The segment has ended: the next one follows, or the motion is over.
SegmentEnds ==
  /\ At("follow")
  /\ \/ Goes("connect") /\ UNCHANGED effect
     \/ AfterMotion
  /\ UNCHANGED <<status, answered, quiet, audioActive, sound>>

\* No event in time, or no more events: the move is stopped.
SegmentLost ==
  /\ At("follow") /\ Goes("release")
  /\ UNCHANGED <<tables, audioActive, sound>>

SegmentReleased ==
  /\ At("release")
  /\ AfterMotion
  /\ UNCHANGED <<status, answered, quiet, audioActive, sound>>

\* play(): audio_active is set before the POST, whose outcome may be unknown.
Uploaded ==
  /\ At("upload")
  /\ audioActive' = TRUE /\ Goes("play")
  /\ UNCHANGED <<tables, sound>>

UploadFails ==
  /\ At("upload") /\ Goes("hush")
  /\ UNCHANGED <<tables, audioActive, sound>>

PlayAccepted ==
  /\ At("play")
  /\ sound' = active /\ Goes("speak")
  /\ UNCHANGED <<tables, audioActive>>

PlayFails ==
  /\ At("play")
  /\ sound' \in {sound, active} /\ Goes("hush")
  /\ UNCHANGED <<tables, audioActive>>

\* The estimated length has passed, and with it (an assumption) the speech.
SpeechOver ==
  /\ At("speak") /\ sound # active
  /\ audioActive' = FALSE
  /\ EffectRecorded({"completed", "partial"})
  /\ UNCHANGED <<status, answered, quiet, sound>>

\* robot.stop() within a turn: stop_sound succeeds or not.
Stops ==
  \/ audioActive' = FALSE /\ sound' = IF audioActive THEN None ELSE sound
  \/ audioActive /\ UNCHANGED audioActive /\ sound' \in {sound, None}

SpeechFailed ==
  /\ At("hush")
  /\ Stops
  /\ EffectRecorded({"partial"})
  /\ UNCHANGED <<status, answered, quiet>>

Completes ==
  /\ At("expressed")
  /\ status' = [status EXCEPT ![active] = "completed"] /\ Goes("done")
  /\ UNCHANGED <<effect, answered, quiet, audioActive, sound>>

(* Failure and interruption                                                *)

\* MUTANT: the effect is left as it is.
Unsettled == effect

\* An effect that was under way may or may not have happened.
Settled == [effect EXCEPT ![active] = IF @ = "running" THEN "unknown" ELSE @]

\* MUTANT: a timeout wins over a cancellation.
TimeoutFirst == IF flow.expired THEN "failed" ELSE "cancelled"

\* asyncio.timeout turns its own cancellation into a TimeoutError, but not
\* when the task was cancelled from outside as well.
Outcome == IF flow.cancelled \/ Checked THEN "cancelled" ELSE "failed"

\* process() records the outcome and then stops the robot.
Leaves(outcome) ==
  /\ status' = [status EXCEPT ![active] = outcome]
  /\ effect' = Settled
  /\ flow' = [flow EXCEPT !.phase = "stop", !.hit = FALSE]

\* No photo, no observation (outside of a tool call) or no decision.
TurnFails ==
  /\ \/ At("capture") \/ At("decide")
     \/ At("observe") /\ status[active] = "analyzing"
  /\ Leaves("failed")
  /\ UNCHANGED <<answered, quiet, audioActive, sound>>

\* turn_timeout passes while the turn waits for something.
Expires ==
  /\ service # "down" /\ ~flow.expired /\ ~MidCommit
  /\ flow.phase \notin {"none", "start", "stop", "done"}
  /\ flow' = [flow EXCEPT !.expired = TRUE, !.hit = TRUE]
  /\ UNCHANGED <<tables, service, active, audioActive, caller, sound>>

Interrupted == service # "down" /\ (flow.hit \/ Checked)

\* A task cancelled before its first step never runs.
NeverRuns ==
  /\ Interrupted /\ flow.phase = "start"
  /\ flow' = [flow EXCEPT !.phase = "done", !.hit = FALSE]
  /\ UNCHANGED <<tables, service, active, audioActive, caller, sound>>

\* A move under way is first stopped.
MoveInterrupted ==
  /\ Interrupted /\ flow.phase = "follow"
  /\ flow' = [flow EXCEPT !.phase = "unwind", !.hit = FALSE]
  /\ UNCHANGED <<tables, service, active, audioActive, caller, sound>>

Unwound ==
  /\ At("unwind")
  /\ Leaves(Outcome)
  /\ UNCHANGED <<answered, quiet, audioActive, sound>>

\* A play request given up may have been accepted.
TurnInterrupted ==
  /\ Interrupted /\ flow.phase \notin {"start", "follow", "stop"}
  /\ Leaves(Outcome)
  /\ IF flow.phase = "play" THEN sound' \in {sound, active} ELSE UNCHANGED sound
  /\ UNCHANGED <<about, answered, quiet, service, active, audioActive, caller>>

TurnStopped ==
  /\ At("stop")
  /\ Stops /\ Goes("done")
  /\ UNCHANGED tables

\* Shutdown interrupts the stop as well.
StopInterrupted ==
  /\ Interrupted /\ flow.phase = "stop"
  /\ flow' = [flow EXCEPT !.phase = "done", !.hit = FALSE]
  /\ sound' \in {sound, None}
  /\ UNCHANGED <<tables, service, active, audioActive, caller>>

-----------------------------------------------------------------------------
(* The process                                                             *)

\* MUTANT: what was interrupted is queued again.
Requeued == [j \in Jobs |-> IF status[j] \in Working THEN "queued" ELSE status[j]]

\* recover(): queued jobs stay queued, those under way are interrupted.
Recovered == [j \in Jobs |-> IF status[j] \in Working THEN "interrupted" ELSE status[j]]

Start ==
  /\ service = "down"
  /\ status' = Recovered
  /\ effect' = [j \in Jobs |-> IF effect[j] = "running" THEN "unknown" ELSE effect[j]]
  /\ service' = "up"
  /\ UNCHANGED <<about, answered, quiet, active, flow, audioActive, caller, sound>>

\* close() is called when the last request has been answered.  It cancels the
\* worker and the turn.
BeginClose ==
  /\ Restarts /\ Serving /\ \A c \in Callers : caller[c] = Idle
  /\ service' = "closing" /\ flow' = Told
  /\ UNCHANGED <<tables, active, audioActive, caller, sound>>

MemoryLost ==
  /\ service' = "down" /\ NothingActive
  /\ audioActive' = FALSE /\ caller' = [c \in Callers |-> Idle]
  /\ UNCHANGED tables

EndClose ==
  /\ service = "closing" /\ flow.phase \in {"none", "done"}
  /\ sound' \in IF audioActive THEN {sound, None} ELSE {sound}
  /\ MemoryLost

Crash ==
  /\ Restarts /\ service # "down"
  /\ MemoryLost
  /\ UNCHANGED sound

\* External: the robot has played the speech.
SoundEnds ==
  /\ sound # None /\ sound' = None
  /\ UNCHANGED <<tables, service, active, flow, audioActive, caller>>

-----------------------------------------------------------------------------
Handling(c) ==
  \/ \E j \in Jobs : Cancel(c, j)
  \/ \E s \in Sessions, value \in BOOLEAN : SetQuiet(c, s, value)

Resuming(c) == TurnIsOver(c) \/ StopConfirmed(c) \/ StopUnknown(c)

Worker == WorkerTakes \/ WorkerCollects

Turn ==
  \/ TurnStarts \/ PhotoTaken \/ Observed \/ Decided \/ Responds \/ AnswerStored
  \/ Expresses \/ RobotNotReady \/ RobotReady \/ SpeechPrepared \/ NoMotion
  \/ Connected \/ MovePosted \/ MoveRefused \/ SegmentEnds \/ SegmentLost
  \/ SegmentReleased \/ Uploaded \/ UploadFails \/ PlayAccepted \/ PlayFails
  \/ SpeechOver \/ SpeechFailed \/ Completes \/ TurnFails

Interruption ==
  \/ NeverRuns \/ MoveInterrupted \/ Unwound \/ TurnInterrupted
  \/ TurnStopped \/ StopInterrupted

Next ==
  \/ \E j \in Jobs, s \in Sessions, k \in Kinds : Submit(j, s, k)
  \/ \E c \in Callers : Handling(c) \/ StopHeard(c) \/ Resuming(c)
  \/ Worker \/ Turn \/ Expires \/ Interruption
  \/ Start \/ BeginClose \/ EndClose \/ Crash \/ SoundEnds

Spec == Init /\ [][Next]_vars

\* The event loop runs what is ready, every request of the client times out,
\* and asyncio.timeout bounds a turn.
FairSpec ==
  /\ Spec
  /\ WF_vars(Start) /\ WF_vars(Worker) /\ WF_vars(Turn) /\ WF_vars(Expires)
  /\ WF_vars(Interruption)
  /\ \A c \in Callers : WF_vars(Resuming(c))

-----------------------------------------------------------------------------
(* Properties                                                              *)

\* A job that has yet to decide on an answer has neither given one nor claimed
\* its effect, whatever was cancelled, timed out or restarted before: no
\* expression is repeated.
NotReplayed ==
  active # None /\ flow.phase \in {"start", "capture", "observe", "decide"} =>
    effect[active] = "none" /\ active \notin answered

\* When the turn of a job is over, however it ended, its effect is no longer
\* shown as under way.
EffectSettled ==
  \A j \in Jobs :
    service # "down" /\ status[j] \in Ended /\ active # j => effect[j] # "running"

\* A job reported as completed has given its answer and recorded what became
\* of its effect; an effect recorded as done belongs to an answer given.
CompletedTold ==
  \A j \in Jobs :
    /\ status[j] = "completed" => effect[j] \in {"completed", "partial"}
    /\ effect[j] \in {"completed", "partial"} => j \in answered

\* No move is posted and no speech played for a session in quiet mode: a quiet
\* request that arrives while either is prepared stops it.
SilentWhenQuiet ==
  [][flow'.phase \in {"post", "follow", "play", "speak"} /\ flow.phase # flow'.phase
       => about[active].session \notin quiet]_vars

\* An outcome a client may have been told is never replaced by another, by a
\* late answer, a timeout that fires along with a cancellation, or a restart.
OutcomeFinal ==
  [][\A j \in Jobs : status[j] \in Ended => status'[j] = status[j]]_vars

\* Every accepted job ends, once the process no longer restarts: also the one
\* that was queued, running or under cancellation when it went down.
JobsEnd ==
  <>[](service = "up") => \A j \in Jobs : status[j] = "queued" ~> status[j] \in Ended

\* Every cancel or quiet request is answered.
CallersReturn == \A c \in Callers : caller[c] # Idle ~> caller[c] = Idle

\* Whatever was asked of the agent comes to an end.
AllEnds == JobsEnd /\ CallersReturn

=============================================================================
