---------------------------- MODULE PetController ---------------------------
(***************************************************************************)
(* pet_interaction: one lock-protected policy between what is perceived    *)
(* (the voice owner's events, vision, the operator) and the two owners of  *)
(* output, the motion executor and the voice service.                      *)
(*                                                                         *)
(*   - an accepted event becomes a decision with a task of its own, that   *)
(*     submits a motion under the lock and then, without it, asks for a    *)
(*     sound and awaits the motion's result;                               *)
(*   - a newer turn, a stop, a better event or a lost link invalidates the *)
(*     active decision and cancels its task;                               *)
(*   - handlers await the executor while they hold the lock.               *)
(*                                                                         *)
(* The executor is MotionContract, which MotionExecutor implements.  Time  *)
(* is left to chance: an event expires, the voice stops being busy and a   *)
(* cooldown ends at any moment.  Presence, turn and input identifiers only *)
(* lead to early returns and are left out.                                 *)
(***************************************************************************)
EXTENDS Naturals, FiniteSets

CONSTANTS
  Decisions,  \* decision ids, used in any order, each once
  Sessions,   \* sessions of the voice owner
  Contexts,   \* its turns: a session and a counter
  Kinds,      \* kinds of events that lead to a decision, of AllKinds
  Loses,      \* the executor may lose a result, to an interrupt of its own
  None

\* "speech", "look_up", "return" and "call" are finals of the voice owner
\* ("call" wakes), "wake" is the operator's; "smile" only asks for a sound.
AllKinds == {"presence", "smile", "wave", "wake", "call", "speech", "look_up", "return"}
Spoken   == {"call", "speech", "look_up", "return"}
Seen     == {"presence", "wave"}
Wakes    == {"call", "wake"}

VARIABLES
  context, connected, retired,  \* voice_context, voice_connected, retired_voice_sessions
  final, busy,                  \* voice_final is set; now < voice_busy_until
  stopped, resting, closed,     \* stopped, rest_requested, closed
  state,                        \* state: "resting", "responding" or another
  active, output,               \* active_id, output_id
  baseline,                     \* motion_baseline: its request and session
  decision,                     \* decisions, with the state of their tasks
  lock,                         \* the handler that holds the lock
  lease,                        \* the proactive link
  awaited, holder, token, broken, shut, offer, undone  \* the executor (MotionContract)

voiceVars  == <<context, connected, retired, final, busy>>
modeVars   == <<stopped, resting, closed>>
ownerVars  == <<active, output>>
motionVars == <<awaited, holder, token, broken, shut, offer, undone>>
vars == <<voiceVars, modeVars, state, ownerVars, baseline, decision, lock, lease, motionVars>>

Motion == INSTANCE MotionContract WITH
  Ids <- Decisions, Turns <- {"ours"}, Holders <- Decisions \cup {"lock", "close"},
  Free <- "free", Nothing <- None

ASSUME ControllerAssumption ==
  /\ Contexts \subseteq [session : Sessions, epoch : Nat]
  /\ Kinds \subseteq AllKinds /\ Loses \in BOOLEAN
  /\ None \notin Decisions /\ None \notin Contexts /\ None \notin AllKinds

\* Where a decision's task is.
Phases == {"none", "start", "speaking", "moving", "late", "halting",
           "closing", "failing", "done", "interrupted"}
Record == [kind : Kinds \cup {None}, by : {"voice", "visual", "body"}, turn : Contexts \cup {None}, phase : Phases,
           fresh : BOOLEAN,                              \* before its deadline
           motion : {"none", "waiting", "ok", "held", "bad"},
           voice : {"none", "queued", "rejected"},
           receipt : {"waiting", "started", "over"}]

\* Handlers that await the executor under the lock.
Handlers == {"turn", "disconnect", "stop", "cleared", "execute", "fail", "close"}
Locks == [op : Handlers, d : Decisions \cup {None}, stage : {"asks", "halts", "halted"}]
Baselines == [id : Decisions, session : Sessions]

\* Nobody, no baseline.
ASSUME NoneApart == None \notin Locks /\ None \notin Baselines

TypeOK ==
  /\ context \in Contexts \cup {None} /\ retired \subseteq Sessions
  /\ {connected, final, busy, stopped, resting, closed, broken, shut, undone} \subseteq BOOLEAN
  /\ state \in {"resting", "responding", "other"}
  /\ active \in Decisions \cup {None} /\ output \in Decisions \cup {None}
  /\ baseline \in Baselines \cup {None}
  /\ \A d \in Decisions : decision[d].phase = "none" \/ decision[d] \in Record
  /\ lock = None \/ lock \in Locks
  /\ lease \in {"off", "held", "leaving"}
  /\ awaited \subseteq Decisions /\ holder \in Decisions \cup {"free", "lock", "close"}

NoDecision == [kind |-> None, by |-> "body", turn |-> None, phase |-> "none", fresh |-> FALSE,
               motion |-> "none", voice |-> "none", receipt |-> "waiting"]

Init ==
  /\ context = None /\ connected = FALSE /\ retired = {} /\ final = FALSE /\ busy = FALSE
  /\ stopped = FALSE /\ resting = FALSE /\ closed = FALSE /\ state = "other"
  /\ active = None /\ output = None /\ baseline = None
  /\ decision = [d \in Decisions |-> NoDecision]
  /\ lock = None /\ lease \in {"off", "held"}
  /\ Motion!Begins

Quiet == IF resting THEN "resting" ELSE "other"

\* A decision whose task is over, finished or "interrupted": what it got is
\* kept for who asks (and left out here), only its receipts still matter.
Over(r, how) ==
  [NoDecision EXCEPT !.by = r.by, !.turn = r.turn, !.phase = how, !.receipt = r.receipt]

-----------------------------------------------------------------------------
(* Invalidation and the lock                                               *)

GivenUp == {active, output} \ {None}

\* _invalidate: the task of the active decision is cancelled, what was
\* active or sounding is interrupted.  (No task of another decision runs.)
Invalidated ==
  [d \in Decisions |->
     IF d \in GivenUp THEN Over(decision[d], "interrupted") ELSE decision[d]]

Invalidate == decision' = Invalidated /\ active' = None /\ output' = None

Unlocked == lock = None

\* MUTANT: a stop does not wait for the executor.
AwaitsUnlessStop(op, d) ==
  lock' = IF op = "stop" THEN None ELSE [op |-> op, d |-> d, stage |-> "asks"]

\* The handler goes on to await the executor.
Awaits(op, d) == lock' = [op |-> op, d |-> d, stage |-> "asks"]

\* Only an executor that loses results has its holds cut short.
Keeps == undone' => undone \/ Loses

Takes(who, turn, last) == Motion!Hold(who, turn, last) /\ Keeps

\* The executor's control lock is taken: for a turn of its own by a decision
\* (all tokens of ours are one here: the lock is kept from set_turn to
\* submit), for a stop by the others.
AsksMotion ==
  /\ lock # None /\ lock.stage = "asks"
  /\ Takes("lock", IF lock.op = "execute" THEN "ours" ELSE token, FALSE)
  /\ lock' = [lock EXCEPT !.stage = "halts"]
  /\ UNCHANGED <<voiceVars, modeVars, state, ownerVars, baseline, decision, lease>>

\* _stop_outputs drops the baseline when the stop is not confirmed.
KeptByStop == IF lock.op = "stop" /\ broken THEN None ELSE baseline

\* The executor returned.  All handlers but "execute" end here.
MotionHalted ==
  /\ lock # None /\ lock.stage = "halts"
  /\ Motion!Release("lock")
  /\ lock' = IF lock.op = "execute" THEN [lock EXCEPT !.stage = "halted"] ELSE None
  /\ baseline' = KeptByStop
  /\ lease' = IF lock.op = "disconnect" /\ lease # "off" THEN "leaving" ELSE lease
  /\ state' = IF lock.op = "cleared" /\ state # "resting" THEN "other" ELSE state
  /\ UNCHANGED <<voiceVars, modeVars, ownerVars, decision>>

-----------------------------------------------------------------------------
(* The voice owner's turns                                                 *)

\* MUTANT: a session that was left may come back.
OlderEpoch(s, e) == context # None /\ context.session = s /\ e < context.epoch

Stale(s, e) == s \in retired \/ (context # None /\ context.session = s /\ e < context.epoch)

SameTurn(s, e) == context = [session |-> s, epoch |-> e]

\* voice_turn for the turn it already knows.
RepeatTurn(s, e, reason) ==
  /\ Unlocked /\ ~closed /\ ~Stale(s, e) /\ SameTurn(s, e)
  /\ connected' = TRUE
  /\ LET speaks == reason = "speech_started" /\ ~final
     IN /\ busy' = (busy \/ speaks)
        /\ state' = IF speaks /\ ~resting THEN "other" ELSE state
  /\ UNCHANGED <<context, retired, final, modeVars, ownerVars, baseline, decision, lock, lease, motionVars>>

\* MUTANT: a new session inherits the baseline of the one before.
KeptAcrossSessions(s) == baseline

BaselineFor(s) ==
  IF context # None /\ context.session # s THEN None ELSE baseline

\* voice_turn for a new turn: everything of the old one is given up.
VoiceTurn(s, e, reason) ==
  /\ Unlocked /\ ~closed /\ ~Stale(s, e) /\ ~SameTurn(s, e)
  /\ retired' = retired \cup (IF context # None /\ context.session # s
                              THEN {context.session} ELSE {})
  /\ baseline' = BaselineFor(s)
  /\ Invalidate
  /\ context' = [session |-> s, epoch |-> e]
  /\ final' = FALSE /\ connected' = TRUE /\ busy' = (reason = "speech_started")
  /\ stopped' = (resting \/ reason = "interrupt")
  /\ state' = Quiet
  /\ Awaits("turn", None)
  /\ UNCHANGED <<resting, closed, lease, motionVars>>

DisconnectVoice ==
  /\ Unlocked /\ connected
  /\ connected' = FALSE /\ baseline' = None /\ busy' = FALSE
  /\ retired' = retired \cup (IF context = None THEN {} ELSE {context.session})
  /\ Invalidate
  /\ state' = Quiet
  /\ Awaits("disconnect", None)
  /\ UNCHANGED <<context, final, modeVars, lease, motionVars>>

-----------------------------------------------------------------------------
(* Events                                                                  *)

\* A final of the voice owner is for the turn in progress and is the first.
Heard == connected /\ context # None /\ ~final

Receives(spoken) ==
  /\ Unlocked /\ ~closed
  /\ spoken => Heard
  /\ final' = (final \/ spoken)
  /\ UNCHANGED <<context, connected, retired>>

\* stop, palm_stop or rest, by anyone.
Stop(spoken, rests) ==
  /\ Receives(spoken)
  /\ Invalidate
  /\ stopped' = TRUE /\ resting' = (resting \/ rests)
  /\ state' = IF resting' THEN "resting" ELSE "other"
  /\ Awaits("stop", None)
  /\ UNCHANGED <<busy, closed, baseline, lease, motionVars>>

Rank(kind) ==
  CASE kind = "presence" -> 10 [] kind = "smile" -> 20 [] kind = "wave" -> 30
    [] kind = "wake" -> 60 [] OTHER -> 70
ActiveRank == IF active = None THEN 0 ELSE Rank(decision[active].kind)

\* Nobody is visible any more.
PresenceCleared ==
  /\ Receives(FALSE)
  /\ ActiveRank <= 30 /\ output = None /\ ~busy
  /\ Invalidate
  /\ Awaits("cleared", None)
  /\ UNCHANGED <<busy, modeVars, state, baseline, lease, motionVars>>

BaselineOf(turn) == baseline # None /\ baseline.session = turn.session

\* What the event does to stopped and to rest before it is weighed: a wake
\* ends both, an explicit return ends a stop.
Rouses(kind) ==
  /\ stopped' = (stopped /\ kind \notin Wakes /\ ~(kind = "return" /\ ~resting))
  /\ resting' = (resting /\ kind \notin Wakes)
  /\ UNCHANGED closed

\* Too low, out of order, in its cooldown, outranked: no decision is made,
\* yet a final is consumed and a wake or a return has ended the stop.
Suppress(kind) ==
  /\ kind # "smile" /\ Receives(kind \in Spoken)
  /\ \/ kind = "return" /\ ~BaselineOf(context) /\ baseline' = None /\ UNCHANGED modeVars
     \/ (kind = "return" => BaselineOf(context)) /\ Rouses(kind) /\ UNCHANGED baseline
     \/ UNCHANGED <<modeVars, baseline>>
  /\ UNCHANGED <<busy, state, ownerVars, decision, lock, lease, motionVars>>

\* An event becomes the active decision, in the place of the one before.
Decide(d, kind) ==
  /\ kind # "smile" /\ decision[d] = NoDecision
  /\ Receives(kind \in Spoken)
  /\ kind = "return" => BaselineOf(context)
  /\ Rouses(kind) /\ ~stopped'
  /\ kind \in Seen => ~busy
  /\ Rank(kind) >= ActiveRank
  /\ decision' = [Invalidated EXCEPT ![d] =
       [NoDecision EXCEPT !.kind = kind, !.phase = "start", !.fresh = TRUE,
          !.by = IF kind \in Spoken THEN "voice" ELSE "body",
          !.turn = IF kind \in Spoken THEN context ELSE None]]
  /\ active' = d /\ output' = None
  /\ busy' = (busy \/ kind \in Spoken)
  /\ state' = "other"
  /\ UNCHANGED <<baseline, lock, lease, motionVars>>

\* smile_sound asks for a sound only for a fresh, confident, stable smile of
\* the one face in view; every other cue is an observation.
Cues == {"stable_smile", "other"}
Sounds(cue) == cue = "stable_smile"

\* accept_visual
Smile(d, cue) ==
  /\ Receives(FALSE) /\ Sounds(cue) /\ decision[d] = NoDecision
  /\ ~stopped /\ ~resting /\ active = None /\ output = None /\ ~busy
  /\ lease = "held" /\ connected /\ context # None
  /\ decision' = [decision EXCEPT ![d] =
       [NoDecision EXCEPT !.kind = "smile", !.phase = "start", !.fresh = TRUE,
          !.by = "visual", !.turn = context]]
  /\ active' = d /\ state' = "responding"
  /\ UNCHANGED <<busy, modeVars, output, baseline, lock, lease, motionVars>>

-----------------------------------------------------------------------------
(* The task of a decision (_execute)                                       *)

At(d, phase) == decision[d].phase = phase
Becomes(d, r) == decision' = [decision EXCEPT ![d] = r]

Live(d) == ~closed /\ ~stopped /\ active = d /\ decision[d].fresh

\* Not live any more: dropped, and active no longer.
Drops(d) ==
  /\ Becomes(d, Over(decision[d], "done"))
  /\ active' = IF active = d THEN None ELSE active
  /\ state' = IF active = d THEN "other" ELSE state
  /\ lock' = None
  /\ UNCHANGED output

Start(d) ==
  /\ Unlocked /\ At(d, "start") /\ decision[d].by # "visual"
  /\ IF Live(d) THEN Awaits("execute", d) /\ UNCHANGED <<state, ownerVars, decision>>
                ELSE Drops(d)
  /\ UNCHANGED <<voiceVars, modeVars, baseline, lease, motionVars>>

Executing(d) == lock # None /\ lock.op = "execute" /\ lock.d = d /\ lock.stage = "halted"

Bound(d) == decision[d].kind = "return" => BaselineOf(decision[d].turn)

\* submit, the answer that follows at once, and the check before the sound.
Submits(d, queued) ==
  LET speaks == decision[d].by = "voice"
      motion == IF queued THEN "waiting" ELSE "bad"
  IN /\ Becomes(d, [decision[d] EXCEPT !.motion = motion,
                      !.phase = IF speaks THEN "speaking"
                                ELSE IF queued THEN "moving" ELSE "closing"])
     /\ output' = IF speaks THEN d ELSE output
     /\ state' = "responding"
     /\ lock' = None
     /\ UNCHANGED active

Execute(d) ==
  /\ Executing(d)
  /\ IF ~Live(d) \/ ~Bound(d)
     THEN Drops(d) /\ UNCHANGED motionVars
     ELSE \/ Submits(d, TRUE) /\ Motion!Accept(d, "ours")
          \/ Submits(d, FALSE) /\ UNCHANGED motionVars
  /\ UNCHANGED <<voiceVars, modeVars, baseline, lease>>

\* The voice service answers, or does not.
VoiceAnswers(d, answer) ==
  /\ At(d, "speaking")
  /\ Becomes(d, [decision[d] EXCEPT !.voice = answer,
                   !.phase = IF decision[d].motion = "waiting" THEN "moving" ELSE "closing"])
  /\ UNCHANGED <<voiceVars, modeVars, state, ownerVars, baseline, lock, lease, motionVars>>

VoiceRaises(d) ==
  /\ At(d, "speaking")
  /\ Becomes(d, [decision[d] EXCEPT !.phase = "failing"])
  /\ UNCHANGED <<voiceVars, modeVars, state, ownerVars, baseline, lock, lease, motionVars>>

\* The exception handler.
Fails(d) ==
  /\ Unlocked /\ At(d, "failing")
  /\ Becomes(d, Over(decision[d], "done"))
  /\ IF active = d
     THEN active' = None /\ output' = None /\ state' = "other" /\ Awaits("fail", d)
     ELSE UNCHANGED <<state, ownerVars, lock>>
  /\ UNCHANGED <<voiceVars, modeVars, baseline, lease, motionVars>>

WaitReturns(d, result) ==
  /\ At(d, "moving") /\ d \notin awaited
  /\ result = "held" => decision[d].kind = "look_up"
  /\ Becomes(d, [decision[d] EXCEPT !.motion = result, !.phase = "closing"])
  /\ UNCHANGED <<voiceVars, modeVars, state, ownerVars, baseline, lock, lease, motionVars>>

\* The wait gives up while the executor still has the request.  The stop it
\* asks for is not under the controller's lock.
WaitTimesOut(d) ==
  /\ At(d, "moving") /\ d \in awaited
  /\ Becomes(d, [decision[d] EXCEPT !.phase = "late"])
  /\ UNCHANGED <<voiceVars, modeVars, state, ownerVars, baseline, lock, lease, motionVars>>

LateAsks(d) ==
  /\ At(d, "late") /\ Takes(d, token, FALSE)
  /\ Becomes(d, [decision[d] EXCEPT !.phase = "halting"])
  /\ UNCHANGED <<voiceVars, modeVars, state, ownerVars, baseline, lock, lease>>

\* MUTANT: a stop whose caller was cancelled is not finished.
LateAbandoned(d) ==
  /\ At(d, "halting") /\ Motion!Release(d)
  /\ Becomes(d, [decision[d] EXCEPT !.motion = "bad", !.phase = "closing"])
  /\ UNCHANGED <<voiceVars, modeVars, state, ownerVars, baseline, lock, lease>>

\* The executor finishes the stop even when its caller was cancelled.
LateHalted(d) ==
  /\ Motion!Release(d)
  /\ IF At(d, "halting")
     THEN Becomes(d, [decision[d] EXCEPT !.motion = "bad", !.phase = "closing"])
     ELSE UNCHANGED decision
  /\ UNCHANGED <<voiceVars, modeVars, state, ownerVars, baseline, lock, lease>>

\* MUTANT: a receipt that has already arrived is waited for.
WaitsAnyway(d) == decision[d].voice = "queued"

Waiting(d) == decision[d].voice = "queued" /\ decision[d].receipt # "over"

\* What the finished decision makes of the baseline.
BaselineAfter(d) ==
  LET r == decision[d]
  IN CASE broken -> None
       [] r.motion = "held" -> [id |-> d, session |-> r.turn.session]
       [] r.kind = "return" -> None
       [] OTHER -> baseline

Closes(d) ==
  /\ Unlocked /\ At(d, "closing") /\ decision[d].by # "visual"
  /\ IF active # d
     THEN /\ Becomes(d, Over(decision[d], "interrupted"))
          /\ UNCHANGED <<state, ownerVars, baseline>>
     ELSE /\ baseline' = BaselineAfter(d)
          /\ Becomes(d, [Over(decision[d], "done") EXCEPT !.fresh = Waiting(d) /\ decision[d].fresh])
          /\ active' = None
          /\ output' = IF Waiting(d) THEN d ELSE None
          /\ state' = IF Waiting(d) THEN "responding" ELSE "other"
  /\ UNCHANGED <<voiceVars, modeVars, lock, lease, motionVars>>

-----------------------------------------------------------------------------
(* The task of a smile (execute_visual) runs without the lock to its end   *)

SmileStarts(d) ==
  /\ At(d, "start") /\ decision[d].by = "visual"
  /\ IF Live(d) /\ connected /\ context = decision[d].turn
     THEN /\ Becomes(d, [decision[d] EXCEPT !.phase = "speaking"]) /\ output' = d
     ELSE /\ Becomes(d, [decision[d] EXCEPT !.phase = "closing"])
          /\ UNCHANGED output
  /\ UNCHANGED <<voiceVars, modeVars, state, active, baseline, lock, lease, motionVars>>

\* The owner of the sound answers once, or the request fails.
SmileAnswered(d, answer) ==
  /\ At(d, "speaking") /\ decision[d].by = "visual"
  /\ Becomes(d, [decision[d] EXCEPT !.phase = "closing", !.voice = answer])
  /\ UNCHANGED <<voiceVars, modeVars, state, ownerVars, baseline, lock, lease, motionVars>>

SmileCloses(d) ==
  /\ Unlocked /\ At(d, "closing") /\ decision[d].by = "visual"
  /\ Becomes(d, [Over(decision[d], "done") EXCEPT !.fresh = Waiting(d) /\ decision[d].fresh])
  /\ active' = IF active = d THEN None ELSE active
  /\ output' = IF output = d /\ ~Waiting(d)
               THEN None ELSE output
  /\ state' = IF active' # None THEN state
              ELSE IF output' # None THEN "responding" ELSE Quiet
  /\ UNCHANGED <<voiceVars, modeVars, baseline, lock, lease, motionVars>>

-----------------------------------------------------------------------------
(* Receipts, expiry, links and the end                                     *)

\* Until the sound is known to have started it is waited for: "queued" tells
\* nothing new.
Told(r) == IF r = "queued" THEN "waiting" ELSE r
Order(r) == CASE r = "waiting" -> 1 [] r = "started" -> 2 [] OTHER -> 3

\* MUTANT: whatever arrives last is believed.
AnyNews(d, r) == TRUE

\* A receipt that is not older than what is known.
News(d, r) ==
  LET prior == decision[d].receipt
  IN prior # "over" /\ ~(prior = "started" /\ r = "queued")

OutputAfter(d, r) == IF output = d /\ r = "over" THEN None ELSE output

\* voice_receipt and visual_receipt: of any decision that ever asked for a
\* sound, late, repeated and out of order.
Receipt(d, r) ==
  /\ Unlocked
  /\ decision[d].turn # None /\ decision[d].phase \notin {"none", "start"}
  /\ News(d, r)
  /\ Becomes(d, [decision[d] EXCEPT !.receipt = Told(r)])
  /\ output' = OutputAfter(d, r)
  /\ state' = IF output = d /\ r = "over" /\ (decision[d].by = "visual" => active = None)
              THEN Quiet ELSE state
  /\ UNCHANGED <<voiceVars, modeVars, active, baseline, lock, lease, motionVars>>

\* tick: a receipt is awaited until the decision expires.
Tick ==
  /\ Unlocked /\ output # None /\ ~decision[output].fresh
  /\ Becomes(output, [decision[output] EXCEPT !.receipt = "over"])
  /\ output' = None /\ state' = Quiet
  /\ UNCHANGED <<voiceVars, modeVars, active, baseline, lock, lease, motionVars>>

\* The deadline is looked at while the task runs or its receipt is awaited.
Expires(d) ==
  /\ decision[d].fresh
  /\ Becomes(d, [decision[d] EXCEPT !.fresh = FALSE])
  /\ UNCHANGED <<voiceVars, modeVars, state, ownerVars, baseline, lock, lease, motionVars>>

BusyEnds ==
  /\ busy /\ busy' = FALSE
  /\ UNCHANGED <<context, connected, retired, final, modeVars, state, ownerVars, baseline, decision, lock, lease, motionVars>>

\* The proactive link is lost, or silent for 1.5 seconds.
LeaseEnds ==
  /\ lease = "held" /\ lease' = "leaving"
  /\ UNCHANGED <<voiceVars, modeVars, state, ownerVars, baseline, decision, lock, motionVars>>

\* disconnect_proactive, at the end of the link.
DisconnectProactive ==
  /\ Unlocked /\ lease = "leaving" /\ lease' = "off"
  /\ LET current == IF active # None THEN active ELSE output
     IN IF current # None /\ decision[current].by = "visual"
        THEN Invalidate /\ state' = Quiet
        ELSE UNCHANGED <<state, ownerVars, decision>>
  /\ UNCHANGED <<voiceVars, modeVars, baseline, lock, motionVars>>

Close ==
  /\ Unlocked /\ ~closed /\ closed' = TRUE
  /\ Invalidate
  /\ state' = "other"
  /\ Awaits("close", None)
  /\ UNCHANGED <<voiceVars, stopped, resting, baseline, lease, motionVars>>

\* After the tasks have ended the executor is closed, then the links.
ClosesMotion ==
  /\ closed /\ Unlocked /\ ~shut
  /\ \A d \in Decisions : decision[d].phase \in {"none", "done", "interrupted"}
  /\ Takes("close", token, TRUE)
  /\ UNCHANGED <<voiceVars, modeVars, state, ownerVars, baseline, decision, lock, lease>>

MotionClosed ==
  /\ Motion!Release("close")
  /\ lease' = IF lease # "off" THEN "leaving" ELSE lease
  /\ UNCHANGED <<voiceVars, modeVars, state, ownerVars, baseline, decision, lock>>

\* The executor works by itself.
MotionWorks ==
  /\ UNCHANGED offer /\ Motion!Work /\ Keeps
  /\ UNCHANGED <<voiceVars, modeVars, state, ownerVars, baseline, decision, lock, lease>>

-----------------------------------------------------------------------------

Reasons == {"snapshot", "speech_started", "interrupt"}

Outside ==
  \/ \E c \in Contexts, reason \in Reasons :
       RepeatTurn(c.session, c.epoch, reason) \/ VoiceTurn(c.session, c.epoch, reason)
  \/ DisconnectVoice
  \/ \E spoken, rests \in BOOLEAN : Stop(spoken, rests)
  \/ PresenceCleared
  \/ \E kind \in Kinds : Suppress(kind)
  \/ \E d \in Decisions, kind \in Kinds : Decide(d, kind)
  \/ "smile" \in Kinds /\ \E d \in Decisions, cue \in Cues : Smile(d, cue)
  \/ \E d \in Decisions, r \in {"queued", "started", "over"} : Receipt(d, r)
  \/ LeaseEnds
  \/ Close

Handler == AsksMotion \/ MotionHalted \/ \E d \in Decisions : Execute(d)

\* The steps of a task that need no lock.
Task(d) ==
  \/ \E answer \in {"queued", "rejected"} : decision[d].by # "visual" /\ VoiceAnswers(d, answer)
  \/ decision[d].by # "visual" /\ VoiceRaises(d)
  \/ \E result \in {"ok", "held", "bad"} : WaitReturns(d, result)
  \/ WaitTimesOut(d) \/ LateAsks(d) \/ LateHalted(d)
  \/ SmileStarts(d)
  \/ \E answer \in {"queued", "rejected", "none"} : SmileAnswered(d, answer)

\* The steps of a task that wait for the lock.
LockedTask(d) == Start(d) \/ Fails(d) \/ Closes(d) \/ SmileCloses(d)

Service == DisconnectProactive \/ ClosesMotion \/ MotionClosed

Next ==
  \/ Outside \/ Handler \/ Service \/ Tick \/ BusyEnds \/ MotionWorks
  \/ \E d \in Decisions : Task(d) \/ LockedTask(d) \/ Expires(d)

Spec == Init /\ [][Next]_vars

\* Results arrive while the executor has lost none.
ResultArrives == ~undone /\ MotionWorks /\ awaited' = {}

\* asyncio.Lock is first come first served, so what waits for it gets it (SF);
\* calls to the voice service and waits for a motion have timeouts.
FairSpec ==
  /\ Spec
  /\ WF_vars(Handler) /\ WF_vars(ResultArrives) /\ SF_vars(Tick) /\ SF_vars(Service)
  /\ \A d \in Decisions :
       WF_vars(Task(d)) /\ SF_vars(LockedTask(d)) /\ WF_vars(Expires(d))

-----------------------------------------------------------------------------
(* Properties                                                              *)

\* When a stop, an interrupting turn or the close has been handled, the
\* executor has nothing of ours, whatever was decided around it
\* (controller.py handle, voice_turn, close); but for a result it has lost itself,
\* when an interrupt cut a hold of the robot short.
StoppedIsStill ==
  Unlocked /\ (stopped \/ closed) => undone \/ awaited = {}

\* A turn of the voice owner is answered by one decision, also when sessions
\* come and go and their events are late (controller.py voice_turn, _accept).
OnePerTurn ==
  \A d, e \in Decisions :
    /\ decision[d].by = "voice" /\ decision[e].by = "voice"
    /\ decision[d].turn = decision[e].turn
    => d = e

\* The pose that "return" refers to was taken in the session that is heard
\* now (controller.py lines 120-124, 139-142, 314-331).
BaselineCurrent ==
  baseline # None => connected /\ baseline.session = context.session /\ context.session \notin retired

\* Rest is shown until the pet is woken, whatever ends in between.
RestShown == resting /\ ~closed => stopped /\ state = "resting"

\* A sound is waited for only while its receipt is open, and by a decision
\* that was not interrupted; between two handlers a pet shown as responding has one of the two.
OutputLive ==
  /\ output # None =>
       decision[output].receipt # "over" /\ decision[output].phase # "interrupted"
  /\ Unlocked /\ state = "responding" => active # None \/ output # None

\* What the pet shows is true.
ShownTruly == RestShown /\ OutputLive

\* Receipts never go back, though they come late, twice and out of order.
ReceiptsAdvance ==
  [][\A d \in Decisions : Order(decision'[d].receipt) >= Order(decision[d].receipt)]_vars

\* Every decision comes to an end.
DecisionsEnd ==
  \A d \in Decisions : (decision[d].phase \notin {"none", "done", "interrupted"}) ~> (decision[d].phase \in {"done", "interrupted"})

\* No sound is waited for for ever, and no handler holds the lock for ever.
OutputReleased == \A d \in Decisions : (output = d) ~> (output # d)
LockReleased == (lock # None) ~> (lock = None)

\* Whatever the pet has begun it ends.
AllEnds == DecisionsEnd /\ OutputReleased /\ LockReleased

=============================================================================
