--------------------------- MODULE MotionExecutor ---------------------------
(***************************************************************************)
(* pet_motion/executor.py, with the posture and micro runs it delegates to *)
(* (posture.py, micro.py): one asyncio loop that owns the robot's motion.  *)
(*                                                                         *)
(*   - callers submit semantic actions; a bounded FIFO holds them;         *)
(*   - one worker task takes them off the queue and runs each as a task of *)
(*     its own, the active task, against the robot's motion daemon;        *)
(*   - stop, turn change, close, retirement of the voice session and the   *)
(*     owner's review run one at a time under a control lock.              *)
(*                                                                         *)
(* The unit of interleaving is the code between two awaits.  Time is left  *)
(* to chance: a deadline may pass whenever its timer is armed.             *)
(***************************************************************************)
EXTENDS Integers, Sequences, FiniteSets

CONSTANTS
  Ids,              \* request ids the callers use (they may reuse one)
  Turns,            \* opaque turn tokens
  Kinds,            \* the kinds of mapping enabled, a subset of AllKinds
  Capacity,         \* capacity of the queue
  HistoryLimit,     \* results kept for duplicate detection
  MaxStops,         \* how many ids may have a stop waiting for the control lock
  MayCut,           \* the handlers that another interrupt may cut short
  None              \* Python's None, for turns and baselines

\* "clip" is a recorded move; the other kinds are built from daemon gotos.
AllKinds == {"clip", "micro", "look_up", "return_to_start"}
Posture  == {"look_up", "return_to_start"}

\* Phases in which the task deals with a failure or an earlier interrupt.
Handling == {"post_cancelled", "stop", "reread", "hold"}

ASSUME ExecutorAssumption ==
  /\ Kinds \subseteq AllKinds
  /\ Capacity \in Nat \ {0}
  /\ HistoryLimit \in Nat
  /\ HistoryLimit >= Capacity + 1
  /\ MaxStops \in Nat
  /\ MayCut \subseteq Handling
  /\ None \notin Ids \cup Turns \cup AllKinds

VARIABLES
  closed, fault,        \* _closed; a fault is latched in _fault
  turn,                 \* _turn
  queue,                \* _queue: the requests waiting
  futures,              \* _futures: the ids whose result is awaited
  status,               \* _results: "absent" when no result is retained
  control, waitingFor,  \* holder of _control, and what it awaits
  stops,                \* the ids of stops that wait for _control
  cut,                  \* history: the handlers an interrupt has cut short
  worker, wake,         \* the worker task and its _wake event
  task,                 \* _active
  baseline, seed,       \* _baseline (named by its request), _posture_seed
  invalidated,          \* _posture_session_invalidated
  move, pose,           \* external: our last move in the daemon, and where
                        \* the head is relative to the measured origin
  late, astray          \* external: the kinds of move whose POST was given up
                        \* on and may still arrive; the one that did and runs

queueVars   == <<queue, futures, status>>
controlVars == <<control, waitingFor, stops, cut>>
workerVars  == <<worker, wake>>
postureVars == <<baseline, seed, invalidated>>
worldVars   == <<move, pose, late, astray>>
vars == <<closed, fault, turn, queueVars, controlVars, workerVars, task,
          postureVars, worldVars>>

Terminal == {"completed", "cancelled", "expired", "failed", "rejected"}
Statuses == {"absent", "queued", "running", "stopped"} \cup Terminal

Phases == {"none", "measure", "connect", "post", "post_cancelled", "run",
           "stop", "settle", "reread", "hold", "done", "crashed"}
\* Why the task is stopping a move ("cancelled", "expired", "lost") or
\* holding still ("leg": a leg failed, "cancel", "exception").
Reasons == {"", "cancelled", "expired", "lost", "leg", "cancel", "exception"}

Requests == [id : Ids, kind : Kinds, turn : Turns, baseline : Ids \cup {None}]
NoRequest == [id |-> None, kind |-> None, turn |-> None, baseline |-> None]

Tasks == [request : Requests \cup {NoRequest}, phase : Phases, leg : {1, 2},
          uuid : BOOLEAN,    \* the last leg knew the UUID of its move
          sent : BOOLEAN,    \* the daemon has started this leg's move
          byControl : BOOLEAN, byDeadline : BOOLEAN,  \* interrupts delivered
          why : Reasons, previous : Ids \cup {None},
          out : Terminal \cup {""}]

NoTask == [request |-> NoRequest, phase |-> "none", leg |-> 1, uuid |-> FALSE,
           sent |-> FALSE, byControl |-> FALSE, byDeadline |-> FALSE,
           why |-> "", previous |-> None, out |-> ""]

Operations == {"cancel", "set_turn", "close", "invalidate", "review"}

\* The handlers that leave something undone when they are cut short.
Cuts == {"post_cancelled", "stop", "hold"}

\* A holder of the control lock is an operation or the id of a stop.
ASSUME HolderAssumption == Ids \cap ({"free"} \cup Operations) = {}

TypeOK ==
  /\ closed \in BOOLEAN /\ fault \in BOOLEAN
  /\ turn \in Turns \cup {None}
  /\ queue \in Seq(Requests) /\ Len(queue) <= Capacity
  /\ futures \subseteq Ids
  /\ status \in [Ids -> Statuses]
  /\ control \in {"free"} \cup Operations \cup Ids
  /\ waitingFor \in {"nothing", "task", "pin", "pinned", "review"}
  /\ stops \subseteq Ids /\ cut \subseteq Cuts
  /\ worker \in {"none", "waiting", "loop", "busy", "exited", "dead"}
  /\ wake \in BOOLEAN
  /\ task \in Tasks
  /\ baseline \in Ids \cup {None} /\ seed \in BOOLEAN
  /\ invalidated \in BOOLEAN
  /\ move \in {"none", "running", "completed", "cancelled", "failed"}
  /\ pose \in {"origin", "away"}
  /\ late \subseteq AllKinds /\ astray \in AllKinds \cup {None}

Init ==
  /\ closed = FALSE /\ fault = FALSE /\ turn = None
  /\ queue = <<>> /\ futures = {} /\ status = [i \in Ids |-> "absent"]
  /\ control = "free" /\ waitingFor = "nothing"
  /\ stops = {} /\ cut = {}
  /\ worker = "none" /\ wake = FALSE /\ task = NoTask
  /\ baseline = None /\ seed = FALSE /\ invalidated = FALSE
  /\ move = "none" /\ pose = "origin" /\ late = {} /\ astray = None

-----------------------------------------------------------------------------
(* Admission state and the bookkeeping of results                          *)

Stopping  == control # "free"
Available == ~closed /\ ~Stopping /\ ~fault
Idle      == task.phase = "none"
Kind      == task.request.kind

\* Code that runs without an await: the worker between two tasks, and a
\* control operation with nothing to wait for.  No other step comes between.
Atomic == worker = "loop" \/ (Stopping /\ waitingFor = "nothing")

Queued == {queue[i].id : i \in 1 .. Len(queue)}
Retained(st) == {i \in Ids : st[i] # "absent"}

\* MUTANT: the history gives up the oldest result, awaited or not.
SaveNewForgetful(st, pending) ==
  IF Cardinality(Retained(st)) <= HistoryLimit
  THEN status' = st
  ELSE \E old \in Retained(st) : status' = [st EXCEPT ![old] = "absent"]

\* _save of an id not yet retained: at the limit a result goes, never one
\* that is still awaited.  (The code takes the oldest; here, any.)
SaveNew(st, pending) ==
  IF Cardinality(Retained(st)) <= HistoryLimit \/ Retained(st) \subseteq pending
  THEN status' = st
  ELSE \E old \in Retained(st) \ pending : status' = [st EXCEPT ![old] = "absent"]

\* MUTANT: what was queued is dropped without telling who waits for it.
DrainSilently ==
  queue' = <<>> /\ UNCHANGED <<futures, status>>

\* _drain: everything queued is cancelled.
Drain ==
  /\ queue' = <<>>
  /\ futures' = futures \ Queued
  /\ status' = [i \in Ids |-> IF i \in Queued THEN "cancelled" ELSE status[i]]

\* MUTANT: the fault is latched, what is queued stays.
TripOnly(found) ==
  fault' = (fault \/ found) /\ UNCHANGED queueVars

\* _trip when a fault is found: it is latched and the queue is drained.
\* (Its `_baseline = None` is in the actions, next to their other effects.)
TripIf(found) ==
  IF found THEN fault' = TRUE /\ Drain ELSE UNCHANGED <<fault, queueVars>>

-----------------------------------------------------------------------------
(* How the active task moves on                                            *)

Ended(t, phase, out) ==
  [request |-> t.request, phase |-> phase, leg |-> 1, uuid |-> FALSE,
   sent |-> FALSE, byControl |-> FALSE, byDeadline |-> FALSE,
   why |-> "", previous |-> None, out |-> out]

\* The run returns inside its timeout block: past the deadline a completed
\* or cancelled outcome is reported expired.
Returned(t, out) ==
  Ended(t, "done",
        IF t.byDeadline /\ out \in {"completed", "cancelled"} THEN "expired" ELSE out)

\* A CancelledError leaves the run.  When the deadline alone raised it the
\* timeout block turns it into a TimeoutError, which the worker does not catch.
Escaped(t) ==
  IF t.byDeadline /\ ~t.byControl THEN Ended(t, "crashed", "")
                                  ELSE Ended(t, "done", "cancelled")

Holding(t, reason)    == [t EXCEPT !.phase = "hold", !.why = reason]
StoppingMove(t, why)  == [t EXCEPT !.phase = "stop", !.why = why]

\* A posture keeps its baseline after a leg that was cancelled, if it had one.
KeepsHold(t, out, faulted) ==
  out = "cancelled" /\ t.previous # None /\ ~faulted

\* What a run does with the result of a leg (a call of _perform).
AfterLeg(t, out, faulted) ==
  CASE Kind # "clip" /\ out = "completed"          -> [t EXCEPT !.phase = "settle"]
    [] Kind # "clip" /\ out = "failed" /\ t.uuid   -> Holding(t, "leg")
    [] Kind \in Posture /\ KeepsHold(t, out, faulted) -> [t EXCEPT !.phase = "reread"]
    [] OTHER                                       -> Returned(t, out)

BaselineAfterLeg(t, out, faulted) ==
  IF Kind \in Posture /\ out # "completed" /\ ~KeepsHold(t, out, faulted)
  THEN None ELSE baseline

\* The leg ends with a result, latching a fault if it found one.
LegEnds(out, found, uuid) ==
  LET t == [task EXCEPT !.uuid = uuid]
      faulted == fault \/ found
  IN /\ task' = AfterLeg(t, out, faulted)
     /\ baseline' = IF found THEN None ELSE BaselineAfterLeg(t, out, faulted)
     /\ TripIf(found)

\* An exception in the verification of a posture or micro run.
VerificationFails(moved) ==
  /\ task' = IF moved THEN Holding(task, "exception") ELSE Returned(task, "failed")
  /\ baseline' = None
  /\ TripIf(TRUE)

\* Where a CancelledError finds the task, and what its handlers do.
Interrupted(t) ==
  CASE t.phase \in {"connect", "post_cancelled"} ->
         AfterLeg([t EXCEPT !.uuid = FALSE], "cancelled", fault)
    [] t.phase = "stop" -> AfterLeg([t EXCEPT !.uuid = TRUE], "cancelled", fault)
    [] t.phase = "post" -> [t EXCEPT !.phase = "post_cancelled"]
    [] t.phase = "run"  -> StoppingMove(t, "cancelled")
    [] t.phase = "hold" /\ t.why # "leg" -> Escaped(t)
    [] t.phase \in {"settle", "hold"} \/ (t.phase = "measure" /\ t.leg = 2)
         \/ (t.phase = "reread" /\ t.uuid) -> Holding(t, "cancel")
    [] OTHER -> Returned(t, IF fault THEN "failed" ELSE "cancelled")

\* A POST given up on before the daemon started its move may arrive later.
GivenUp(given_up) ==
  /\ late' = IF given_up /\ ~task.sent THEN late \cup {Kind} ELSE late
  /\ UNCHANGED <<move, pose, astray>>

\* task.cancel(): by a control operation, or by the run's timeout.
Interrupt(byControl) ==
  /\ task.phase \in Handling => task.phase \in MayCut
  /\ task' = Interrupted(IF byControl THEN [task EXCEPT !.byControl = TRUE]
                                      ELSE [task EXCEPT !.byDeadline = TRUE])
  /\ baseline' = IF task.phase \in {"connect", "post_cancelled", "stop"}
                 THEN BaselineAfterLeg(task, "cancelled", fault) ELSE baseline
  /\ cut' = cut \cup ({task.phase} \cap Cuts)
  /\ GivenUp(task.phase = "post_cancelled")

-----------------------------------------------------------------------------
(* Submission                                                              *)

\* MUTANT: only a request under way counts as a duplicate.
DuplicateUnderWay(id) == status[id] \in {"queued", "running"}

Duplicate(id) == status[id] # "absent"

\* submit answers at once without queueing: a stale turn, an expired or
\* malformed deadline, no admission, an unknown, unapproved, retired or
\* motionless semantic, dry run, a wrong baseline, a full queue.
Refuse(id) ==
  /\ ~Atomic
  /\ ~Duplicate(id)
  /\ SaveNew([status EXCEPT ![id] = "rejected"], futures)
  /\ UNCHANGED <<closed, fault, turn, queue, futures, controlVars, workerVars,
                 task, postureVars, worldVars>>

\* MUTANT: any turn will do.
AnyTurn(request) == TRUE

RightTurn(request) == request.turn = turn

\* MUTANT: the retirement of the session is not looked at.
PostureAnyway(request) ==
  request.kind = "return_to_start" => baseline # None /\ request.baseline = baseline

PostureAllowed(request) ==
  /\ request.kind \in Posture => ~invalidated
  /\ request.kind = "return_to_start" => baseline # None /\ request.baseline = baseline

HasRoom == Len(queue) < Capacity

Admissible(request) ==
  Available /\ RightTurn(request) /\ PostureAllowed(request) /\ HasRoom

Submit(request) ==
  /\ ~Atomic
  /\ ~Duplicate(request.id)
  /\ Admissible(request)
  /\ request.kind # "return_to_start" => request.baseline = None  \* not looked at
  /\ queue' = Append(queue, request)
  /\ futures' = futures \cup {request.id}
  /\ SaveNew([status EXCEPT ![request.id] = "queued"], futures')
  /\ wake' = TRUE
  /\ worker' = IF worker = "none" THEN "waiting" ELSE worker
  /\ UNCHANGED <<closed, fault, turn, controlVars, task, postureVars, worldVars>>

-----------------------------------------------------------------------------
(* Control operations                                                      *)

\* _cancel: drain, then interrupt the active task and wait for its end, or,
\* with nothing active, pin a posture that is being held.
Cancel(reason) ==
  /\ Drain
  /\ IF Idle
     THEN /\ waitingFor' = IF reason = "cancelled" /\ baseline # None
                           THEN "pin" ELSE "nothing"
          /\ UNCHANGED <<task, cut, baseline, worldVars>>
     ELSE /\ waitingFor' = "task"
          /\ IF task.phase \in {"done", "crashed"}
             THEN UNCHANGED <<task, cut, baseline, worldVars>>
             ELSE Interrupt(TRUE)

Acquire(op) == ~Atomic /\ control = "free" /\ control' = op

BeginCancel ==
  /\ Acquire("cancel") /\ Cancel("cancelled")
  /\ UNCHANGED <<closed, fault, turn, stops, workerVars, seed, invalidated>>

\* submit("stop", request_id = id) looks for a duplicate, then waits for the
\* control lock.
StopWaits(id) ==
  /\ ~Atomic /\ Stopping
  /\ ~Duplicate(id) /\ Cardinality(stops \cup {id}) <= MaxStops
  /\ stops' = stops \cup {id}
  /\ UNCHANGED <<closed, fault, turn, queueVars, control, waitingFor, cut, workerVars,
                 task, postureVars, worldVars>>

\* A stop begins: one that found the lock free, or one that waited for it and
\* does not look again whether its id is taken by now.  (Another stop of its id
\* may still wait.)
BeginStop(id) ==
  /\ \/ ~Duplicate(id) /\ UNCHANGED stops
     \/ id \in stops /\ stops' \in {stops, stops \ {id}}
  /\ Acquire(id) /\ Cancel("cancelled")
  /\ UNCHANGED <<closed, fault, turn, workerVars, seed, invalidated>>

BeginSetTurn(new) ==
  /\ new # turn
  /\ Acquire("set_turn") /\ turn' = new /\ Cancel("turn_changed")
  /\ UNCHANGED <<closed, fault, stops, workerVars, seed, invalidated>>

BeginClose ==
  /\ Acquire("close") /\ closed' = TRUE /\ Cancel("closed")
  /\ UNCHANGED <<fault, turn, stops, workerVars, seed, invalidated>>

PendingPosture ==
  \/ \E i \in 1 .. Len(queue) : queue[i].kind \in Posture
  \/ Kind \in Posture

BeginInvalidate ==
  /\ Acquire("invalidate")
  /\ invalidated' = (invalidated \/ seed \/ baseline # None \/ PendingPosture)
  /\ Cancel("cancelled")
  /\ UNCHANGED <<closed, fault, turn, stops, workerVars, seed>>

BeginReview ==
  /\ Acquire("review")
  /\ ~closed /\ ~fault /\ Idle /\ queue = <<>>
  /\ invalidated /\ seed
  /\ waitingFor' = "review"
  /\ UNCHANGED <<closed, fault, turn, queueVars, stops, cut, workerVars, task, postureVars,
                 worldVars>>

\* The measured pose is the origin within the tolerance.
AtOrigin == pose = "origin"

\* Owner's review: only the measured origin lifts the retirement.
EndReview ==
  /\ waitingFor = "review"
  /\ control' = "free" /\ waitingFor' = "nothing"
  /\ \/ /\ AtOrigin
        /\ baseline' = None /\ seed' = FALSE /\ invalidated' = FALSE
     \/ UNCHANGED postureVars
  /\ UNCHANGED <<closed, fault, turn, queueVars, stops, cut, workerVars, task, worldVars>>

\* hold() inside _cancel
PinEnds(ok) ==
  /\ waitingFor = "pin" /\ waitingFor' = "pinned"
  /\ baseline' = IF ok THEN baseline ELSE None
  /\ TripIf(~ok)
  /\ UNCHANGED <<closed, turn, control, stops, cut, workerVars, task, seed, invalidated,
                 worldVars>>

\* MUTANT: _cancel does not wait until the worker has collected the result.
TaskReturned == task.phase \in {"none", "done", "crashed"}

\* The active task _cancel waits for is gone, or has raised.
TaskOver == task.phase \in {"none", "crashed"}

\* _cancel returns and its caller finishes; an interrupted caller of stop or
\* close skips the rest of its function.
EndControl(interrupted) ==
  /\ control \notin {"free", "review"}
  /\ \/ waitingFor \in {"nothing", "pinned"}
     \/ waitingFor = "task" /\ TaskOver
  /\ interrupted => waitingFor # "nothing"
  /\ control' = "free" /\ waitingFor' = "nothing"
  /\ IF control \in Ids /\ ~interrupted
     THEN /\ futures' = futures \ {control}
          /\ SaveNew([status EXCEPT ![control] = IF fault THEN "failed" ELSE "stopped"], futures')
     ELSE UNCHANGED <<futures, status>>
  /\ baseline' = IF control = "invalidate" \/ (control = "close" /\ ~interrupted)
                 THEN None ELSE baseline
  /\ seed' = (seed /\ ~(control = "close" /\ ~interrupted))
  /\ wake' = (wake \/ (control = "close" /\ ~interrupted))
  /\ UNCHANGED <<closed, fault, turn, queue, stops, cut, worker, task, invalidated, worldVars>>

-----------------------------------------------------------------------------
(* The worker                                                              *)

WorkerWakes ==
  /\ ~Atomic /\ worker = "waiting" /\ wake
  /\ worker' = "loop" /\ wake' = FALSE
  /\ UNCHANGED <<closed, fault, turn, queueVars, controlVars, task, postureVars, worldVars>>

WorkerPauses ==
  /\ worker = "loop" /\ (closed \/ queue = <<>>)
  /\ worker' = IF closed THEN "exited" ELSE "waiting"
  /\ UNCHANGED <<closed, fault, turn, queueVars, controlVars, wake, task, postureVars, worldVars>>

WorkerExpires ==
  /\ worker = "loop" /\ ~closed /\ queue # <<>>
  /\ LET id == Head(queue).id IN
     /\ status' = [status EXCEPT ![id] = "expired"]
     /\ futures' = futures \ {id}
  /\ queue' = Tail(queue)
  /\ UNCHANGED <<closed, fault, turn, controlVars, workerVars, task, postureVars, worldVars>>

WorkerStarts ==
  /\ worker = "loop" /\ ~closed /\ queue # <<>>
  /\ Head(queue).turn = turn
  /\ task' = [NoTask EXCEPT !.request = Head(queue),
                !.previous = IF Head(queue).kind \in Posture THEN baseline ELSE None,
                !.phase = IF Head(queue).kind = "clip" THEN "connect" ELSE "measure"]
  /\ queue' = Tail(queue)
  /\ worker' = "busy"
  /\ UNCHANGED <<closed, fault, turn, futures, status, controlVars, wake, postureVars, worldVars>>

WorkerCollects ==
  /\ ~Atomic /\ worker = "busy" /\ task.phase = "done"
  /\ status' = [status EXCEPT ![task.request.id] = task.out]
  /\ futures' = futures \ {task.request.id}
  /\ task' = NoTask
  /\ worker' = "loop"
  /\ UNCHANGED <<closed, fault, turn, queue, controlVars, wake, postureVars, worldVars>>

\* The exception of the active task ends the worker; _active stays set.
WorkerDies ==
  /\ ~Atomic /\ worker = "busy" /\ task.phase = "crashed"
  /\ worker' = "dead"
  /\ UNCHANGED <<closed, fault, turn, queueVars, controlVars, wake, task, postureVars, worldVars>>

-----------------------------------------------------------------------------
(* The active task: steps of a run.  Each is the code from one await to    *)
(* the next.                                                               *)

TaskAt(phase) ==
  /\ ~Atomic /\ task.phase = phase
  /\ UNCHANGED <<closed, turn, controlVars, workerVars, invalidated>>

\* The measurement before a leg.  look_up takes the origin the first time.
MeasureOk ==
  /\ TaskAt("measure")
  /\ Kind = "look_up" => task.previous = None
  /\ Kind = "return_to_start" => task.previous # None /\ task.request.baseline = task.previous
  /\ task' = [task EXCEPT !.phase = "connect", !.sent = FALSE]
  /\ seed' = (seed \/ Kind = "look_up")
  /\ UNCHANGED <<fault, queueVars, baseline, worldVars>>

\* look_up on a pose that is held already moves nothing.
MeasureAlreadyUp ==
  /\ TaskAt("measure") /\ Kind = "look_up" /\ task.previous # None
  /\ task' = Returned(task, "completed")
  /\ UNCHANGED <<fault, queueVars, baseline, seed, worldVars>>

\* Too little time, a baseline that expired or is not the request's; a pose
\* that is not the held one drops the baseline; a target out of bounds.
MeasureRejects ==
  /\ TaskAt("measure") /\ task.leg = 1
  /\ task' = Returned(task, "rejected")
  /\ \/ UNCHANGED <<baseline, seed>>
     \/ Kind \in Posture /\ baseline' = None /\ UNCHANGED seed
     \/ Kind = "look_up" /\ task.previous = None /\ seed' = TRUE /\ UNCHANGED baseline
  /\ UNCHANGED <<fault, queueVars, worldVars>>

MeasureFails ==
  /\ TaskAt("measure")
  /\ VerificationFails(task.leg = 2)
  /\ UNCHANGED <<seed, worldVars>>

\* The event socket is subscribed before the POST.
ConnectOk ==
  /\ TaskAt("connect")
  /\ task' = [task EXCEPT !.phase = "post"]
  /\ UNCHANGED <<fault, queueVars, baseline, seed, worldVars>>

ConnectLate ==
  /\ TaskAt("connect")
  /\ LegEnds("expired", FALSE, FALSE)
  /\ UNCHANGED <<seed, worldVars>>

ConnectFails ==
  /\ TaskAt("connect")
  /\ LegEnds("failed", TRUE, FALSE)
  /\ UNCHANGED <<seed, worldVars>>

PostAccepted ==
  /\ TaskAt("post") /\ task.sent
  /\ task' = [task EXCEPT !.phase = "run"]
  /\ status' = [status EXCEPT ![task.request.id] = "running"]
  /\ UNCHANGED <<fault, queue, futures, baseline, seed, worldVars>>

\* 409 drains the queue, another refusal does not; neither is a fault.
PostRefused ==
  /\ TaskAt("post") /\ ~task.sent
  /\ LET t == [task EXCEPT !.uuid = FALSE] IN
     /\ task' = AfterLeg(t, "rejected", fault)
     /\ baseline' = BaselineAfterLeg(t, "rejected", fault)
  /\ Drain \/ UNCHANGED queueVars
  /\ UNCHANGED <<fault, seed, worldVars>>

PostUnknown ==
  /\ TaskAt("post")
  /\ LegEnds("failed", TRUE, FALSE)
  /\ GivenUp(TRUE)
  /\ UNCHANGED seed

\* The answer to a POST whose caller was cancelled while it was under way.
LatePostAccepted ==
  /\ TaskAt("post_cancelled") /\ task.sent
  /\ task' = StoppingMove(task, "cancelled")
  /\ UNCHANGED <<fault, queueVars, baseline, seed, worldVars>>

LatePostFails ==
  /\ TaskAt("post_cancelled")
  /\ LegEnds("failed", TRUE, FALSE)
  /\ GivenUp(TRUE)
  /\ UNCHANGED seed

RunSeesEvent ==
  /\ TaskAt("run") /\ move # "running"
  /\ LegEnds(move, move = "failed", TRUE)
  /\ UNCHANGED <<seed, worldVars>>

RunTimesOut ==
  /\ TaskAt("run")
  /\ task' = StoppingMove(task, "expired")
  /\ UNCHANGED <<fault, queueVars, baseline, seed, worldVars>>

RunLosesEvents ==
  /\ TaskAt("run")
  /\ task' = StoppingMove(task, "lost")
  /\ baseline' = None /\ TripIf(TRUE)
  /\ UNCHANGED <<seed, worldVars>>

\* _stop: the matching event arrived and, for a goto, the hold was applied.
StopConfirmed ==
  /\ TaskAt("stop") /\ move \in {"completed", "cancelled"}
  /\ LegEnds(IF task.why = "lost" THEN "failed" ELSE task.why, FALSE, TRUE)
  /\ UNCHANGED <<seed, worldVars>>

\* MUTANT: a stop that was not confirmed is just a failure.
StopFailsQuietly ==
  /\ TaskAt("stop")
  /\ LegEnds("failed", FALSE, TRUE)
  /\ UNCHANGED <<seed, worldVars>>

\* No event within stop_timeout, a move_failed event, or a hold that failed.
StopFails ==
  /\ TaskAt("stop")
  /\ LegEnds("failed", TRUE, TRUE)
  /\ UNCHANGED <<seed, worldVars>>

\* Arrival is measured; a posture that holds becomes the new baseline.
SettleOk ==
  /\ TaskAt("settle")
  /\ Kind = "return_to_start" => AtOrigin
  /\ task' = IF Kind = "micro" /\ task.leg = 1
             THEN [task EXCEPT !.phase = "measure", !.leg = 2, !.uuid = FALSE]
             ELSE Returned(task, "completed")
  /\ baseline' = CASE Kind = "look_up"         -> task.request.id
                   [] Kind = "return_to_start" -> None
                   [] OTHER                    -> baseline
  /\ seed' = (seed /\ Kind # "return_to_start")
  /\ UNCHANGED <<fault, queueVars, worldVars>>

SettleFails ==
  /\ TaskAt("settle")
  /\ VerificationFails(TRUE)
  /\ UNCHANGED <<seed, worldVars>>

RereadOk ==
  /\ TaskAt("reread")
  /\ task' = Returned(task, "cancelled")
  /\ baseline' = task.previous
  /\ UNCHANGED <<fault, queueVars, seed, worldVars>>

RereadFails ==
  /\ TaskAt("reread")
  /\ VerificationFails(task.uuid)
  /\ UNCHANGED <<seed, worldVars>>

HoldOk ==
  /\ TaskAt("hold")
  /\ task' = Returned(task, IF task.why = "cancel" /\ ~fault THEN "cancelled" ELSE "failed")
  /\ baseline' = IF Kind \in Posture /\ task.why = "cancel" THEN task.previous ELSE baseline
  /\ UNCHANGED <<fault, queueVars, seed, worldVars>>

HoldFails ==
  /\ TaskAt("hold")
  /\ task' = Returned(task, "failed")
  /\ baseline' = None /\ TripIf(TRUE)
  /\ UNCHANGED <<seed, worldVars>>

\* The budget of a micro or posture run expires while it is waiting.
DeadlinePasses ==
  /\ ~Atomic /\ Kind # "clip" /\ ~task.byDeadline
  /\ task.phase \notin {"none", "done", "crashed"}
  /\ Interrupt(FALSE)
  /\ UNCHANGED <<closed, fault, turn, queueVars, control, waitingFor, stops, workerVars, seed,
                 invalidated>>

-----------------------------------------------------------------------------
(* External: the motion daemon                                             *)

DaemonStarts ==
  /\ ~Atomic
  /\ task.phase \in {"post", "post_cancelled"} /\ ~task.sent
  /\ move # "running" /\ astray = None
  /\ move' = "running"
  /\ pose' = IF Kind = "look_up" THEN "away" ELSE pose
  /\ task' = [task EXCEPT !.sent = TRUE]
  /\ UNCHANGED <<closed, fault, turn, queueVars, controlVars, workerVars, postureVars,
                 late, astray>>

\* Any move ends, by itself or stopped; only a completed return is at the origin.
DaemonEnds(how) ==
  /\ ~Atomic /\ move = "running"
  /\ move' = how
  /\ \/ pose' = pose
     \/ how = "completed" /\ task.sent /\ Kind = "return_to_start" /\ pose' = "origin"
  /\ UNCHANGED <<closed, fault, turn, queueVars, controlVars, workerVars, task, postureVars,
                 late, astray>>

\* A POST that was given up on arrives after all: its move starts, whatever
\* became of the executor meanwhile.  (Another of its kind may still follow.)
StrayStarts(kind) ==
  /\ ~Atomic
  /\ kind \in late /\ late' \in {late, late \ {kind}}
  /\ move # "running" /\ astray = None
  /\ astray' = kind
  /\ pose' = IF kind = "look_up" THEN "away" ELSE pose
  /\ UNCHANGED <<closed, fault, turn, queueVars, controlVars, workerVars, task, postureVars,
                 move>>

StrayEnds ==
  /\ ~Atomic /\ astray # None
  /\ astray' = None
  /\ pose' \in {pose} \cup (IF astray = "return_to_start" THEN {"origin"} ELSE {})
  /\ UNCHANGED <<closed, fault, turn, queueVars, controlVars, workerVars, task, postureVars,
                 move, late>>

-----------------------------------------------------------------------------

Caller ==
  \/ \E id \in Ids : Refuse(id)
  \/ \E request \in Requests : Submit(request)
  \/ BeginCancel \/ BeginClose \/ BeginInvalidate \/ BeginReview
  \/ \E id \in Ids : StopWaits(id) \/ BeginStop(id)
  \/ \E new \in Turns : BeginSetTurn(new)

Controller ==
  \/ EndReview
  \/ \E ok \in BOOLEAN : PinEnds(ok)
  \/ \E interrupted \in BOOLEAN : EndControl(interrupted)

Worker ==
  WorkerWakes \/ WorkerPauses \/ WorkerExpires \/ WorkerStarts \/ WorkerCollects \/ WorkerDies

Run ==
  \/ MeasureOk \/ MeasureAlreadyUp \/ MeasureRejects \/ MeasureFails
  \/ ConnectOk \/ ConnectLate \/ ConnectFails
  \/ PostAccepted \/ PostRefused \/ PostUnknown \/ LatePostAccepted \/ LatePostFails
  \/ RunSeesEvent \/ RunTimesOut \/ RunLosesEvents
  \/ StopConfirmed \/ StopFails
  \/ SettleOk \/ SettleFails \/ RereadOk \/ RereadFails \/ HoldOk \/ HoldFails

Daemon ==
  \/ DaemonStarts \/ \E how \in {"completed", "cancelled", "failed"} : DaemonEnds(how)
  \/ \E kind \in Kinds : StrayStarts(kind)
  \/ StrayEnds

Next == Caller \/ Controller \/ Worker \/ Run \/ DeadlinePasses \/ Daemon

Spec == Init /\ [][Next]_vars

\* Every await of the code is bounded by a timeout, so a started run, the
\* worker and a control operation go on; callers and the daemon need not.
FairSpec == Spec /\ WF_vars(Controller) /\ WF_vars(Worker) /\ WF_vars(Run)

-----------------------------------------------------------------------------
(* Properties                                                              *)

\* A request awaits its result exactly while it is queued or active, once:
\* no result is lost, none is evicted from the history before it is known
\* (executor.py _save, _drain, submit, _run).  Only a run that has crashed may
\* be answered by a stop of its id instead, and its id be used again.
PendingAccounted ==
  /\ Queued \subseteq futures
  /\ futures \ Queued \subseteq (IF Idle THEN {} ELSE {task.request.id})
  /\ \A i, j \in 1 .. Len(queue) : queue[i].id = queue[j].id => i = j
  /\ task.phase \notin {"none", "crashed"} => task.request.id \in futures \ Queued
  /\ \A id \in futures : status[id] \in {"queued", "running"}

\* set_turn: nothing of an earlier turn waits, and what of it still runs has
\* been told to stop.
TurnCurrent ==
  /\ \A i \in 1 .. Len(queue) : queue[i].turn = turn
  /\ task.phase \in {"none", "done", "crashed"} \/ task.byControl \/ task.request.turn = turn

\* While it is fit to move again, the executor has no move of its own left
\* running in the daemon, and none that may still start there
\* (pet_motion/README.md: the failure boundary).
NoUntrackedMotion ==
  Idle /\ ~fault => move # "running" /\ late = {} /\ astray = None

\* invalidate_baseline: after the voice session is retired no posture waits,
\* and a posture under way has been told to stop.
RetiredPostures ==
  invalidated =>
    /\ \A i \in 1 .. Len(queue) : queue[i].kind \notin Posture
    /\ Kind \in Posture => task.byControl \/ task.phase \in {"done", "crashed"}

\* While the head may be away from the measured origin that origin is kept,
\* so that no later look_up adds its pitch to a pose already pitched; but for
\* a POST whose wait was cut short, which may pitch the head at any time.
OriginKept ==
  pose = "away" /\ ~closed => seed \/ "post_cancelled" \in cut

\* A baseline is offered only with a known origin and no fault.
BaselineTrusted ==
  baseline # None => seed /\ ~fault

\* No posture outlives its voice session, and none moves on from another one.
PosturesSafe == RetiredPostures /\ OriginKept

\* What the executor believes of the body holds: nothing of it moves or will
\* move unwatched, and no pose is offered that is not known.  Three awaits
\* alone can undo it: an interrupt of the wait for a shielded POST or of a stop
\* handshake loses a move, one of a hold restores a baseline after a fault.
BodyTrusted ==
  /\ cut \cap {"post_cancelled", "stop"} = {} => NoUntrackedMotion
  /\ "hold" \notin cut => BaselineTrusted

\* A latched fault stays latched and the executor starts nothing after it: it
\* sends no POST, none that it sent starts a move it watches, and what may
\* still start by itself is no more than it had given up on before.
FaultIsFinal ==
  [][fault => /\ fault'
              /\ task'.phase = "post" => task.phase = "post"
              /\ move # "running" => move' # "running"
              /\ late' \subseteq late]_vars

\* A retained result is final: the request is not queued or run again, and
\* only the end of a stop that was given the same id, and had passed the check
\* for duplicates before, stores over it.
NeverRunTwice ==
  [][\A id \in Ids : status[id] \in Terminal \cup {"stopped"} =>
       status'[id] \in {status[id], "absent"}
         \cup (IF control = id /\ control' = "free" THEN {"stopped", "failed"} ELSE {})]_vars

\* Every awaited result arrives (wait() returns).
ResultsArrive ==
  \A id \in Ids : (id \in futures) ~> (id \notin futures)

\* stop, set_turn, close and the others return.
ControlReturns == (control # "free") ~> (control = "free")

\* Whoever asked the executor for something gets to know what became of it.
AllReturn == ResultsArrive /\ ControlReturns

-----------------------------------------------------------------------------
(* What the executor promises: its refinement of MotionContract.           *)

Contract == INSTANCE MotionContract WITH
  Free <- "free", Nothing <- None, Holders <- Operations \cup Ids,
  awaited <- futures, holder <- control, token <- turn,
  broken <- fault, shut <- closed, offer <- baseline, undone <- "hold" \in cut

\* Every step is one the contract allows: a control operation that returns
\* leaves no request awaited, none is accepted while it runs or after a
\* fault, and a baseline on offer is that of a request of this executor
\* (executor.py submit, _cancel, _trip; posture.py).
KeepsContract == Contract!Promise

=============================================================================
