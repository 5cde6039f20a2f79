------------------------ MODULE MotionExecutor_proofs ------------------------
(***************************************************************************)
(* Proofs about the motion executor, for every set of ids and turns, every *)
(* capacity and history limit, and whichever handlers may be interrupted.  *)
(***************************************************************************)
EXTENDS MotionExecutor, TLAPS

\* What a task record says of itself, with the move in the daemon.
TaskShape(t, daemonMove) ==
  /\ t.phase = "none" => t.request = NoRequest
  /\ t.phase # "none" => t.request \in Requests
  /\ t.sent => daemonMove # "none"
  /\ t.phase = "run" => t.sent
  /\ t.phase = "stop" => t.why \in {"cancelled", "expired", "lost"}
  /\ t.phase = "done" => t.out \in Terminal

\* How the other variables hang together; with TypeOK, inductive.
ControlShape ==
  /\ Stopping => queue = <<>>
  /\ waitingFor # "nothing" => Stopping
  /\ waitingFor \in {"pin", "pinned", "review"} => Idle
  /\ Stopping /\ waitingFor = "nothing" => Idle
  /\ worker \in {"none", "waiting", "loop", "exited"} => Idle

\* After a fault nothing waits and the active task can only stop and hold.
Quiet == {"none", "stop", "hold", "done", "crashed"}
Faulted == fault => queue = <<>> /\ task.phase \in Quiet

Consistent == TypeOK /\ TaskShape(task, move) /\ ControlShape /\ Faulted

-----------------------------------------------------------------------------
(* The helpers keep the types.                                             *)

LEMMA QueuedIds == TypeOK => Queued \subseteq Ids
<1> SUFFICES ASSUME TypeOK, NEW i \in 1 .. Len(queue) PROVE queue[i].id \in Ids
  BY DEF Queued
<1>1. queue[i] \in Requests
  BY DEF TypeOK
<1> QED
  BY <1>1 DEF Requests

LEMMA DrainType ==
  ASSUME TypeOK, Drain
  PROVE  /\ queue' = <<>> /\ queue' \in Seq(Requests) /\ Len(queue') <= Capacity
         /\ futures' \subseteq Ids /\ status' \in [Ids -> Statuses]
<1>1. queue' = <<>> /\ queue' \in Seq(Requests) /\ Len(queue') <= Capacity
  BY ExecutorAssumption DEF Drain
<1>2. futures' \subseteq Ids
  BY DEF TypeOK, Drain
<1>3. \A i \in Ids : (IF i \in Queued THEN "cancelled" ELSE status[i]) \in Statuses
  BY DEF TypeOK, Statuses, Terminal
<1>4. status' \in [Ids -> Statuses]
  BY <1>3 DEF Drain
<1> QED
  BY <1>1, <1>2, <1>4

LEMMA SaveNewType ==
  ASSUME NEW st \in [Ids -> Statuses], NEW pending, SaveNew(st, pending)
  PROVE  status' \in [Ids -> Statuses]
<1>1. "absent" \in Statuses
  BY DEF Statuses
<1>2. CASE status' = st
  BY <1>2
<1>3. CASE \E old \in Retained(st) \ pending : status' = [st EXCEPT ![old] = "absent"]
  BY <1>1, <1>3
<1> QED
  BY <1>2, <1>3 DEF SaveNew

LEMMA EndedType ==
  ASSUME NEW t \in Tasks, NEW phase \in Phases, NEW out \in Terminal \cup {""}
  PROVE  Ended(t, phase, out) \in Tasks
<1>1. t.request \in Requests \cup {NoRequest}
  BY DEF Tasks
<1>2. "" \in Reasons
  BY DEF Reasons
<1> QED
  BY <1>1, <1>2 DEF Tasks, Ended

LEMMA EndedShape ==
  ASSUME NEW t, t.request \in Requests, NEW phase \in {"done", "crashed"}, NEW out,
         phase = "done" => out \in Terminal, NEW m,
         NEW e, e = Ended(t, phase, out)
  PROVE  TaskShape(e, m)
<1>1. e.phase = phase /\ e.out = out /\ e.sent = FALSE /\ e.request = t.request
  BY DEF Ended
<1> QED
  BY <1>1 DEF TaskShape

\* A task that has ended: nothing more of it can run.
Over(t, n) == n.request = t.request /\ n.phase \in {"done", "crashed"}

LEMMA ReturnedType ==
  ASSUME NEW t \in Tasks, t.request \in Requests, NEW out \in Terminal, NEW m
  PROVE  /\ Returned(t, out) \in Tasks
         /\ TaskShape(Returned(t, out), m)
         /\ Returned(t, out).phase = "done" /\ Returned(t, out).request = t.request
<1> DEFINE o == IF t.byDeadline /\ out \in {"completed", "cancelled"} THEN "expired" ELSE out
<1>1. o \in Terminal
  BY DEF Terminal
<1>2. "done" \in Phases
  BY DEF Phases
<1>3. Returned(t, out) = Ended(t, "done", o)
  BY DEF Returned
<1> HIDE DEF o
<1>4. o \in Terminal \cup {""}
  BY <1>1
<1>5. Ended(t, "done", o) \in Tasks
  BY <1>2, <1>4, EndedType
<1>6. TaskShape(Ended(t, "done", o), m)
  BY <1>1, EndedShape
<1>7. Ended(t, "done", o).phase = "done" /\ Ended(t, "done", o).request = t.request
  BY DEF Ended
<1> QED
  BY <1>3, <1>5, <1>6, <1>7

LEMMA EscapedType ==
  ASSUME NEW t \in Tasks, t.request \in Requests, NEW m
  PROVE  /\ Escaped(t) \in Tasks
         /\ TaskShape(Escaped(t), m)
         /\ Over(t, Escaped(t))
<1>1. CASE Escaped(t) = Ended(t, "crashed", "")
  <2>1. "crashed" \in Phases /\ "" \in Terminal \cup {""}
    BY DEF Phases
  <2>2. Ended(t, "crashed", "") \in Tasks
    BY <2>1, EndedType
  <2>3. TaskShape(Ended(t, "crashed", ""), m)
    BY EndedShape
  <2>4. Over(t, Ended(t, "crashed", ""))
    BY DEF Over, Ended
  <2> QED
    BY <1>1, <2>2, <2>3, <2>4
<1>3. CASE Escaped(t) = Ended(t, "done", "cancelled")
  <2>1. "done" \in Phases /\ "cancelled" \in Terminal /\ "cancelled" \in Terminal \cup {""}
    BY DEF Phases, Terminal
  <2>2. Ended(t, "done", "cancelled") \in Tasks
    BY <2>1, EndedType
  <2>3. TaskShape(Ended(t, "done", "cancelled"), m)
    BY <2>1, EndedShape
  <2>4. Over(t, Ended(t, "done", "cancelled"))
    BY DEF Over, Ended
  <2> QED
    BY <1>3, <2>2, <2>3, <2>4
<1> QED
  BY <1>1, <1>3 DEF Escaped

LEMMA PhaseStep ==
  ASSUME NEW t \in Tasks, NEW phase \in Phases
  PROVE  /\ [t EXCEPT !.phase = phase] \in Tasks
         /\ [t EXCEPT !.phase = phase].phase = phase
         /\ [t EXCEPT !.phase = phase].request = t.request
         /\ [t EXCEPT !.phase = phase].sent = t.sent
         /\ [t EXCEPT !.phase = phase].byControl = t.byControl
  BY DEF Tasks

LEMMA HoldingStep ==
  ASSUME NEW t \in Tasks, NEW why \in Reasons
  PROVE  /\ Holding(t, why) \in Tasks
         /\ Holding(t, why).phase = "hold"
         /\ Holding(t, why).request = t.request
         /\ Holding(t, why).sent = t.sent
         /\ Holding(t, why).byControl = t.byControl
<1>1. "hold" \in Phases
  BY DEF Phases
<1> QED
  BY <1>1 DEF Holding, Tasks

LEMMA StopStep ==
  ASSUME NEW t \in Tasks, NEW why \in {"cancelled", "expired", "lost"}
  PROVE  /\ StoppingMove(t, why) \in Tasks
         /\ StoppingMove(t, why).phase = "stop"
         /\ StoppingMove(t, why).why = why
         /\ StoppingMove(t, why).request = t.request
         /\ StoppingMove(t, why).sent = t.sent
         /\ StoppingMove(t, why).byControl = t.byControl
<1>1. "stop" \in Phases /\ why \in Reasons
  BY DEF Phases, Reasons
<1> QED
  BY <1>1 DEF StoppingMove, Tasks

LEMMA UuidStep ==
  ASSUME NEW t \in Tasks, NEW uuid \in BOOLEAN, NEW n, n = [t EXCEPT !.uuid = uuid]
  PROVE  /\ n \in Tasks /\ n.phase = t.phase
         /\ n.request = t.request /\ n.sent = t.sent /\ n.byControl = t.byControl
  BY DEF Tasks

LEMMA HoldingType ==
  ASSUME NEW t \in Tasks, t.request \in Requests, NEW reason \in Reasons,
         NEW m, t.sent => m # "none", NEW n, n = Holding(t, reason)
  PROVE  /\ n \in Tasks /\ TaskShape(n, m) /\ n.phase = "hold"
         /\ n.request = t.request /\ n.byControl = t.byControl
<1>1. n \in Tasks /\ n.phase = "hold" /\ n.request = t.request
      /\ n.sent = t.sent /\ n.byControl = t.byControl
  BY HoldingStep
<1>2. TaskShape(n, m)
  BY <1>1 DEF TaskShape
<1> QED
  BY <1>1, <1>2

LEMMA AfterLegType ==
  ASSUME NEW t \in Tasks, t.request \in Requests, NEW out \in Terminal,
         NEW faulted \in BOOLEAN, NEW m, t.sent => m # "none",
         NEW n, n = AfterLeg(t, out, faulted)
  PROVE  /\ n \in Tasks /\ TaskShape(n, m)
         /\ n.request = t.request
         /\ n.phase = "done" \/ n.byControl = t.byControl
         /\ n.phase \in {"settle", "reread", "hold", "done"}
         /\ faulted /\ out # "completed" => n.phase \in {"hold", "done"}
<1>0. {"settle", "reread", "hold", "done"} \subseteq Phases /\ "leg" \in Reasons
  BY DEF Phases, Reasons
<1>1. CASE n = Returned(t, out)
  <2>1. n \in Tasks /\ TaskShape(n, m)
    BY <1>1, ReturnedType
  <2>2. n.phase = "done" /\ n.request = t.request
    BY <1>1, ReturnedType
  <2> QED
    BY <2>1, <2>2
<1>2. CASE n = [t EXCEPT !.phase = "settle"] /\ ~(faulted /\ out # "completed")
  <2>1. n \in Tasks /\ n.phase = "settle" /\ n.request = t.request
        /\ n.sent = t.sent /\ n.byControl = t.byControl
    BY <1>0, <1>2, PhaseStep
  <2>2. TaskShape(n, m)
    BY <2>1 DEF TaskShape
  <2> QED
    BY <1>2, <2>1, <2>2
<1>3. CASE n = Holding(t, "leg")
  BY <1>0, <1>3, HoldingType
<1>4. CASE n = [t EXCEPT !.phase = "reread"] /\ ~faulted
  <2>1. n \in Tasks /\ n.phase = "reread" /\ n.request = t.request
        /\ n.sent = t.sent /\ n.byControl = t.byControl
    BY <1>0, <1>4, PhaseStep
  <2>2. TaskShape(n, m)
    BY <2>1 DEF TaskShape
  <2> QED
    BY <1>4, <2>1, <2>2
<1> QED
  BY <1>1, <1>2, <1>3, <1>4 DEF AfterLeg, KeepsHold

LEMMA InterruptedType ==
  ASSUME NEW t \in Tasks, t.request \in Requests, NEW m, t.sent => m # "none",
         fault \in BOOLEAN, t.phase \notin {"none", "done", "crashed"},
         NEW n, n = Interrupted(t)
  PROVE  /\ n \in Tasks /\ TaskShape(n, m)
         /\ n.request = t.request
         /\ n.phase \in {"done", "crashed"} \/ n.byControl = t.byControl
         /\ n.phase # "none"
         /\ fault /\ t.phase \in Quiet => n.phase \in Quiet
<1>1. {"cancelled", "failed"} \subseteq Terminal
      /\ {"post_cancelled", "stop"} \subseteq Phases
      /\ {"cancelled", "cancel"} \subseteq Reasons
  BY DEF Terminal, Phases, Reasons
<1>2. CASE t.phase \in {"connect", "post_cancelled", "stop"}
  <2>1. PICK uuid \in BOOLEAN :
          n = AfterLeg([t EXCEPT !.uuid = uuid], "cancelled", fault)
    BY <1>2 DEF Interrupted
  <2> DEFINE u == [t EXCEPT !.uuid = uuid]
  <2>2. u \in Tasks /\ u.request = t.request /\ u.sent = t.sent /\ u.byControl = t.byControl
    BY UuidStep
  <2>3. n = AfterLeg(u, "cancelled", fault)
    BY <2>1
  <2> HIDE DEF u
  <2> QED
    BY <1>1, <2>2, <2>3, AfterLegType DEF Quiet
<1>3. CASE t.phase = "post"
  <2>1. n = [t EXCEPT !.phase = "post_cancelled"]
    BY <1>3 DEF Interrupted
  <2>2. n \in Tasks /\ n.phase = "post_cancelled" /\ n.request = t.request
        /\ n.sent = t.sent /\ n.byControl = t.byControl
    BY <1>1, <2>1, PhaseStep
  <2>3. TaskShape(n, m)
    BY <2>2 DEF TaskShape
  <2> QED
    BY <1>3, <2>2, <2>3 DEF Quiet
<1>4. CASE t.phase = "run"
  <2>1. n = StoppingMove(t, "cancelled")
    BY <1>4 DEF Interrupted
  <2>2. n \in Tasks /\ n.phase = "stop" /\ n.why = "cancelled" /\ n.request = t.request
        /\ n.sent = t.sent /\ n.byControl = t.byControl
    BY <2>1, StopStep
  <2>3. TaskShape(n, m)
    BY <2>2 DEF TaskShape
  <2> QED
    BY <1>4, <2>2, <2>3 DEF Quiet
<1>5. CASE n = Escaped(t)
  BY <1>5, EscapedType DEF Over, Quiet
<1>6. CASE n = Holding(t, "cancel")
  <2>1. n \in Tasks /\ TaskShape(n, m) /\ n.phase = "hold"
        /\ n.request = t.request /\ n.byControl = t.byControl
    BY <1>1, <1>6, HoldingType
  <2> QED
    BY <2>1 DEF Quiet
<1>7. CASE \E out \in {"failed", "cancelled"} : n = Returned(t, out)
  <2>1. PICK out \in Terminal : n = Returned(t, out)
    BY <1>1, <1>7
  <2>2. n \in Tasks /\ TaskShape(n, m) /\ n.phase = "done" /\ n.request = t.request
    BY <2>1, ReturnedType
  <2> QED
    BY <2>2 DEF Quiet
<1> QED
  BY <1>2, <1>3, <1>4, <1>5, <1>6, <1>7 DEF Interrupted

-----------------------------------------------------------------------------
(* Parts of Consistent that several steps share.                           *)

TaskOK(t, m) == t \in Tasks /\ TaskShape(t, m) /\ t.phase # "none"

BookOK ==
  /\ fault \in BOOLEAN
  /\ queue \in Seq(Requests) /\ Len(queue) <= Capacity
  /\ futures \subseteq Ids /\ status \in [Ids -> Statuses]
  /\ fault => queue = <<>>

WorldOK ==
  /\ baseline \in Ids \cup {None} /\ seed \in BOOLEAN
  /\ move \in {"none", "running", "completed", "cancelled", "failed"}
  /\ pose \in {"origin", "away"}
  /\ late \subseteq AllKinds /\ astray \in AllKinds \cup {None}

LEMMA ConsistentParts ==
  ASSUME Consistent
  PROVE  /\ task \in Tasks /\ TaskShape(task, move) /\ BookOK /\ WorldOK
         /\ task.phase # "none" => TaskOK(task, move) /\ task.request \in Requests
         /\ task.sent => move # "none"
  BY DEF Consistent, TypeOK, Faulted, TaskOK, TaskShape, BookOK, WorldOK

LEMMA SameBook ==
  ASSUME BookOK, UNCHANGED <<fault, queueVars>>
  PROVE  BookOK'
  BY DEF BookOK, queueVars

LEMMA TripType ==
  ASSUME TypeOK, Faulted, NEW found \in BOOLEAN, TripIf(found)
  PROVE  /\ BookOK' /\ (queue = <<>> => queue' = <<>>)
         /\ fault' = (fault \/ found)
<1>1. CASE found
  <2>1. fault' = TRUE /\ Drain
    BY <1>1 DEF TripIf
  <2> QED
    BY <1>1, <2>1, DrainType DEF BookOK
<1>2. CASE ~found
  <2>1. UNCHANGED <<fault, queue, futures, status>>
    BY <1>2 DEF TripIf, queueVars
  <2> QED
    BY <1>2, <2>1 DEF BookOK, TypeOK, Faulted
<1> QED
  BY <1>1, <1>2

\* A step of the run keeps the frame its TaskAt states.
LEMMA RunFrame ==
  ASSUME Consistent, NEW phase, phase # "none", TaskAt(phase),
         TaskOK(task', move'), BookOK', WorldOK',
         queue = <<>> => queue' = <<>>,
         fault' => task'.phase \in Quiet
  PROVE  Consistent'
<1>1. TypeOK'
  <2>1. UNCHANGED <<closed, turn, control, waitingFor, stops, cut, worker, wake, invalidated>>
    BY DEF TaskAt, controlVars, workerVars
  <2>2. TypeOK
    BY DEF Consistent
  <2> QED
    BY <2>1, <2>2 DEF TypeOK, BookOK, WorldOK, TaskOK
<1>2. TaskShape(task', move')
  BY DEF TaskOK
<1>3. ControlShape'
  <2>1. UNCHANGED <<control, waitingFor, worker>> /\ task.phase # "none"
    BY DEF TaskAt, controlVars, workerVars
  <2> QED
    BY <2>1 DEF Consistent, ControlShape, Stopping, Idle
<1>4. Faulted'
  BY DEF Faulted, BookOK
<1> QED
  BY <1>1, <1>2, <1>3, <1>4 DEF Consistent

-----------------------------------------------------------------------------
(* Interrupting the active task.                                           *)

LEMMA ActiveKind ==
  ASSUME Consistent, task.phase # "none"
  PROVE  Kind \in AllKinds
<1>1. task.request \in Requests
  BY ConsistentParts
<1> QED
  BY <1>1, ExecutorAssumption DEF Kind, Requests

LEMMA GivenUpType ==
  ASSUME WorldOK, Kind \in AllKinds, NEW given_up, GivenUp(given_up)
  PROVE  /\ move' \in {"none", "running", "completed", "cancelled", "failed"}
         /\ pose' \in {"origin", "away"} /\ late' \subseteq AllKinds /\ astray' \in AllKinds \cup {None}
         /\ move # "none" => move' # "none"
  BY DEF GivenUp, WorldOK

LEMMA InterruptType ==
  ASSUME Consistent, NEW byControl \in BOOLEAN, Interrupt(byControl),
         task.phase \notin {"none", "done", "crashed"}
  PROVE  /\ TaskOK(task', move')
         /\ task'.request = task.request
         /\ fault => task'.phase \in Quiet
         /\ baseline' \in Ids \cup {None}
         /\ move' \in {"none", "running", "completed", "cancelled", "failed"}
         /\ pose' \in {"origin", "away"} /\ late' \subseteq AllKinds /\ astray' \in AllKinds \cup {None}
<1> DEFINE t == IF byControl THEN [task EXCEPT !.byControl = TRUE]
                            ELSE [task EXCEPT !.byDeadline = TRUE]
<1>1. /\ t \in Tasks /\ t.phase = task.phase /\ t.request = task.request
      /\ t.sent = task.sent
  BY ConsistentParts DEF Tasks
<1>2. task' = Interrupted(t)
  BY DEF Interrupt
<1>3. baseline' \in Ids \cup {None}
  BY ConsistentParts DEF Interrupt, BaselineAfterLeg, WorldOK
<1>4. /\ move' \in {"none", "running", "completed", "cancelled", "failed"}
      /\ pose' \in {"origin", "away"} /\ late' \subseteq AllKinds /\ astray' \in AllKinds \cup {None} /\ (move # "none" => move' # "none")
  BY ConsistentParts, ActiveKind, GivenUpType DEF Interrupt
<1>5. t.sent => move' # "none"
  BY <1>1, <1>4, ConsistentParts
<1>6. t.request \in Requests /\ fault \in BOOLEAN /\ (fault => t.phase \in Quiet)
  BY <1>1, ConsistentParts DEF Consistent, Faulted, BookOK
<1> HIDE DEF t
<1>7. /\ task' \in Tasks /\ TaskShape(task', move') /\ task'.phase # "none"
      /\ task'.request = t.request
      /\ (fault /\ t.phase \in Quiet => task'.phase \in Quiet)
  BY <1>1, <1>2, <1>5, <1>6, InterruptedType
<1> QED
  BY <1>1, <1>3, <1>4, <1>6, <1>7 DEF TaskOK

\* _cancel leaves a consistent state, held by its caller.
LEMMA CancelType ==
  ASSUME Consistent, NEW reason, Cancel(reason),
         control' \in Operations \cup Ids, UNCHANGED <<fault, worker, wake, seed>>,
         stops' \subseteq Ids,
         closed' \in BOOLEAN, turn' \in Turns \cup {None}, invalidated' \in BOOLEAN
  PROVE  Consistent'
<1>1. BookOK' /\ queue' = <<>>
  BY DrainType, ConsistentParts DEF Cancel, Consistent, BookOK
<1>2. control' # "free" /\ control' \in {"free"} \cup Operations \cup Ids
  BY HolderAssumption DEF Operations
<1>3. waitingFor' \in {"nothing", "task", "pin"} /\ (waitingFor' \in {"nothing", "pin"} => Idle)
  BY DEF Cancel
<1>4. /\ task' \in Tasks /\ TaskShape(task', move') /\ WorldOK'
      /\ (Idle => Idle') /\ (fault => task'.phase \in Quiet)
  <2>1. CASE UNCHANGED <<task, cut, baseline, worldVars>>
    <3>1. UNCHANGED <<task, cut, baseline, seed, move, pose, late, astray>>
      BY <2>1 DEF worldVars
    <3> QED
      BY <3>1, ConsistentParts DEF WorldOK, Idle, Consistent, Faulted
  <2>2. CASE Interrupt(TRUE) /\ task.phase \notin {"none", "done", "crashed"}
    <3>1. /\ TaskOK(task', move') /\ (fault => task'.phase \in Quiet)
          /\ baseline' \in Ids \cup {None}
          /\ move' \in {"none", "running", "completed", "cancelled", "failed"}
          /\ pose' \in {"origin", "away"} /\ late' \subseteq AllKinds /\ astray' \in AllKinds \cup {None}
      BY <2>2, InterruptType
    <3>2. WorldOK'
      BY <3>1, ConsistentParts DEF WorldOK
    <3> QED
      BY <2>2, <3>1, <3>2 DEF TaskOK, Idle
  <2> QED
    BY <2>1, <2>2 DEF Cancel, Idle
<1>4a. cut' \subseteq Cuts
  BY DEF Cancel, Interrupt, Consistent, TypeOK
<1>5. TypeOK'
  <2>1. TypeOK
    BY DEF Consistent
  <2> QED
    BY <1>1, <1>2, <1>3, <1>4, <1>4a, <2>1 DEF TypeOK, BookOK, WorldOK
<1>6. ControlShape'
  <2>1. worker' \in {"none", "waiting", "loop", "exited"} => Idle'
    BY <1>4 DEF Consistent, ControlShape
  <2>2. waitingFor' \in {"nothing", "pin"} => Idle'
    BY <1>3, <1>4
  <2> QED
    BY <1>1, <1>2, <1>3, <2>1, <2>2 DEF ControlShape, Stopping
<1>7. Faulted'
  BY <1>1, <1>4 DEF Faulted
<1> QED
  BY <1>4, <1>5, <1>6, <1>7 DEF Consistent

-----------------------------------------------------------------------------
(* The end of a leg, and a failed verification.                            *)

LEMMA LegEndsType ==
  ASSUME Consistent, NEW phase, phase \notin {"none", "done", "crashed"}, TaskAt(phase),
         NEW out \in Terminal, NEW found \in BOOLEAN, NEW uuid \in BOOLEAN,
         LegEnds(out, found, uuid), out = "completed" => ~fault /\ ~found,
         UNCHANGED seed,
         move' \in {"none", "running", "completed", "cancelled", "failed"},
         pose' \in {"origin", "away"} /\ late' \subseteq AllKinds /\ astray' \in AllKinds \cup {None}, move # "none" => move' # "none"
  PROVE  Consistent'
<1> DEFINE t == [task EXCEPT !.uuid = uuid]
           faulted == fault \/ found
<1>1. task.phase = phase /\ task \in Tasks /\ task.request \in Requests
      /\ (task.sent => move # "none") /\ WorldOK
  BY ConsistentParts DEF TaskAt
<1>2. t \in Tasks /\ t.request = task.request /\ t.sent = task.sent
  BY <1>1, UuidStep
<1>3. fault \in BOOLEAN /\ TypeOK /\ Faulted
  BY DEF Consistent, TypeOK
<1>4. task' = AfterLeg(t, out, faulted) /\ TripIf(found)
  BY DEF LegEnds
<1>5. t.request \in Requests /\ (t.sent => move' # "none") /\ faulted \in BOOLEAN
  BY <1>1, <1>2, <1>3
<1>6. baseline' \in Ids \cup {None}
  BY <1>1 DEF LegEnds, BaselineAfterLeg, WorldOK
<1>6a. BookOK' /\ (queue = <<>> => queue' = <<>>) /\ fault' = faulted
  BY <1>3, <1>4, TripType
<1>6b. out = "completed" => ~faulted
  OBVIOUS
<1> HIDE DEF t, faulted
<1>7. /\ task' \in Tasks /\ TaskShape(task', move')
      /\ task'.phase \in {"settle", "reread", "hold", "done"}
      /\ (faulted /\ out # "completed" => task'.phase \in {"hold", "done"})
  BY <1>2, <1>4, <1>5, AfterLegType
<1>8. TaskOK(task', move')
  BY <1>7 DEF TaskOK
<1>9. fault' => task'.phase \in Quiet
  BY <1>6a, <1>6b, <1>7 DEF Quiet
<1>10. WorldOK'
  BY <1>1, <1>6 DEF WorldOK
<1> QED
  BY <1>6a, <1>8, <1>9, <1>10, RunFrame

LEMMA VerificationFailsType ==
  ASSUME Consistent, NEW phase, phase \notin {"none", "done", "crashed"}, TaskAt(phase),
         NEW moved \in BOOLEAN, VerificationFails(moved), UNCHANGED <<seed, worldVars>>
  PROVE  Consistent'
<1>1. task.phase = phase /\ task \in Tasks /\ task.request \in Requests
      /\ (task.sent => move # "none") /\ WorldOK /\ TypeOK /\ Faulted
  BY ConsistentParts DEF TaskAt, Consistent
<1>2. TripIf(TRUE) /\ baseline' = None /\ UNCHANGED <<seed, move, pose, late, astray>>
  BY DEF VerificationFails, worldVars
<1>3. BookOK' /\ (queue = <<>> => queue' = <<>>)
  BY <1>1, <1>2, TripType
<1>4. WorldOK'
  BY <1>1, <1>2 DEF WorldOK
<1>5. TaskOK(task', move') /\ task'.phase \in Quiet
  <2>1. CASE task' = Holding(task, "exception")
    <3>1. "exception" \in Reasons /\ (task.sent => move' # "none")
      BY <1>1, <1>2 DEF Reasons
    <3>2. task' \in Tasks /\ TaskShape(task', move') /\ task'.phase = "hold"
      BY <1>1, <2>1, <3>1, HoldingType
    <3> QED
      BY <3>2 DEF TaskOK, Quiet
  <2>2. CASE task' = Returned(task, "failed")
    <3>1. "failed" \in Terminal
      BY DEF Terminal
    <3>2. task' \in Tasks /\ TaskShape(task', move') /\ task'.phase = "done"
      BY <1>1, <2>2, <3>1, ReturnedType
    <3> QED
      BY <3>2 DEF TaskOK, Quiet
  <2> QED
    BY <2>1, <2>2 DEF VerificationFails
<1> QED
  BY <1>3, <1>4, <1>5, RunFrame

\* A step of the run that changes the task and the posture only.
LEMMA QuietStep ==
  ASSUME Consistent, NEW phase \in Phases \ {"none"}, TaskAt(phase),
         UNCHANGED <<fault, queueVars>>, UNCHANGED worldVars,
         TaskOK(task', move), baseline' \in Ids \cup {None}, seed' \in BOOLEAN,
         phase \in Quiet => task'.phase \in Quiet
  PROVE  Consistent'
<1>1. task.phase = phase /\ BookOK /\ WorldOK /\ Faulted
  BY ConsistentParts DEF TaskAt, Consistent
<1>2. BookOK' /\ (queue = <<>> => queue' = <<>>)
  BY <1>1, SameBook DEF queueVars
<1>3. UNCHANGED <<move, pose, late, astray>>
  BY DEF worldVars
<1>4. WorldOK' /\ TaskOK(task', move')
  BY <1>1, <1>3 DEF WorldOK
<1>5. fault' => task'.phase \in Quiet
  BY <1>1 DEF Faulted
<1> QED
  BY <1>2, <1>4, <1>5, RunFrame

-----------------------------------------------------------------------------
(* One lemma for the actions of each actor.                                *)

LEMMA InitConsistent == Init => Consistent
<1> SUFFICES ASSUME Init PROVE Consistent
  OBVIOUS
<1>1. NoTask \in Tasks
  BY DEF NoTask, Tasks, Phases, Reasons
<1>2. NoTask.phase = "none" /\ NoTask.request = NoRequest /\ NoTask.sent = FALSE
  BY DEF NoTask
<1>3. TypeOK
  <2>1. status \in [Ids -> Statuses]
    BY DEF Init, Statuses
  <2>2. queue \in Seq(Requests) /\ Len(queue) <= Capacity
    BY ExecutorAssumption DEF Init
  <2> QED
    BY <1>1, <2>1, <2>2 DEF Init, TypeOK
<1>4. TaskShape(task, move)
  BY <1>2 DEF Init, TaskShape
<1>5. ControlShape
  BY <1>2 DEF Init, ControlShape, Stopping, Idle
<1> QED
  BY <1>3, <1>4, <1>5 DEF Init, Consistent, Faulted

LEMMA SubmissionConsistent ==
  ASSUME Consistent, (\E id \in Ids : Refuse(id)) \/ (\E request \in Requests : Submit(request))
  PROVE  Consistent'
<1> USE DEF controlVars, workerVars, postureVars, worldVars
<1>1. TypeOK /\ TaskShape(task, move) /\ ControlShape /\ Faulted
  BY DEF Consistent
<1>2. ASSUME NEW id \in Ids, Refuse(id) PROVE Consistent'
  <2>1. [status EXCEPT ![id] = "rejected"] \in [Ids -> Statuses]
    BY <1>1 DEF TypeOK, Statuses, Terminal
  <2>2. status' \in [Ids -> Statuses]
    BY <1>2, <2>1, SaveNewType DEF Refuse
  <2>3. TypeOK'
    BY <1>1, <1>2, <2>2 DEF Refuse, TypeOK
  <2> QED
    BY <1>1, <1>2, <2>3 DEF Refuse, Consistent, ControlShape, Stopping, Idle, Faulted
<1>3. ASSUME NEW request \in Requests, Submit(request) PROVE Consistent'
  <2>1. request.id \in Ids
    BY DEF Requests
  <2>2. status' \in [Ids -> Statuses]
    <3>1. [status EXCEPT ![request.id] = "queued"] \in [Ids -> Statuses]
      BY <1>1, <2>1 DEF TypeOK, Statuses
    <3> QED
      BY <1>3, <3>1, SaveNewType DEF Submit
  <2>3. queue' \in Seq(Requests) /\ Len(queue') <= Capacity
    <3>1. queue \in Seq(Requests) /\ Len(queue) < Capacity
      BY <1>1, <1>3 DEF TypeOK, Submit, Admissible, HasRoom
    <3>2. queue' = Append(queue, request)
      BY <1>3 DEF Submit
    <3> QED
      BY <3>1, <3>2, ExecutorAssumption
  <2>4. futures' \subseteq Ids
    BY <1>1, <1>3, <2>1 DEF TypeOK, Submit
  <2>5. ~Stopping /\ ~fault
    BY <1>3 DEF Submit, Admissible, Available
  <2>6. TypeOK'
    BY <1>1, <1>3, <2>2, <2>3, <2>4 DEF Submit, TypeOK
  <2>7. ControlShape'
    BY <1>1, <1>3, <2>5 DEF Submit, ControlShape, Stopping, Idle
  <2> QED
    BY <1>1, <1>3, <2>5, <2>6, <2>7 DEF Submit, Consistent, Faulted
<1> QED
  BY <1>2, <1>3

LEMMA ControlBegins ==
  ASSUME Consistent,
         \/ BeginCancel \/ BeginClose \/ BeginInvalidate \/ BeginReview
         \/ (\E id \in Ids : StopWaits(id) \/ BeginStop(id))
         \/ (\E new \in Turns : BeginSetTurn(new))
  PROVE  Consistent'
<1> USE DEF controlVars, workerVars, postureVars, worldVars
<1>1. TypeOK /\ TaskShape(task, move) /\ ControlShape /\ Faulted
  BY DEF Consistent
<1>2. /\ closed \in BOOLEAN /\ turn \in Turns \cup {None} /\ invalidated \in BOOLEAN
      /\ stops \subseteq Ids
  BY <1>1 DEF TypeOK
<1>3. {"cancel", "set_turn", "close", "invalidate", "review"} \subseteq Operations
  BY DEF Operations
<1>4. CASE BeginCancel
  BY <1>2, <1>3, <1>4, CancelType DEF BeginCancel, Acquire
<1>5. CASE BeginClose
  BY <1>2, <1>3, <1>5, CancelType DEF BeginClose, Acquire
<1>6. CASE BeginInvalidate
  <2>1. (invalidated \/ seed \/ baseline # None \/ PendingPosture) \in BOOLEAN
    BY <1>1 DEF TypeOK, PendingPosture
  <2> QED
    BY <1>2, <1>3, <1>6, <2>1, CancelType DEF BeginInvalidate, Acquire
<1>7. CASE BeginReview
  <2>1. control' = "review" /\ control' # "free" /\ waitingFor' = "review"
    BY <1>7 DEF BeginReview, Acquire
  <2>2. UNCHANGED <<closed, fault, turn, queue, futures, status, worker, wake, task,
                    stops, cut, baseline, seed, invalidated, move, pose, late, astray>>
    BY <1>7 DEF BeginReview, queueVars
  <2>3. Idle /\ queue = <<>>
    BY <1>7 DEF BeginReview
  <2>4. TypeOK'
    BY <1>1, <1>3, <2>1, <2>2 DEF TypeOK
  <2>5. ControlShape'
    BY <1>1, <2>1, <2>2, <2>3 DEF ControlShape, Stopping, Idle
  <2> QED
    BY <1>1, <2>2, <2>4, <2>5 DEF Consistent, Faulted
<1>8. ASSUME NEW id \in Ids, BeginStop(id) PROVE Consistent'
  BY <1>2, <1>8, CancelType DEF BeginStop, Acquire
<1>9. ASSUME NEW new \in Turns, BeginSetTurn(new) PROVE Consistent'
  BY <1>2, <1>3, <1>9, CancelType DEF BeginSetTurn, Acquire
<1>10. ASSUME NEW id \in Ids, StopWaits(id) PROVE Consistent'
  <2>1. UNCHANGED <<closed, fault, turn, queue, futures, status, control, waitingFor, cut,
                    worker, wake, task, baseline, seed, invalidated, move, pose, late, astray>>
    BY <1>10 DEF StopWaits, queueVars
  <2>2. stops' \subseteq Ids
    BY <1>2, <1>10 DEF StopWaits
  <2>3. TypeOK'
    BY <1>1, <2>1, <2>2 DEF TypeOK
  <2> QED
    BY <1>1, <2>1, <2>3 DEF Consistent, ControlShape, Stopping, Idle, Faulted
<1> QED
  BY <1>4, <1>5, <1>6, <1>7, <1>8, <1>9, <1>10

LEMMA ControlEnds ==
  ASSUME Consistent, Controller
  PROVE  Consistent'
<1> USE DEF controlVars, workerVars, postureVars, worldVars, queueVars
<1>1. TypeOK /\ TaskShape(task, move) /\ ControlShape /\ Faulted
  BY DEF Consistent
<1>2. CASE EndReview
  <2>1. TypeOK'
    <3>1. baseline' \in Ids \cup {None} /\ seed' \in BOOLEAN /\ invalidated' \in BOOLEAN
      BY <1>1, <1>2 DEF EndReview, TypeOK
    <3>2. UNCHANGED <<closed, fault, turn, queue, futures, status, stops, cut, worker, wake, task,
                      move, pose, late, astray>>
          /\ control' = "free" /\ waitingFor' = "nothing"
      BY <1>2 DEF EndReview
    <3> QED
      BY <1>1, <3>1, <3>2 DEF TypeOK
  <2>2. ControlShape'
    BY <1>1, <1>2 DEF EndReview, ControlShape, Stopping, Idle
  <2> QED
    BY <1>1, <1>2, <2>1, <2>2 DEF EndReview, Consistent, Faulted
<1>3. ASSUME NEW ok \in BOOLEAN, PinEnds(ok) PROVE Consistent'
  <2>1. TripIf(~ok) /\ (~ok) \in BOOLEAN
    BY <1>3 DEF PinEnds
  <2>2. BookOK' /\ (queue = <<>> => queue' = <<>>)
    BY <1>1, <2>1, TripType
  <2>3. TypeOK'
    <3>1. baseline' \in Ids \cup {None}
      BY <1>1, <1>3 DEF PinEnds, TypeOK
    <3> QED
      BY <1>1, <1>3, <2>2, <3>1 DEF PinEnds, TypeOK, BookOK
  <2>4. ControlShape'
    BY <1>1, <1>3, <2>2 DEF PinEnds, ControlShape, Stopping, Idle
  <2>5. Faulted'
    BY <1>1, <1>3, <2>2 DEF PinEnds, ControlShape, BookOK, Faulted, Idle, Quiet
  <2> QED
    BY <1>1, <1>3, <2>3, <2>4, <2>5 DEF PinEnds, Consistent
<1>4. ASSUME NEW interrupted \in BOOLEAN, EndControl(interrupted) PROVE Consistent'
  <2>1. status' \in [Ids -> Statuses]
    <3>1. CASE control \in Ids /\ ~interrupted
      <4> DEFINE st == [status EXCEPT ![control] = IF fault THEN "failed" ELSE "stopped"]
      <4>1. st \in [Ids -> Statuses]
        BY <1>1, <3>1 DEF TypeOK, Statuses, Terminal
      <4>2. SaveNew(st, futures')
        BY <1>4, <3>1 DEF EndControl
      <4> HIDE DEF st
      <4> QED
        BY <4>1, <4>2, SaveNewType
    <3>2. CASE ~(control \in Ids /\ ~interrupted)
      BY <1>1, <1>4, <3>2 DEF EndControl, TypeOK
    <3> QED
      BY <3>1, <3>2
  <2>2. /\ baseline' \in Ids \cup {None} /\ seed' \in BOOLEAN /\ wake' \in BOOLEAN
        /\ futures' \subseteq Ids
    BY <1>1, <1>4 DEF EndControl, TypeOK
  <2>3. UNCHANGED <<closed, fault, turn, queue, stops, cut, worker, task, invalidated, move, pose, late, astray>>
        /\ control' = "free" /\ waitingFor' = "nothing"
    BY <1>4 DEF EndControl
  <2>4. TypeOK'
    BY <1>1, <2>1, <2>2, <2>3 DEF TypeOK
  <2>5. ControlShape'
    BY <1>1, <2>3 DEF ControlShape, Stopping, Idle
  <2> QED
    BY <1>1, <2>3, <2>4, <2>5 DEF Consistent, Faulted
<1> QED
  BY <1>2, <1>3, <1>4 DEF Controller

LEMMA WorkerConsistent ==
  ASSUME Consistent, Worker
  PROVE  Consistent'
<1> USE DEF controlVars, workerVars, postureVars, worldVars, queueVars
<1>1. TypeOK /\ TaskShape(task, move) /\ ControlShape /\ Faulted
  BY DEF Consistent
<1>2. CASE WorkerWakes
  <2>1. /\ worker = "waiting" /\ worker' = "loop" /\ wake' \in BOOLEAN
        /\ UNCHANGED <<closed, fault, turn, queue, futures, status, control, waitingFor, stops, cut,
                       task, baseline, seed, invalidated, move, pose, late, astray>>
    BY <1>2 DEF WorkerWakes
  <2>2. TypeOK'
    BY <1>1, <2>1 DEF TypeOK
  <2>3. ControlShape'
    BY <1>1, <2>1 DEF ControlShape, Stopping, Idle
  <2> QED
    BY <1>1, <2>1, <2>2, <2>3 DEF Consistent, Faulted
<1>3. CASE WorkerPauses
  <2>1. /\ worker = "loop" /\ worker' \in {"exited", "waiting"}
        /\ UNCHANGED <<closed, fault, turn, queue, futures, status, control, waitingFor, stops, cut,
                       wake, task, baseline, seed, invalidated, move, pose, late, astray>>
    BY <1>3 DEF WorkerPauses
  <2>2. TypeOK'
    BY <1>1, <2>1 DEF TypeOK
  <2>3. ControlShape'
    BY <1>1, <2>1 DEF ControlShape, Stopping, Idle
  <2> QED
    BY <1>1, <2>1, <2>2, <2>3 DEF Consistent, Faulted
<1>4. CASE WorkerExpires \/ WorkerStarts
  <2>1. worker = "loop" /\ queue # <<>> /\ queue' = Tail(queue)
        /\ UNCHANGED <<closed, fault, turn, control, waitingFor, stops, cut, wake, baseline, seed,
                       invalidated, move, pose, late, astray>>
    BY <1>4 DEF WorkerExpires, WorkerStarts
  <2>2. Head(queue) \in Requests /\ queue' \in Seq(Requests) /\ Len(queue') <= Capacity
    BY <1>1, <2>1, ExecutorAssumption DEF TypeOK
  <2>3. ~fault /\ ~Stopping /\ Idle
    BY <1>1, <2>1 DEF Faulted, ControlShape
  <2>4. CASE WorkerExpires
    <3>1. Head(queue).id \in Ids
      BY <2>2 DEF Requests
    <3>2. status' \in [Ids -> Statuses] /\ futures' \subseteq Ids
      BY <1>1, <2>4, <3>1 DEF WorkerExpires, TypeOK, Statuses, Terminal
    <3>3. UNCHANGED <<worker, task>>
      BY <2>4 DEF WorkerExpires
    <3>4. TypeOK'
      BY <1>1, <2>1, <2>2, <3>2, <3>3 DEF TypeOK
    <3>5. ControlShape'
      BY <1>1, <2>1, <2>3, <3>3 DEF ControlShape, Stopping, Idle
    <3> QED
      BY <1>1, <2>1, <2>3, <3>3, <3>4, <3>5 DEF Consistent, Faulted
  <2>5. CASE WorkerStarts
    <3>1. task' \in Tasks /\ task'.request = Head(queue) /\ task'.sent = FALSE
          /\ task'.phase \in {"connect", "measure"}
      <4> DEFINE previous == IF Head(queue).kind \in Posture THEN baseline ELSE None
                 phase == IF Head(queue).kind = "clip" THEN "connect" ELSE "measure"
      <4>1. previous \in Ids \cup {None} /\ phase \in Phases
            /\ phase \in {"connect", "measure"}
        BY <1>1 DEF TypeOK, Phases
      <4>2. task' = [NoTask EXCEPT !.request = Head(queue), !.previous = previous,
                                   !.phase = phase]
        BY <2>5 DEF WorkerStarts
      <4> HIDE DEF previous, phase
      <4>3. task' = [request |-> Head(queue), phase |-> phase, leg |-> 1, uuid |-> FALSE,
                     sent |-> FALSE, byControl |-> FALSE, byDeadline |-> FALSE,
                     why |-> "", previous |-> previous, out |-> ""]
        BY <4>2 DEF NoTask
      <4>4. "" \in Reasons
        BY DEF Reasons
      <4>5. task' \in Tasks
        BY <2>2, <4>1, <4>3, <4>4 DEF Tasks
      <4> QED
        BY <4>1, <4>3, <4>5
    <3>2. TaskShape(task', move')
      BY <2>2, <3>1 DEF TaskShape
    <3>3. UNCHANGED <<futures, status>> /\ worker' = "busy"
      BY <2>5 DEF WorkerStarts
    <3>4. TypeOK'
      BY <1>1, <2>1, <2>2, <3>1, <3>3 DEF TypeOK
    <3>5. ControlShape'
      BY <1>1, <2>1, <2>3, <3>3 DEF ControlShape, Stopping, Idle
    <3> QED
      BY <2>1, <2>3, <3>2, <3>4, <3>5 DEF Consistent, Faulted
  <2> QED
    BY <1>4, <2>4, <2>5
<1>5. CASE WorkerCollects
  <2>1. NoTask \in Tasks /\ NoTask.phase = "none" /\ NoTask.sent = FALSE
        /\ NoTask.request = NoRequest
    BY DEF NoTask, Tasks, Phases, Reasons
  <2>2. task.request \in Requests /\ task.out \in Terminal
    BY <1>1, <1>5 DEF WorkerCollects, TaskShape
  <2>3. task.request.id \in Ids
    BY <2>2 DEF Requests
  <2>4. status' \in [Ids -> Statuses] /\ futures' \subseteq Ids
    BY <1>1, <1>5, <2>2, <2>3 DEF WorkerCollects, TypeOK, Statuses
  <2>5. task' = NoTask /\ worker' = "loop"
        /\ UNCHANGED <<closed, fault, turn, queue, control, waitingFor, stops, cut, wake, baseline, seed,
                       invalidated, move, pose, late, astray>>
    BY <1>5 DEF WorkerCollects
  <2>6. TypeOK'
    BY <1>1, <2>1, <2>4, <2>5 DEF TypeOK
  <2>7. ControlShape'
    BY <1>1, <2>1, <2>5 DEF ControlShape, Stopping, Idle
  <2>8. TaskShape(task', move') /\ Faulted'
    BY <1>1, <2>1, <2>5 DEF TaskShape, Faulted, Quiet
  <2> QED
    BY <2>6, <2>7, <2>8 DEF Consistent
<1>6. CASE WorkerDies
  <2>1. /\ worker' = "dead"
        /\ UNCHANGED <<closed, fault, turn, queue, futures, status, control, waitingFor, stops, cut,
                       wake, task, baseline, seed, invalidated, move, pose, late, astray>>
    BY <1>6 DEF WorkerDies
  <2>2. TypeOK'
    BY <1>1, <2>1 DEF TypeOK
  <2>3. ControlShape'
    BY <1>1, <2>1 DEF ControlShape, Stopping, Idle
  <2> QED
    BY <1>1, <2>1, <2>2, <2>3 DEF Consistent, Faulted
<1> QED
  BY <1>2, <1>3, <1>4, <1>5, <1>6 DEF Worker

\* The answers of the measurement, the daemon and the verification that let
\* the run go on, or end it, without a fault.
LEMMA RunGoesOn ==
  ASSUME Consistent,
         \/ MeasureOk \/ MeasureAlreadyUp \/ MeasureRejects \/ ConnectOk \/ PostAccepted
         \/ LatePostAccepted \/ RunTimesOut \/ SettleOk \/ RereadOk \/ HoldOk
  PROVE  Consistent'
<1> USE DEF queueVars
<1>1. TypeOK /\ TaskShape(task, move) /\ ControlShape /\ Faulted /\ WorldOK /\ BookOK
      /\ task \in Tasks /\ (task.sent => move # "none")
      /\ (task.phase # "none" => task.request \in Requests)
  BY ConsistentParts DEF Consistent
<1>2. /\ {"connect", "post", "run", "measure", "stop", "settle", "reread", "hold",
          "post_cancelled"} \subseteq Phases \ {"none"}
      /\ {"completed", "rejected", "cancelled", "failed"} \subseteq Terminal
  BY DEF Phases, Terminal
\* A run that returns.
<1>3. ASSUME NEW out \in Terminal, NEW phase \in Phases \ {"none"}, TaskAt(phase),
             task' = Returned(task, out), UNCHANGED <<fault, queueVars>>, UNCHANGED worldVars,
             baseline' \in Ids \cup {None}, seed' \in BOOLEAN
      PROVE  Consistent'
  <2>1. task.request \in Requests
    BY <1>1, <1>3 DEF TaskAt
  <2>2. task' \in Tasks /\ TaskShape(task', move) /\ task'.phase = "done"
    BY <1>1, <1>3, <2>1, ReturnedType
  <2>3. TaskOK(task', move) /\ task'.phase \in Quiet
    BY <2>2 DEF TaskOK, Quiet
  <2> QED
    BY <1>3, <2>3, QuietStep
<1>4. CASE MeasureOk
  <2>1. task' = [task EXCEPT !.phase = "connect", !.sent = FALSE]
        /\ task.phase = "measure"
    BY <1>4 DEF MeasureOk, TaskAt
  <2>2. task.request \in Requests
    BY <1>1, <2>1
  <2>3. task' \in Tasks /\ task'.phase = "connect" /\ task'.request = task.request
        /\ task'.sent = FALSE
    BY <1>1, <1>2, <2>1 DEF Tasks
  <2>4. TaskOK(task', move)
    BY <2>2, <2>3 DEF TaskOK, TaskShape
  <2>5. /\ TaskAt("measure") /\ UNCHANGED <<fault, queueVars>> /\ UNCHANGED worldVars
        /\ baseline' \in Ids \cup {None} /\ seed' \in BOOLEAN
    BY <1>1, <1>4 DEF MeasureOk, WorldOK
  <2>6. "measure" \notin Quiet
    BY DEF Quiet
  <2> QED
    BY <1>2, <2>4, <2>5, <2>6, QuietStep
<1>5. CASE MeasureAlreadyUp
  <2>1. baseline' \in Ids \cup {None} /\ seed' \in BOOLEAN
    BY <1>1, <1>5 DEF MeasureAlreadyUp, WorldOK
  <2> QED
    BY <1>2, <1>3, <1>5, <2>1 DEF MeasureAlreadyUp
<1>6. CASE MeasureRejects
  <2>1. baseline' \in Ids \cup {None} /\ seed' \in BOOLEAN
    BY <1>1, <1>6 DEF MeasureRejects, WorldOK
  <2> QED
    BY <1>2, <1>3, <1>6, <2>1 DEF MeasureRejects
<1>7. ASSUME NEW phase \in Phases \ {"none"}, phase \notin Quiet, TaskAt(phase),
             NEW new \in Phases \ {"none", "done", "stop"},
             task' = [task EXCEPT !.phase = new], new = "run" => task.sent,
             UNCHANGED <<fault, queue, futures>>, status' \in [Ids -> Statuses],
             UNCHANGED <<baseline, seed, worldVars>>
      PROVE  Consistent'
  <2>1. task.phase = phase /\ task.request \in Requests
    BY <1>1, <1>7 DEF TaskAt
  <2>2. task' \in Tasks /\ task'.phase = new /\ task'.request = task.request
        /\ task'.sent = task.sent
    BY <1>1, <1>7, PhaseStep
  <2>3. UNCHANGED <<move, pose, late, astray, baseline, seed>>
    BY <1>7 DEF worldVars
  <2>4. TaskOK(task', move')
    BY <1>1, <1>7, <2>1, <2>2, <2>3 DEF TaskOK, TaskShape
  <2>5. BookOK' /\ WorldOK' /\ (queue = <<>> => queue' = <<>>)
    BY <1>1, <1>7, <2>3 DEF BookOK, WorldOK
  <2>6. ~fault'
    BY <1>1, <1>7, <2>1 DEF Faulted
  <2> QED
    BY <1>7, <2>4, <2>5, <2>6, RunFrame
<1>8. CASE ConnectOk
  <2>1. "connect" \notin Quiet /\ "post" \in Phases \ {"none", "done", "stop"}
    BY DEF Quiet, Phases
  <2> QED
    BY <1>1, <1>2, <1>7, <1>8, <2>1 DEF ConnectOk, BookOK
<1>9. CASE PostAccepted
  <2>1. "post" \notin Quiet /\ "run" \in Phases \ {"none", "done", "stop"}
    BY DEF Quiet, Phases
  <2>2. status' \in [Ids -> Statuses]
    BY <1>1, <1>9 DEF PostAccepted, TypeOK, Statuses
  <2> QED
    BY <1>2, <1>7, <1>9, <2>1, <2>2 DEF PostAccepted
<1>10. CASE LatePostAccepted \/ RunTimesOut
  <2>1. PICK phase \in {"post_cancelled", "run"}, why \in {"cancelled", "expired", "lost"} :
          TaskAt(phase) /\ task' = StoppingMove(task, why)
    BY <1>10 DEF LatePostAccepted, RunTimesOut
  <2>2. task.request \in Requests
    BY <1>1, <2>1 DEF TaskAt
  <2>3. task' \in Tasks /\ task'.phase = "stop" /\ task'.why = why
        /\ task'.request = task.request /\ task'.sent = task.sent
    BY <1>1, <2>1, StopStep
  <2>4. TaskOK(task', move)
    BY <1>1, <2>2, <2>3 DEF TaskOK, TaskShape
  <2>5. UNCHANGED <<fault, queueVars>> /\ UNCHANGED worldVars
        /\ baseline' \in Ids \cup {None} /\ seed' \in BOOLEAN
    BY <1>1, <1>10 DEF LatePostAccepted, RunTimesOut, WorldOK
  <2>6. task'.phase \in Quiet
    BY <2>3 DEF Quiet
  <2> QED
    BY <1>2, <2>1, <2>4, <2>5, <2>6, QuietStep
<1>11. CASE SettleOk
  <2>1. TaskAt("settle") /\ UNCHANGED <<fault, queueVars>> /\ UNCHANGED worldVars
    BY <1>11 DEF SettleOk
  <2>2. task.phase = "settle" /\ task.request \in Requests
    BY <1>1, <2>1 DEF TaskAt
  <2>3. baseline' \in Ids \cup {None} /\ seed' \in BOOLEAN
    <3>1. task.request.id \in Ids
      BY <2>2 DEF Requests
    <3> QED
      BY <1>1, <1>11, <3>1 DEF SettleOk, WorldOK
  <2>4. CASE task' = Returned(task, "completed")
    BY <1>2, <1>3, <2>1, <2>3, <2>4
  <2>5. CASE task' = [task EXCEPT !.phase = "measure", !.leg = 2, !.uuid = FALSE]
    <3>1. task' \in Tasks /\ task'.phase = "measure" /\ task'.request = task.request
          /\ task'.sent = task.sent
      BY <1>1, <1>2, <2>5 DEF Tasks
    <3>2. TaskOK(task', move)
      BY <1>1, <2>2, <3>1 DEF TaskOK, TaskShape
    <3>3. "settle" \notin Quiet
      BY DEF Quiet
    <3> QED
      BY <1>2, <2>1, <2>3, <3>2, <3>3, QuietStep
  <2> QED
    BY <1>11, <2>4, <2>5 DEF SettleOk
<1>12. CASE RereadOk
  <2>1. baseline' \in Ids \cup {None} /\ seed' \in BOOLEAN
    <3>1. task.previous \in Ids \cup {None}
      BY <1>1 DEF Tasks
    <3> QED
      BY <1>1, <1>12, <3>1 DEF RereadOk, WorldOK
  <2> QED
    BY <1>2, <1>3, <1>12, <2>1 DEF RereadOk
<1>13. CASE HoldOk
  <2>1. baseline' \in Ids \cup {None} /\ seed' \in BOOLEAN
    <3>1. task.previous \in Ids \cup {None}
      BY <1>1 DEF Tasks
    <3> QED
      BY <1>1, <1>13, <3>1 DEF HoldOk, WorldOK
  <2>2. PICK out \in Terminal : task' = Returned(task, out)
    BY <1>2, <1>13 DEF HoldOk
  <2> QED
    BY <1>2, <1>3, <1>13, <2>1, <2>2 DEF HoldOk
<1> QED
  BY <1>4, <1>5, <1>6, <1>8, <1>9, <1>10, <1>11, <1>12, <1>13

\* The answers that end a leg or latch a fault.
LEMMA RunLegsEnd ==
  ASSUME Consistent,
         \/ MeasureFails \/ ConnectLate \/ ConnectFails \/ PostRefused \/ PostUnknown
         \/ LatePostFails \/ RunSeesEvent \/ RunLosesEvents \/ StopConfirmed \/ StopFails
         \/ SettleFails \/ RereadFails \/ HoldFails
  PROVE  Consistent'
<1>1. TypeOK /\ TaskShape(task, move) /\ ControlShape /\ Faulted /\ WorldOK /\ BookOK
      /\ task \in Tasks /\ (task.sent => move # "none")
      /\ (task.phase # "none" => task.request \in Requests)
  BY ConsistentParts DEF Consistent
<1>2. /\ {"connect", "post", "run", "measure", "stop", "settle", "reread", "hold",
          "post_cancelled"} \subseteq Phases \ {"none", "done", "crashed"}
      /\ {"completed", "rejected", "cancelled", "failed", "expired"} \subseteq Terminal
  BY DEF Phases, Terminal
<1>3. CASE MeasureFails \/ SettleFails \/ RereadFails
  <2>1. PICK phase \in Phases \ {"none", "done", "crashed"}, moved \in BOOLEAN :
          TaskAt(phase) /\ VerificationFails(moved) /\ UNCHANGED <<seed, worldVars>>
    <3>1. (task.leg = 2) \in BOOLEAN /\ task.uuid \in BOOLEAN
      BY <1>1 DEF Tasks
    <3> QED
      BY <1>2, <1>3, <3>1 DEF MeasureFails, SettleFails, RereadFails
  <2> QED
    BY <2>1, VerificationFailsType
\* The end of a leg with the daemon as it is.
<1>4. ASSUME NEW phase \in Phases \ {"none", "done", "crashed"}, TaskAt(phase),
             NEW out \in Terminal, NEW found \in BOOLEAN, NEW uuid \in BOOLEAN,
             LegEnds(out, found, uuid), out = "completed" => ~fault /\ ~found,
             UNCHANGED <<seed, worldVars>>
      PROVE  Consistent'
  <2>1. UNCHANGED <<seed, move, pose, late, astray>>
    BY <1>4 DEF worldVars
  <2>2. /\ move' \in {"none", "running", "completed", "cancelled", "failed"}
        /\ pose' \in {"origin", "away"} /\ late' \subseteq AllKinds /\ astray' \in AllKinds \cup {None} /\ (move # "none" => move' # "none")
    BY <1>1, <2>1 DEF WorldOK
  <2> QED
    BY <1>4, <2>1, <2>2, LegEndsType
<1>5. CASE ConnectLate
  BY <1>2, <1>4, <1>5 DEF ConnectLate
<1>6. CASE ConnectFails
  BY <1>2, <1>4, <1>6 DEF ConnectFails
<1>7. CASE StopFails
  BY <1>2, <1>4, <1>7 DEF StopFails
<1>8. CASE StopConfirmed
  <2>1. task.phase = "stop"
    BY <1>8 DEF StopConfirmed, TaskAt
  <2>2. PICK out \in {"failed", "cancelled", "expired"} : LegEnds(out, FALSE, TRUE)
    BY <1>1, <1>8, <2>1 DEF StopConfirmed, TaskShape
  <2> QED
    BY <1>2, <1>4, <1>8, <2>2 DEF StopConfirmed
<1>9. CASE RunSeesEvent
  <2>1. task.phase = "run" /\ move # "running" /\ TaskAt("run")
        /\ LegEnds(move, move = "failed", TRUE) /\ UNCHANGED <<seed, worldVars>>
    BY <1>9 DEF RunSeesEvent, TaskAt
  <2>2. move \in {"completed", "cancelled", "failed"}
    BY <1>1, <2>1 DEF TaskShape, WorldOK
  <2>3. ~fault
    BY <1>1, <2>1 DEF Faulted, Quiet
  <2>4. CASE move = "failed"
    <3>1. LegEnds("failed", TRUE, TRUE)
      BY <2>1, <2>4
    <3> QED
      BY <1>2, <1>4, <2>1, <3>1
  <2>5. CASE move # "failed"
    <3>1. LegEnds(move, FALSE, TRUE) /\ move \in Terminal
      BY <1>2, <2>1, <2>2, <2>5
    <3> QED
      BY <1>2, <1>4, <2>1, <2>3, <3>1
  <2> QED
    BY <2>4, <2>5
<1>10. CASE PostUnknown \/ LatePostFails
  <2>1. PICK phase \in {"post", "post_cancelled"} :
          TaskAt(phase) /\ LegEnds("failed", TRUE, FALSE) /\ GivenUp(TRUE) /\ UNCHANGED seed
    BY <1>10 DEF PostUnknown, LatePostFails
  <2>2. /\ move' \in {"none", "running", "completed", "cancelled", "failed"}
        /\ pose' \in {"origin", "away"} /\ late' \subseteq AllKinds /\ astray' \in AllKinds \cup {None} /\ (move # "none" => move' # "none")
    <3>1. Kind \in AllKinds
      BY <2>1, ActiveKind DEF TaskAt
    <3> QED
      BY <1>1, <2>1, <3>1, GivenUpType
  <2> QED
    BY <1>2, <2>1, <2>2, LegEndsType
<1>11. CASE PostRefused
  <2> DEFINE t == [task EXCEPT !.uuid = FALSE]
  <2>1. TaskAt("post") /\ task.phase = "post" /\ task.request \in Requests
    BY <1>1, <1>11 DEF PostRefused, TaskAt
  <2>2. t \in Tasks /\ t.request = task.request /\ t.sent = task.sent
    BY <1>1 DEF Tasks
  <2>3. task' = AfterLeg(t, "rejected", fault)
    BY <1>11 DEF PostRefused
  <2>4. UNCHANGED <<fault, seed, move, pose, late, astray>>
    BY <1>11 DEF PostRefused, worldVars
  <2>5. WorldOK'
    BY <1>1, <1>11, <2>4 DEF PostRefused, WorldOK, BaselineAfterLeg
  <2>6. ~fault /\ ~fault'
    BY <1>1, <2>1, <2>4 DEF Faulted, Quiet
  <2>7. BookOK' /\ (queue = <<>> => queue' = <<>>)
    <3>1. CASE Drain
      BY <1>1, <2>4, <2>6, <3>1, DrainType DEF BookOK
    <3>2. CASE UNCHANGED queueVars
      BY <1>1, <2>4, <3>2 DEF BookOK, queueVars
    <3> QED
      BY <1>11, <3>1, <3>2 DEF PostRefused
  <2>8. t.request \in Requests /\ (t.sent => move' # "none") /\ fault \in BOOLEAN
    BY <1>1, <2>1, <2>2, <2>4 DEF BookOK
  <2> HIDE DEF t
  <2>9. task' \in Tasks /\ TaskShape(task', move')
        /\ task'.phase \in {"settle", "reread", "hold", "done"}
    BY <1>2, <2>2, <2>3, <2>8, AfterLegType
  <2>10. TaskOK(task', move')
    BY <2>9 DEF TaskOK
  <2> QED
    BY <2>1, <2>5, <2>6, <2>7, <2>10, RunFrame
\* A fault found while the task goes on to stop, or returns.
<1>12. CASE RunLosesEvents \/ HoldFails
  <2>1. PICK phase \in {"run", "hold"} : TaskAt(phase)
    BY <1>12 DEF RunLosesEvents, HoldFails
  <2>2. task.phase = phase /\ task.request \in Requests
    BY <1>1, <2>1 DEF TaskAt
  <2>3. TripIf(TRUE) /\ baseline' = None /\ UNCHANGED <<seed, move, pose, late, astray>>
    BY <1>12 DEF RunLosesEvents, HoldFails, worldVars
  <2>4. BookOK' /\ (queue = <<>> => queue' = <<>>)
    BY <1>1, <2>3, TripType
  <2>5. WorldOK'
    BY <1>1, <2>3 DEF WorldOK
  <2>6. TaskOK(task', move') /\ task'.phase \in Quiet
    <3>1. CASE task' = StoppingMove(task, "lost")
      <4>1. task' \in Tasks /\ task'.phase = "stop" /\ task'.why = "lost"
            /\ task'.request = task.request /\ task'.sent = task.sent
        BY <1>1, <3>1, StopStep
      <4> QED
        BY <1>1, <2>2, <2>3, <4>1 DEF TaskOK, TaskShape, Quiet
    <3>2. CASE task' = Returned(task, "failed")
      <4>1. task' \in Tasks /\ TaskShape(task', move') /\ task'.phase = "done"
        BY <1>1, <1>2, <2>2, <3>2, ReturnedType
      <4> QED
        BY <4>1 DEF TaskOK, Quiet
    <3> QED
      BY <1>12, <3>1, <3>2 DEF RunLosesEvents, HoldFails
  <2> QED
    BY <2>1, <2>2, <2>4, <2>5, <2>6, <1>2, RunFrame
<1> QED
  BY <1>3, <1>5, <1>6, <1>7, <1>8, <1>9, <1>10, <1>11, <1>12

LEMMA DeadlineConsistent ==
  ASSUME Consistent, DeadlinePasses
  PROVE  Consistent'
<1>1. TypeOK /\ TaskShape(task, move) /\ ControlShape /\ Faulted /\ WorldOK /\ BookOK
  BY ConsistentParts DEF Consistent
<1>2. Interrupt(FALSE) /\ task.phase \notin {"none", "done", "crashed"}
  BY DEF DeadlinePasses
<1>3. UNCHANGED <<closed, fault, turn, queue, futures, status, control, waitingFor, stops,
                  worker, wake, seed, invalidated>>
  BY DEF DeadlinePasses, queueVars, controlVars, workerVars
<1>4. /\ TaskOK(task', move') /\ (fault => task'.phase \in Quiet)
      /\ baseline' \in Ids \cup {None}
      /\ move' \in {"none", "running", "completed", "cancelled", "failed"}
      /\ pose' \in {"origin", "away"} /\ late' \subseteq AllKinds /\ astray' \in AllKinds \cup {None}
  BY <1>2, InterruptType
<1>5. task' \in Tasks /\ TaskShape(task', move')
  BY <1>4 DEF TaskOK
<1>5a. cut' \subseteq Cuts
  BY <1>1, <1>2 DEF Interrupt, TypeOK
<1>6. TypeOK'
  BY <1>1, <1>3, <1>4, <1>5, <1>5a DEF TypeOK
<1>7. ControlShape'
  BY <1>1, <1>2, <1>3 DEF ControlShape, Stopping, Idle
<1>8. Faulted'
  BY <1>1, <1>3, <1>4 DEF Faulted
<1> QED
  BY <1>5, <1>6, <1>7, <1>8 DEF Consistent

LEMMA DaemonConsistent ==
  ASSUME Consistent, Daemon
  PROVE  Consistent'
<1>1. TypeOK /\ TaskShape(task, move) /\ ControlShape /\ Faulted /\ WorldOK /\ task \in Tasks
  BY ConsistentParts DEF Consistent
<1>2. UNCHANGED <<closed, fault, turn, queue, futures, status, control, waitingFor, stops, cut,
                  worker, wake, baseline, seed, invalidated>>
  BY DEF Daemon, DaemonStarts, DaemonEnds, StrayStarts, StrayEnds, queueVars, controlVars,
         workerVars, postureVars
<1> DEFINE World == /\ move' \in {"none", "running", "completed", "cancelled", "failed"}
                    /\ move # "none" => move' # "none"
                    /\ pose' \in {"origin", "away"}
                    /\ late' \subseteq AllKinds /\ astray' \in AllKinds \cup {None}
<1>3. World
  <2>1. CASE DaemonStarts
    BY <1>1, <2>1 DEF DaemonStarts, WorldOK
  <2>2. ASSUME NEW how \in {"completed", "cancelled", "failed"}, DaemonEnds(how) PROVE World
    BY <1>1, <2>2 DEF DaemonEnds, WorldOK
  <2>3. ASSUME NEW kind \in Kinds, StrayStarts(kind) PROVE World
    BY <1>1, <2>3, ExecutorAssumption DEF StrayStarts, WorldOK
  <2>4. CASE StrayEnds
    BY <1>1, <2>4 DEF StrayEnds, WorldOK
  <2> QED
    BY <2>1, <2>2, <2>3, <2>4 DEF Daemon
<1>4. /\ task' \in Tasks /\ task'.phase = task.phase /\ task'.request = task.request
      /\ task'.why = task.why /\ task'.out = task.out
      /\ (task.sent => task'.sent)
  <2>1. CASE DaemonStarts
    <3>1. task' = [task EXCEPT !.sent = TRUE]
      BY <2>1 DEF DaemonStarts
    <3> QED
      BY <1>1, <3>1 DEF Tasks
  <2>2. CASE task' = task
    BY <1>1, <2>2
  <2> QED
    BY <2>1, <2>2 DEF Daemon, DaemonEnds, StrayStarts, StrayEnds
<1>5. TaskShape(task', move')
  <2>1. DaemonStarts => move' = "running"
    BY DEF DaemonStarts
  <2>2. task'.sent => move' # "none"
    BY <1>1, <1>3, <2>1 DEF Daemon, DaemonEnds, StrayStarts, StrayEnds, TaskShape
  <2> QED
    BY <1>1, <1>4, <2>2 DEF TaskShape
<1>6. TypeOK'
  BY <1>1, <1>2, <1>3, <1>4 DEF TypeOK
<1>7. ControlShape'
  BY <1>1, <1>2, <1>4 DEF ControlShape, Stopping, Idle
<1>8. Faulted'
  BY <1>1, <1>2, <1>4 DEF Faulted
<1> QED
  BY <1>5, <1>6, <1>7, <1>8 DEF Consistent

LEMMA ConsistentStep ==
  ASSUME Consistent, [Next]_vars
  PROVE  Consistent'
<1>1. CASE Caller
  BY <1>1, SubmissionConsistent, ControlBegins DEF Caller
<1>2. CASE Controller
  BY <1>2, ControlEnds
<1>3. CASE Worker
  BY <1>3, WorkerConsistent
<1>4. CASE Run
  BY <1>4, RunGoesOn, RunLegsEnd DEF Run
<1>5. CASE DeadlinePasses
  BY <1>5, DeadlineConsistent
<1>6. CASE Daemon
  BY <1>6, DaemonConsistent
<1>7. CASE UNCHANGED vars
  <2>1. UNCHANGED <<closed, fault, turn, queue, futures, status, control, waitingFor, stops, cut,
                    worker, wake, task, baseline, seed, invalidated, move, pose, late, astray>>
    BY <1>7 DEF vars, queueVars, controlVars, workerVars, postureVars, worldVars
  <2>2. TypeOK'
    BY <2>1 DEF Consistent, TypeOK
  <2>3. TaskShape(task', move') /\ ControlShape' /\ Faulted'
    BY <2>1 DEF Consistent, ControlShape, Stopping, Idle, Faulted
  <2> QED
    BY <2>2, <2>3 DEF Consistent
<1> QED
  BY <1>1, <1>2, <1>3, <1>4, <1>5, <1>6, <1>7 DEF Next

\* The inductive invariant every other proof of the executor rests on: types,
\* the shape of the task and of control operations, and quiet after a fault
\* (executor.py, _cancel, _run, _trip).
THEOREM ConsistentAlways == Spec => []Consistent
<1>1. Init => Consistent
  BY InitConsistent
<1>2. Consistent /\ [Next]_vars => Consistent'
  BY ConsistentStep
<1> QED
  BY <1>1, <1>2, PTL DEF Spec

\* Whatever callers, timers, the worker and the daemon do, every variable of
\* the executor keeps its type; in particular the queue never outgrows its
\* capacity and an ended task has a terminal result to report.
THEOREM TypeCorrect == Spec => []TypeOK
<1>1. Consistent => TypeOK
  BY DEF Consistent
<1> QED
  BY <1>1, ConsistentAlways, PTL

-----------------------------------------------------------------------------
(* A fault is final.                                                       *)

LEMMA NothingGivenUp ==
  ASSUME NEW given_up, GivenUp(given_up), ~given_up
  PROVE  move' = move /\ late' = late
  BY DEF GivenUp

LEMMA TripKeepsFault ==
  ASSUME NEW found, TripIf(found), fault = TRUE
  PROVE  fault' = TRUE
  BY DEF TripIf

LEMMA FaultStep ==
  ASSUME Consistent, [Next]_vars, fault
  PROVE  fault' /\ task'.phase # "post" /\ (move # "running" => move' # "running") /\ late' \subseteq late
<1> DEFINE Still == fault' /\ (move # "running" => move' # "running") /\ late' \subseteq late
<1> USE DEF worldVars
<1>1. fault = TRUE /\ task.phase \in Quiet
  BY DEF Consistent, Faulted, TypeOK
<1>2. task.phase \notin {"post", "post_cancelled"}
  BY <1>1 DEF Quiet
<1>3. ASSUME NEW byControl, Interrupt(byControl) PROVE move' = move /\ late' = late
  BY <1>2, <1>3, NothingGivenUp DEF Interrupt
<1>4. ASSUME NEW reason, Cancel(reason) PROVE move' = move /\ late' = late
  BY <1>3, <1>4 DEF Cancel
<1>5. ASSUME Caller PROVE Still
  <2>1. fault' = fault
    BY <1>5 DEF Caller, Refuse, Submit, BeginCancel, StopWaits, BeginStop, BeginSetTurn, BeginClose,
                BeginInvalidate, BeginReview
  <2>2. move' = move /\ late' = late
    BY <1>4, <1>5 DEF Caller, Refuse, Submit, BeginCancel, StopWaits, BeginStop, BeginSetTurn,
                BeginClose, BeginInvalidate, BeginReview
  <2> QED
    BY <1>1, <2>1, <2>2
<1>6. ASSUME Controller PROVE Still
  BY <1>1, <1>6, TripKeepsFault DEF Controller, EndReview, PinEnds, EndControl
<1>7. ASSUME Worker PROVE Still
  BY <1>1, <1>7 DEF Worker, WorkerWakes, WorkerPauses, WorkerExpires, WorkerStarts,
                    WorkerCollects, WorkerDies
<1>8. ASSUME Run PROVE Still
  <2>1. CASE StopConfirmed \/ StopFails
    BY <1>1, <2>1, TripKeepsFault DEF StopConfirmed, StopFails, LegEnds
  <2>2. CASE HoldOk \/ HoldFails
    BY <1>1, <2>2, TripKeepsFault DEF HoldOk, HoldFails
  <2>3. CASE Run /\ task.phase \notin {"stop", "hold"}
    <3>1. task.phase \in {"measure", "connect", "post", "post_cancelled", "run", "settle", "reread"}
      BY <2>3 DEF Run, MeasureOk, MeasureAlreadyUp, MeasureRejects, MeasureFails, ConnectOk,
           ConnectLate, ConnectFails, PostAccepted, PostRefused, PostUnknown, LatePostAccepted,
           LatePostFails, RunSeesEvent, RunTimesOut, RunLosesEvents, StopConfirmed, StopFails,
           SettleOk, SettleFails, RereadOk, RereadFails, HoldOk, HoldFails, TaskAt
    <3> QED
      BY <1>1, <3>1 DEF Quiet
  <2>4. task.phase \in {"stop", "hold"} => StopConfirmed \/ StopFails \/ HoldOk \/ HoldFails
    BY <1>8 DEF Run, MeasureOk, MeasureAlreadyUp, MeasureRejects, MeasureFails, ConnectOk,
           ConnectLate, ConnectFails, PostAccepted, PostRefused, PostUnknown, LatePostAccepted,
           LatePostFails, RunSeesEvent, RunTimesOut, RunLosesEvents, SettleOk, SettleFails,
           RereadOk, RereadFails, TaskAt
  <2> QED
    BY <1>8, <2>1, <2>2, <2>3, <2>4
<1>9. ASSUME DeadlinePasses PROVE Still
  BY <1>1, <1>3, <1>9 DEF DeadlinePasses
<1>10. ASSUME Daemon PROVE Still
  BY <1>1, <1>2, <1>10 DEF Daemon, DaemonStarts, DaemonEnds, StrayStarts, StrayEnds
<1>11. ASSUME UNCHANGED vars PROVE Still
  BY <1>1, <1>11 DEF vars
<1>12. Still
  BY <1>5, <1>6, <1>7, <1>8, <1>9, <1>10, <1>11 DEF Next
<1>13. task'.phase # "post"
  BY <1>12, ConsistentStep DEF Consistent, Faulted, Quiet
<1> QED
  BY <1>12, <1>13

\* Once a fault is latched it stays and the executor starts nothing more: no
\* POST is sent, no queued request, no move it watches; a move that the daemon
\* still starts is one whose POST had been given up on before (executor.py
\* _trip, transport.py start).
THEOREM FaultFinal == Spec => FaultIsFinal
<1>1. Consistent /\ [Next]_vars =>
        [fault => /\ fault'
                  /\ task'.phase = "post" => task.phase = "post"
                  /\ move # "running" => move' # "running"
                  /\ late' \subseteq late]_vars
  BY FaultStep
<1> QED
  BY <1>1, ConsistentAlways, PTL DEF Spec, FaultIsFinal

-----------------------------------------------------------------------------
(* A turn change reaches everything that belongs to an earlier turn.       *)

\* The run that goes on is for the same request, and remembers an interrupt.
Kept(t, n) ==
  /\ n.request = t.request
  /\ n.phase # "none"
  /\ n.phase \in {"done", "crashed"} \/ n.byControl = t.byControl

LEMMA ReturnedKept ==
  ASSUME NEW t, NEW out
  PROVE  Kept(t, Returned(t, out))
  BY DEF Kept, Returned, Ended

LEMMA AfterLegKept ==
  ASSUME NEW t \in Tasks, t.request \in Requests, NEW out \in Terminal, NEW faulted \in BOOLEAN
  PROVE  Kept(t, AfterLeg(t, out, faulted))
<1>1. PICK m : t.sent => m # "none"
  <2>1. "running" # "none"
    OBVIOUS
  <2> QED
    BY <2>1
<1>2. PICK n : n = AfterLeg(t, out, faulted)
  OBVIOUS
<1>3. /\ n.request = t.request /\ (n.phase = "done" \/ n.byControl = t.byControl)
      /\ n.phase \in {"settle", "reread", "hold", "done"}
  BY <1>1, <1>2, AfterLegType
<1> QED
  BY <1>2, <1>3 DEF Kept

LEMMA RunKept ==
  ASSUME Consistent, Run
  PROVE  Kept(task, task')
<1>1. task \in Tasks /\ fault \in BOOLEAN
  BY ConsistentParts DEF BookOK
<1>2. task.phase # "none" /\ task.request \in Requests
  <2>1. task.phase # "none"
    BY DEF Run, MeasureOk, MeasureAlreadyUp, MeasureRejects, MeasureFails, ConnectOk,
           ConnectLate, ConnectFails, PostAccepted, PostRefused, PostUnknown, LatePostAccepted,
           LatePostFails, RunSeesEvent, RunTimesOut, RunLosesEvents, StopConfirmed, StopFails,
           SettleOk, SettleFails, RereadOk, RereadFails, HoldOk, HoldFails, TaskAt
  <2> QED
    BY <2>1, ConsistentParts
<1>3. ASSUME NEW out, task' = Returned(task, out) PROVE Kept(task, task')
  BY <1>3, ReturnedKept
<1>4. ASSUME NEW why \in Reasons, task' = Holding(task, why) PROVE Kept(task, task')
  BY <1>1, <1>4, HoldingStep DEF Kept
<1>5. ASSUME NEW why \in {"cancelled", "expired", "lost"}, task' = StoppingMove(task, why)
      PROVE  Kept(task, task')
  BY <1>1, <1>5, StopStep DEF Kept
<1>6. ASSUME NEW uuid \in BOOLEAN, NEW out \in Terminal, NEW faulted \in BOOLEAN,
             task' = AfterLeg([task EXCEPT !.uuid = uuid], out, faulted)
      PROVE  Kept(task, task')
  <2> DEFINE t == [task EXCEPT !.uuid = uuid]
  <2>1. t \in Tasks /\ t.request = task.request /\ t.byControl = task.byControl
    BY <1>1 DEF Tasks
  <2>2. task' = AfterLeg(t, out, faulted)
    BY <1>6
  <2> HIDE DEF t
  <2>3. Kept(t, task')
    BY <1>2, <2>1, <2>2, AfterLegKept
  <2> QED
    BY <2>1, <2>3 DEF Kept
<1>7. {"completed", "rejected", "cancelled", "failed", "expired"} \subseteq Terminal
      /\ "exception" \in Reasons
  BY DEF Terminal, Reasons
<1>8. ASSUME NEW moved, VerificationFails(moved) PROVE Kept(task, task')
  BY <1>3, <1>4, <1>7, <1>8 DEF VerificationFails
<1>9. CASE MeasureFails \/ SettleFails \/ RereadFails
  BY <1>8, <1>9 DEF MeasureFails, SettleFails, RereadFails
<1>10. CASE MeasureAlreadyUp \/ MeasureRejects \/ RereadOk \/ HoldOk \/ HoldFails
  BY <1>3, <1>10 DEF MeasureAlreadyUp, MeasureRejects, RereadOk, HoldOk, HoldFails
<1>11. CASE LatePostAccepted \/ RunTimesOut \/ RunLosesEvents
  BY <1>5, <1>11 DEF LatePostAccepted, RunTimesOut, RunLosesEvents
<1>12. ASSUME NEW out \in Terminal, NEW found \in BOOLEAN, NEW uuid \in BOOLEAN,
              LegEnds(out, found, uuid)
       PROVE  Kept(task, task')
  <2>1. (fault \/ found) \in BOOLEAN
    BY <1>1
  <2> QED
    BY <1>6, <1>12, <2>1 DEF LegEnds
<1>13. CASE ConnectLate \/ ConnectFails \/ PostUnknown \/ LatePostFails \/ StopFails
  BY <1>7, <1>12, <1>13 DEF ConnectLate, ConnectFails, PostUnknown, LatePostFails, StopFails
<1>14. CASE StopConfirmed
  <2>1. PICK out \in {"failed", "cancelled", "expired"} : LegEnds(out, FALSE, TRUE)
    BY <1>14, ConsistentParts DEF StopConfirmed, TaskAt, TaskShape
  <2> QED
    BY <1>7, <1>12, <2>1
<1>15. CASE RunSeesEvent
  <2>1. move \in Terminal /\ (move = "failed") \in BOOLEAN
    BY <1>7, <1>15, ConsistentParts DEF RunSeesEvent, TaskAt, TaskShape, WorldOK
  <2> QED
    BY <1>12, <1>15, <2>1 DEF RunSeesEvent
<1>16. CASE PostRefused
  BY <1>1, <1>6, <1>7, <1>16 DEF PostRefused
<1>17. CASE MeasureOk \/ ConnectOk \/ PostAccepted
  BY <1>1, <1>17 DEF MeasureOk, ConnectOk, PostAccepted, Kept, Tasks
<1>18. CASE SettleOk
  <2>1. CASE task' = [task EXCEPT !.phase = "measure", !.leg = 2, !.uuid = FALSE]
    BY <1>1, <2>1 DEF Kept, Tasks
  <2> QED
    BY <1>3, <1>18, <2>1 DEF SettleOk
<1> QED
  BY <1>9, <1>10, <1>11, <1>13, <1>14, <1>15, <1>16, <1>17, <1>18 DEF Run

LEMMA InterruptKept ==
  ASSUME Consistent, NEW byControl \in BOOLEAN, Interrupt(byControl),
         task.phase \notin {"none", "done", "crashed"}
  PROVE  /\ task'.request = task.request /\ task'.phase # "none"
         /\ \/ task'.phase \in {"done", "crashed"}
            \/ task'.byControl = (task.byControl \/ byControl)
<1> DEFINE t == IF byControl THEN [task EXCEPT !.byControl = TRUE]
                            ELSE [task EXCEPT !.byDeadline = TRUE]
<1>1. task \in Tasks /\ task.request \in Requests /\ fault \in BOOLEAN
      /\ (task.sent => move # "none")
  BY ConsistentParts DEF BookOK
<1>2. /\ t \in Tasks /\ t.phase = task.phase /\ t.request = task.request
      /\ t.sent = task.sent /\ t.byControl = (task.byControl \/ byControl)
  BY <1>1 DEF Tasks
<1>3. task' = Interrupted(t)
  BY DEF Interrupt
<1> HIDE DEF t
<1>4. /\ task'.request = t.request /\ task'.phase # "none"
      /\ (task'.phase \in {"done", "crashed"} \/ task'.byControl = t.byControl)
  BY <1>1, <1>2, <1>3, InterruptedType
<1> QED
  BY <1>2, <1>4

\* After _cancel nothing waits and what is left of the task knows of it.
LEMMA CancelKept ==
  ASSUME Consistent, NEW reason, Cancel(reason)
  PROVE  /\ queue' = <<>>
         /\ task'.phase \in {"none", "done", "crashed"} \/ task'.byControl
         /\ Idle' <=> Idle
         /\ task'.request = task.request
<1>1. queue' = <<>>
  BY DEF Cancel, Drain
<1>2. CASE UNCHANGED task /\ task.phase \in {"none", "done", "crashed"}
  BY <1>1, <1>2 DEF Idle
<1>3. CASE Interrupt(TRUE) /\ task.phase \notin {"none", "done", "crashed"}
  BY <1>1, <1>3, InterruptKept DEF Idle
<1> QED
  BY <1>2, <1>3 DEF Cancel, Idle

QueueCurrent == \A i \in 1 .. Len(queue) : queue[i].turn = turn
TaskCurrent ==
  task.phase \in {"none", "done", "crashed"} \/ task.byControl \/ task.request.turn = turn

LEMMA TailTurns ==
  ASSUME TypeOK, QueueCurrent, queue # <<>>, queue' = Tail(queue), turn' = turn
  PROVE  QueueCurrent'
<1>1. queue \in Seq(Requests)
  BY DEF TypeOK
<1>2. ASSUME NEW i \in 1 .. Len(queue') PROVE queue'[i].turn = turn'
  <2>1. queue'[i] = queue[i + 1] /\ i + 1 \in 1 .. Len(queue)
    BY <1>1
  <2> QED
    BY <2>1 DEF QueueCurrent
<1> QED
  BY <1>2 DEF QueueCurrent

LEMMA TurnStep ==
  ASSUME Consistent, QueueCurrent /\ TaskCurrent, [Next]_vars
  PROVE  (QueueCurrent /\ TaskCurrent)'
<1>1. TypeOK /\ task \in Tasks
  BY ConsistentParts DEF Consistent
\* Steps of a task for its own request, with the turn and perhaps less queue.
<1>2. ASSUME Kept(task, task'), turn' = turn,
             queue' = queue \/ queue' = <<>>, task.phase \notin {"none", "done", "crashed"}
      PROVE  (QueueCurrent /\ TaskCurrent)'
  BY <1>2 DEF Kept, QueueCurrent, TaskCurrent
<1>3. ASSUME NEW reason, Cancel(reason) PROVE (QueueCurrent /\ TaskCurrent)'
  BY <1>3, CancelKept DEF QueueCurrent, TaskCurrent
<1>4. ASSUME UNCHANGED <<turn, task>>, queue' = queue \/ queue' = <<>>
      PROVE  (QueueCurrent /\ TaskCurrent)'
  BY <1>4 DEF QueueCurrent, TaskCurrent
<1>5. ASSUME NEW found, TripIf(found) PROVE queue' = queue \/ queue' = <<>>
  BY <1>5 DEF TripIf, Drain, queueVars
<1>6. CASE Caller
  <2>1. ASSUME NEW id \in Ids, Refuse(id) PROVE (QueueCurrent /\ TaskCurrent)'
    BY <1>4, <2>1 DEF Refuse
  <2>2. ASSUME NEW request \in Requests, Submit(request) PROVE (QueueCurrent /\ TaskCurrent)'
    <3>1. queue' = Append(queue, request) /\ request.turn = turn /\ UNCHANGED <<turn, task>>
      BY <2>2 DEF Submit, Admissible, RightTurn
    <3>2. queue \in Seq(Requests)
      BY <1>1 DEF TypeOK
    <3>3. QueueCurrent'
      BY <3>1, <3>2 DEF QueueCurrent
    <3> QED
      BY <3>1, <3>3 DEF TaskCurrent
  <2>3. CASE BeginReview \/ (\E id \in Ids : StopWaits(id))
    BY <1>4, <2>3 DEF BeginReview, StopWaits, queueVars
  <2> QED
    BY <1>3, <1>6, <2>1, <2>2, <2>3 DEF Caller, BeginCancel, BeginStop, BeginSetTurn,
       BeginClose, BeginInvalidate
<1>7. CASE Controller
  BY <1>4, <1>5, <1>7 DEF Controller, EndReview, PinEnds, EndControl, queueVars
<1>8. CASE Worker
  <2>1. CASE WorkerWakes \/ WorkerPauses \/ WorkerDies
    BY <1>4, <2>1 DEF WorkerWakes, WorkerPauses, WorkerDies, queueVars
  <2>2. CASE WorkerExpires
    BY <1>1, <2>2, TailTurns DEF WorkerExpires, TaskCurrent
  <2>3. CASE WorkerStarts
    <3>1. QueueCurrent'
      BY <1>1, <2>3, TailTurns DEF WorkerStarts
    <3>2. task'.request = Head(queue) /\ Head(queue).turn = turn /\ turn' = turn
      BY <2>3 DEF WorkerStarts, NoTask
    <3> QED
      BY <3>1, <3>2 DEF TaskCurrent
  <2>4. CASE WorkerCollects
    BY <2>4 DEF WorkerCollects, NoTask, QueueCurrent, TaskCurrent
  <2> QED
    BY <1>8, <2>1, <2>2, <2>3, <2>4 DEF Worker
<1>9. CASE Run
  <2>1. Kept(task, task')
    BY <1>9, RunKept
  <2>2. turn' = turn /\ task.phase \notin {"none", "done", "crashed"}
    BY <1>9 DEF Run, MeasureOk, MeasureAlreadyUp, MeasureRejects, MeasureFails, ConnectOk,
           ConnectLate, ConnectFails, PostAccepted, PostRefused, PostUnknown, LatePostAccepted,
           LatePostFails, RunSeesEvent, RunTimesOut, RunLosesEvents, StopConfirmed, StopFails,
           SettleOk, SettleFails, RereadOk, RereadFails, HoldOk, HoldFails, TaskAt
  <2>3. queue' = queue \/ queue' = <<>>
    <3>1. CASE UNCHANGED queue
      BY <3>1
    <3>2. CASE Drain
      BY <3>2 DEF Drain
    <3>3. CASE \E found : TripIf(found)
      BY <1>5, <3>3
    <3> QED
      BY <1>9, <3>1, <3>2, <3>3 DEF Run, MeasureOk, MeasureAlreadyUp, MeasureRejects,
           MeasureFails, ConnectOk, ConnectLate, ConnectFails, PostAccepted, PostRefused,
           PostUnknown, LatePostAccepted, LatePostFails, RunSeesEvent, RunTimesOut,
           RunLosesEvents, StopConfirmed, StopFails, SettleOk, SettleFails, RereadOk,
           RereadFails, HoldOk, HoldFails, LegEnds, VerificationFails, queueVars
  <2> QED
    BY <1>2, <2>1, <2>2, <2>3
<1>10. CASE DeadlinePasses
  <2>1. Interrupt(FALSE) /\ task.phase \notin {"none", "done", "crashed"}
        /\ UNCHANGED <<turn, queue>>
    BY <1>10 DEF DeadlinePasses, queueVars
  <2>2. task.byControl \in BOOLEAN
    BY <1>1 DEF Tasks
  <2>3. Kept(task, task')
    BY <2>1, <2>2, InterruptKept DEF Kept
  <2> QED
    BY <1>2, <2>1, <2>3
<1>11. CASE Daemon
  <2>1. UNCHANGED <<turn, queue>> /\ task'.request = task.request
        /\ task'.phase = task.phase /\ task'.byControl = task.byControl
    BY <1>1, <1>11 DEF Daemon, DaemonStarts, DaemonEnds, StrayStarts, StrayEnds, queueVars, Tasks
  <2> QED
    BY <2>1 DEF QueueCurrent, TaskCurrent
<1>12. CASE UNCHANGED vars
  BY <1>4, <1>12 DEF vars, queueVars
<1> QED
  BY <1>6, <1>7, <1>8, <1>9, <1>10, <1>11, <1>12 DEF Next

\* After a turn change, and whatever else happens meanwhile, no request of
\* another turn waits and none runs that has not been told to stop
\* (executor.py set_turn, _cancel, submit's turn check).
THEOREM TurnIsCurrent == Spec => []TurnCurrent
<1>1. Init => QueueCurrent /\ TaskCurrent
  <2> SUFFICES ASSUME Init PROVE QueueCurrent /\ TaskCurrent
    OBVIOUS
  <2>1. task.phase = "none" /\ queue = <<>>
    BY DEF Init, NoTask
  <2>2. Len(queue) = 0
    BY <2>1
  <2>3. QueueCurrent
    BY <2>2 DEF QueueCurrent
  <2> QED
    BY <2>1, <2>3 DEF TaskCurrent
<1>2. Consistent /\ QueueCurrent /\ TaskCurrent /\ [Next]_vars => QueueCurrent' /\ TaskCurrent'
  BY TurnStep
<1>3. QueueCurrent /\ TaskCurrent <=> TurnCurrent
  BY DEF QueueCurrent, TaskCurrent, TurnCurrent
<1> QED
  BY <1>1, <1>2, <1>3, ConsistentAlways, PTL DEF Spec

-----------------------------------------------------------------------------
(* Awaited results.                                                        *)

Awaited  == Queued \cup (IF Idle THEN {} ELSE {task.request.id})
OnceEach == \A i, j \in 1 .. Len(queue) : queue[i].id = queue[j].id => i = j
Served   == task.phase \notin {"none", "crashed"} => task.request.id \in futures \ Queued
Pending  == \A id \in futures : status[id] \in {"queued", "running"}

Accounted ==
  Queued \subseteq futures /\ futures \subseteq Awaited /\ OnceEach /\ Served /\ Pending

\* The active task, if there is one, is still for the same request.
SameRun ==
  /\ Idle' <=> Idle
  /\ ~Idle => task'.request = task.request
  /\ task.phase = "crashed" => task'.phase = "crashed"

\* Taking the first request off the queue removes one id of it.
LEMMA TailIds ==
  ASSUME queue \in Seq(Requests), queue # <<>>, OnceEach, queue' = Tail(queue)
  PROVE  /\ Queued' = Queued \ {Head(queue).id} /\ Head(queue).id \in Queued
         /\ OnceEach' /\ Head(queue) \in Requests
<1> DEFINE n == Len(queue)
<1>1. /\ n \in Nat /\ n > 0 /\ Len(Tail(queue)) = n - 1 /\ Head(queue) = queue[1]
      /\ \A i \in 1 .. n - 1 : Tail(queue)[i] = queue[i + 1]
      /\ \A i \in 1 .. n : queue[i] \in Requests
  OBVIOUS
<1>2. Head(queue).id \in Queued
  BY <1>1 DEF Queued
<1>3. ASSUME NEW id \in Queued' PROVE id \in Queued /\ id # Head(queue).id
  <2>1. PICK i \in 1 .. n - 1 : id = queue[i + 1].id
    BY <1>1, <1>3 DEF Queued
  <2>2. i + 1 \in 1 .. n /\ 1 \in 1 .. n /\ i + 1 # 1
    BY <1>1
  <2> QED
    BY <1>1, <2>1, <2>2 DEF Queued, OnceEach
<1>4. ASSUME NEW id \in Queued, id # Head(queue).id PROVE id \in Queued'
  <2>1. PICK i \in 1 .. n : id = queue[i].id
    BY <1>4 DEF Queued
  <2>2. i # 1 /\ i - 1 \in 1 .. n - 1 /\ (i - 1) + 1 = i
    BY <1>1, <1>4, <2>1
  <2>3. Tail(queue)[i - 1] = queue[i]
    BY <1>1, <2>2
  <2> QED
    BY <1>1, <2>1, <2>2, <2>3 DEF Queued
<1>5. OnceEach'
  <2> SUFFICES ASSUME NEW i \in 1 .. n - 1, NEW j \in 1 .. n - 1,
                      queue[i + 1].id = queue[j + 1].id
               PROVE  i = j
    BY <1>1 DEF OnceEach
  <2>1. i + 1 \in 1 .. n /\ j + 1 \in 1 .. n
    BY <1>1
  <2> QED
    BY <2>1 DEF OnceEach
<1> QED
  BY <1>1, <1>2, <1>3, <1>4, <1>5

\* Putting a request with a new id at the end adds that id.
LEMMA AppendIds ==
  ASSUME queue \in Seq(Requests), OnceEach, NEW request \in Requests,
         request.id \notin Queued, queue' = Append(queue, request)
  PROVE  Queued' = Queued \cup {request.id} /\ OnceEach'
<1> DEFINE n == Len(queue)
<1>1. /\ n \in Nat /\ Len(queue') = n + 1 /\ queue'[n + 1] = request
      /\ \A i \in 1 .. n : queue'[i] = queue[i]
  OBVIOUS
<1>2. 1 .. n + 1 = (1 .. n) \cup {n + 1}
  BY <1>1
<1>3. ASSUME NEW i \in 1 .. n PROVE queue[i].id # request.id
  BY DEF Queued
<1>4. Queued' = Queued \cup {request.id}
  BY <1>1, <1>2 DEF Queued
<1>5. OnceEach'
  <2> SUFFICES ASSUME NEW i \in 1 .. n + 1, NEW j \in 1 .. n + 1,
                      queue'[i].id = queue'[j].id
               PROVE  i = j
    BY <1>1 DEF OnceEach
  <2> QED
    BY <1>1, <1>2, <1>3 DEF OnceEach
<1> QED
  BY <1>4, <1>5

\* What is saved anew never costs a result that is still awaited.
LEMMA SaveNewKeeps ==
  ASSUME NEW st \in [Ids -> Statuses], NEW pending, SaveNew(st, pending)
  PROVE  \A id \in Ids \cap pending : status'[id] = st[id]
BY DEF SaveNew

\* _drain tells whoever waits for a queued request, and nobody else.
LEMMA DrainAccounts ==
  ASSUME Accounted, Drain, SameRun, TypeOK
  PROVE  Accounted'
<1>1. Queued' = {} /\ Len(queue') = 0 /\ futures' = futures \ Queued
  BY DEF Drain, Queued
<1>2. Queued' \subseteq futures' /\ futures' \subseteq Awaited'
  BY <1>1 DEF Awaited, Accounted, SameRun
<1>3. OnceEach'
  BY <1>1 DEF OnceEach
<1>4. Served'
  BY <1>1 DEF Served, Accounted, SameRun, Idle
<1>5. Pending'
  <2>1. ASSUME NEW id \in futures' PROVE status'[id] \in {"queued", "running"}
    <3>1. id \in futures /\ id \notin Queued /\ id \in Ids
      BY <2>1 DEF Drain, TypeOK
    <3> QED
      BY <3>1 DEF Pending, Drain, Accounted
  <2> QED
    BY <2>1 DEF Pending
<1> QED
  BY <1>2, <1>3, <1>4, <1>5 DEF Accounted

\* Steps that leave the accounts and the active request alone.
LEMMA SameAccounts ==
  ASSUME Accounted, UNCHANGED <<queue, futures, status>>, SameRun
  PROVE  Accounted'
<1>1. Queued' = Queued /\ Awaited' = Awaited
  BY DEF Queued, Awaited, SameRun
<1>2. Served'
  BY <1>1 DEF Served, Accounted, SameRun, Idle
<1> QED
  BY <1>1, <1>2 DEF OnceEach, Pending, Accounted

LEMMA TripAccounts ==
  ASSUME Accounted, NEW found, TripIf(found), SameRun, TypeOK
  PROVE  Accounted'
<1>1. CASE found
  <2>1. Drain
    BY <1>1 DEF TripIf
  <2> QED
    BY <2>1, DrainAccounts
<1>2. CASE ~found
  <2>1. UNCHANGED <<queue, futures, status>>
    BY <1>2 DEF TripIf, queueVars
  <2> QED
    BY <2>1, SameAccounts
<1> QED
  BY <1>1, <1>2

LEMMA AccountedBegins == Init => Accounted
<1> SUFFICES ASSUME Init PROVE Accounted
  OBVIOUS
<1>1. Idle /\ futures = {} /\ queue = <<>>
  BY DEF Init, NoTask, Idle
<1>2. Len(queue) = 0
  BY <1>1
<1>3. Queued = {}
  BY <1>2 DEF Queued
<1> QED
  BY <1>1, <1>2, <1>3 DEF Awaited, OnceEach, Served, Pending, Accounted, Idle

LEMMA SubmissionAccounts ==
  ASSUME Consistent, Accounted,
         (\E id \in Ids : Refuse(id)) \/ (\E request \in Requests : Submit(request))
  PROVE  Accounted'
<1>1. /\ TypeOK /\ Queued \subseteq futures /\ futures \subseteq Awaited
      /\ OnceEach /\ Served /\ Pending
  BY DEF Consistent, Accounted
<1>2. ASSUME NEW id \in Ids, ~Duplicate(id) PROVE id \notin futures
  BY <1>1, <1>2 DEF Duplicate, Pending
<1>3. ASSUME NEW id \in Ids, Refuse(id) PROVE Accounted'
  <2> DEFINE st == [status EXCEPT ![id] = "rejected"]
  <2>1. st \in [Ids -> Statuses] /\ \A i \in Ids \ {id} : st[i] = status[i]
    BY <1>1 DEF TypeOK, Statuses, Terminal
  <2>2. SaveNew(st, futures) /\ id \notin futures
    BY <1>2, <1>3 DEF Refuse
  <2>3. UNCHANGED <<queue, futures, task>>
    BY <1>3 DEF Refuse
  <2> HIDE DEF st
  <2>4. \A i \in Ids \cap futures : status'[i] = status[i]
    BY <2>1, <2>2, SaveNewKeeps
  <2>5. Pending'
    BY <1>1, <2>3, <2>4 DEF Pending, TypeOK
  <2>6. Queued' = Queued /\ Awaited' = Awaited /\ OnceEach' /\ Served'
    BY <1>1, <2>3 DEF Queued, Idle, Awaited, OnceEach, Served
  <2> QED
    BY <1>1, <2>3, <2>5, <2>6 DEF Accounted
<1>4. ASSUME NEW request \in Requests, Submit(request) PROVE Accounted'
  <2> DEFINE st == [status EXCEPT ![request.id] = "queued"]
  <2>1. request.id \in Ids /\ request.id \notin futures
    BY <1>2, <1>4 DEF Requests, Submit
  <2>2. /\ st \in [Ids -> Statuses] /\ st[request.id] = "queued"
        /\ \A i \in Ids \ {request.id} : st[i] = status[i]
    BY <1>1, <2>1 DEF TypeOK, Statuses
  <2>3. /\ SaveNew(st, futures') /\ futures' = futures \cup {request.id}
        /\ queue' = Append(queue, request) /\ UNCHANGED task
    BY <1>4 DEF Submit
  <2> HIDE DEF st
  <2>4. Pending'
    <3>1. \A i \in Ids \cap futures' : status'[i] = st[i]
      BY <2>2, <2>3, SaveNewKeeps
    <3> QED
      BY <1>1, <2>1, <2>2, <2>3, <3>1 DEF Pending, TypeOK
  <2>5. request.id \notin Queued /\ queue \in Seq(Requests)
    BY <1>1, <2>1 DEF Awaited, TypeOK
  <2>6. Queued' = Queued \cup {request.id} /\ OnceEach'
    BY <1>1, <2>3, <2>5, AppendIds
  <2>7. Queued' \subseteq futures' /\ futures' \subseteq Awaited' /\ Served'
    BY <1>1, <2>1, <2>3, <2>6 DEF Awaited, Served, Idle
  <2> QED
    BY <2>4, <2>6, <2>7 DEF Accounted
<1> QED
  BY <1>3, <1>4

LEMMA ControlAccounts ==
  ASSUME Consistent, Accounted,
         \/ BeginCancel \/ BeginClose \/ BeginInvalidate \/ BeginReview
         \/ (\E id \in Ids : StopWaits(id) \/ BeginStop(id))
         \/ (\E new \in Turns : BeginSetTurn(new))
         \/ Controller
  PROVE  Accounted'
<1>1. /\ TypeOK /\ ControlShape /\ Queued \subseteq futures /\ futures \subseteq Awaited
      /\ OnceEach /\ Served /\ Pending
  BY DEF Consistent, Accounted
<1>2. ASSUME NEW reason, Cancel(reason) PROVE Accounted'
  <2>1. Drain /\ SameRun
    BY <1>2, CancelKept DEF Cancel, SameRun, Idle
  <2> QED
    BY <1>1, <2>1, DrainAccounts
<1>3. CASE \/ BeginCancel \/ BeginClose \/ BeginInvalidate
           \/ (\E id \in Ids : BeginStop(id)) \/ (\E new \in Turns : BeginSetTurn(new))
  BY <1>2, <1>3 DEF BeginCancel, BeginClose, BeginInvalidate, BeginStop, BeginSetTurn
<1>4. CASE BeginReview \/ EndReview \/ (\E id \in Ids : StopWaits(id))
  <2>1. UNCHANGED <<queue, futures, status, task>>
    BY <1>4 DEF BeginReview, EndReview, StopWaits, queueVars
  <2> QED
    BY <2>1, SameAccounts DEF SameRun, Idle
<1>5. ASSUME NEW ok \in BOOLEAN, PinEnds(ok) PROVE Accounted'
  <2>1. TripIf(~ok) /\ UNCHANGED task
    BY <1>5 DEF PinEnds
  <2> QED
    BY <1>1, <2>1, TripAccounts DEF SameRun, Idle
<1>6. ASSUME NEW interrupted \in BOOLEAN, EndControl(interrupted) PROVE Accounted'
  <2>1. UNCHANGED <<queue, task>> /\ futures' \subseteq futures
    BY <1>6 DEF EndControl
\* Nothing waits, and what was active has ended or has crashed.
  <2>2. Stopping /\ task.phase \in {"none", "crashed"}
    BY <1>1, <1>6 DEF EndControl, ControlShape, Stopping, TaskOver, Idle
  <2>3. queue = <<>> /\ Len(queue) = 0
    BY <1>1, <2>2 DEF ControlShape
  <2>4. Queued = {} /\ Queued' = {} /\ Awaited' = Awaited /\ OnceEach'
    BY <2>1, <2>3 DEF Queued, OnceEach, Awaited, Idle
  <2>5. \A i \in futures' : status'[i] = status[i]
    <3>1. CASE control \in Ids /\ ~interrupted
      <4> DEFINE st == [status EXCEPT ![control] = IF fault THEN "failed" ELSE "stopped"]
      <4>1. st \in [Ids -> Statuses] /\ \A i \in Ids \ {control} : st[i] = status[i]
        BY <1>1, <3>1 DEF TypeOK, Statuses, Terminal
      <4>2. SaveNew(st, futures') /\ control \notin futures'
        BY <1>6, <3>1 DEF EndControl
      <4> HIDE DEF st
      <4>3. \A i \in Ids \cap futures' : status'[i] = st[i]
        BY <4>1, <4>2, SaveNewKeeps
      <4> QED
        BY <1>1, <2>1, <4>1, <4>2, <4>3 DEF TypeOK
    <3>2. CASE ~(control \in Ids /\ ~interrupted)
      BY <1>6, <3>2 DEF EndControl
    <3> QED
      BY <3>1, <3>2
  <2>6. Pending'
    BY <1>1, <2>1, <2>5 DEF Pending
  <2>7. Served'
    BY <2>1, <2>2 DEF Served
  <2> QED
    BY <1>1, <2>1, <2>4, <2>6, <2>7 DEF Accounted
<1> QED
  BY <1>3, <1>4, <1>5, <1>6 DEF Controller

LEMMA WorkerAccounts ==
  ASSUME Consistent, Accounted, Worker
  PROVE  Accounted'
<1>1. /\ TypeOK /\ Queued \subseteq futures /\ futures \subseteq Awaited
      /\ OnceEach /\ Served /\ Pending /\ queue \in Seq(Requests)
  BY DEF Consistent, TypeOK, Accounted
<1>2. worker = "loop" => Idle
  BY DEF Consistent, ControlShape
<1>3. CASE WorkerWakes \/ WorkerPauses \/ WorkerDies
  <2>1. UNCHANGED <<queue, futures, status, task>>
    BY <1>3 DEF WorkerWakes, WorkerPauses, WorkerDies, queueVars
  <2> QED
    BY <2>1, SameAccounts DEF SameRun, Idle
<1>4. CASE WorkerExpires
  <2>1. /\ queue # <<>> /\ queue' = Tail(queue) /\ UNCHANGED task
        /\ futures' = futures \ {Head(queue).id} /\ Idle
        /\ status' = [status EXCEPT ![Head(queue).id] = "expired"]
    BY <1>2, <1>4 DEF WorkerExpires
  <2>2. Queued' = Queued \ {Head(queue).id} /\ OnceEach'
    BY <1>1, <2>1, TailIds
  <2>3. Queued' \subseteq futures' /\ futures' \subseteq Awaited' /\ Served'
    BY <1>1, <2>1, <2>2 DEF Awaited, Served, Idle
  <2>4. Pending'
    BY <1>1, <2>1 DEF Pending, TypeOK
  <2> QED
    BY <2>2, <2>3, <2>4 DEF Accounted
<1>5. CASE WorkerStarts
  <2>1. /\ queue # <<>> /\ queue' = Tail(queue) /\ UNCHANGED <<futures, status>>
        /\ task'.request = Head(queue) /\ task'.phase \in {"connect", "measure"} /\ Idle
    BY <1>2, <1>5 DEF WorkerStarts, NoTask
  <2>2. Queued' = Queued \ {Head(queue).id} /\ Head(queue).id \in Queued /\ OnceEach'
    BY <1>1, <2>1, TailIds
  <2>3. Queued' \subseteq futures' /\ futures' \subseteq Awaited' /\ Served'
    BY <1>1, <2>1, <2>2 DEF Awaited, Served, Idle
  <2>4. Pending'
    BY <1>1, <2>1 DEF Pending
  <2> QED
    BY <2>2, <2>3, <2>4 DEF Accounted
<1>6. CASE WorkerCollects
  <2>1. /\ ~Idle /\ task.phase = "done" /\ task'.phase = "none" /\ UNCHANGED queue
        /\ futures' = futures \ {task.request.id}
        /\ status' = [status EXCEPT ![task.request.id] = task.out]
    BY <1>6 DEF WorkerCollects, NoTask, Idle
  <2>2. Queued' = Queued /\ OnceEach' /\ Served'
    BY <1>1, <2>1 DEF Queued, OnceEach, Served
  <2>3. Queued' \subseteq futures' /\ futures' \subseteq Awaited'
    BY <1>1, <2>1, <2>2 DEF Awaited, Served, Idle
  <2>4. Pending'
    BY <1>1, <2>1 DEF Pending, TypeOK
  <2> QED
    BY <2>2, <2>3, <2>4 DEF Accounted
<1> QED
  BY <1>3, <1>4, <1>5, <1>6 DEF Worker

\* What a step of the run does to the accounts.
LEMMA RunAccounts ==
  ASSUME Consistent, Accounted, Run
  PROVE  Accounted'
<1>1. /\ TypeOK /\ Queued \subseteq futures /\ futures \subseteq Awaited
      /\ OnceEach /\ Served /\ Pending
  BY DEF Consistent, Accounted
<1>2. SameRun
  <2>1. ~Idle /\ task.phase # "crashed"
    BY DEF Run, MeasureOk, MeasureAlreadyUp, MeasureRejects, MeasureFails, ConnectOk,
           ConnectLate, ConnectFails, PostAccepted, PostRefused, PostUnknown, LatePostAccepted,
           LatePostFails, RunSeesEvent, RunTimesOut, RunLosesEvents, StopConfirmed, StopFails,
           SettleOk, SettleFails, RereadOk, RereadFails, HoldOk, HoldFails, TaskAt, Idle
  <2> QED
    BY <2>1, RunKept DEF Kept, Idle, SameRun
<1>3. CASE PostAccepted
  <2>1. UNCHANGED <<queue, futures>> /\ status' = [status EXCEPT ![task.request.id] = "running"]
    BY <1>3 DEF PostAccepted
  <2>2. Queued' = Queued /\ Awaited' = Awaited /\ OnceEach'
    BY <1>1, <1>2, <2>1 DEF Queued, Awaited, OnceEach, SameRun
  <2>3. Served'
    BY <1>1, <1>2, <2>1, <2>2 DEF Served, SameRun, Idle
  <2>4. Pending'
    BY <1>1, <2>1 DEF Pending, TypeOK
  <2> QED
    BY <1>1, <2>1, <2>2, <2>3, <2>4 DEF Accounted
<1>4. CASE UNCHANGED <<queue, futures, status>>
  BY <1>2, <1>4, SameAccounts
<1>5. CASE Drain
  BY <1>1, <1>2, <1>5, DrainAccounts
<1>6. CASE \E found : TripIf(found)
  BY <1>1, <1>2, <1>6, TripAccounts
<1> QED
  BY <1>3, <1>4, <1>5, <1>6 DEF Run, MeasureOk, MeasureAlreadyUp, MeasureRejects,
     MeasureFails, ConnectOk, ConnectLate, ConnectFails, PostRefused, PostUnknown,
     LatePostAccepted, LatePostFails, RunSeesEvent, RunTimesOut, RunLosesEvents,
     StopConfirmed, StopFails, SettleOk, SettleFails, RereadOk, RereadFails, HoldOk,
     HoldFails, LegEnds, VerificationFails, queueVars

LEMMA AccountedStep == Consistent /\ Accounted /\ [Next]_vars => Accounted'
<1> SUFFICES ASSUME Consistent, Accounted, [Next]_vars PROVE Accounted'
  OBVIOUS
<1>1. TypeOK /\ task \in Tasks
  BY ConsistentParts DEF Consistent
<1>2. CASE Caller
  BY <1>2, SubmissionAccounts, ControlAccounts DEF Caller
<1>3. CASE Controller
  BY <1>3, ControlAccounts
<1>4. CASE Worker
  BY <1>4, WorkerAccounts
<1>5. CASE Run
  BY <1>5, RunAccounts
<1>6. CASE DeadlinePasses
  <2>1. /\ Interrupt(FALSE) /\ task.phase \notin {"none", "done", "crashed"}
        /\ UNCHANGED <<queue, futures, status>>
    BY <1>6 DEF DeadlinePasses, queueVars
  <2>2. SameRun
    BY <2>1, InterruptKept DEF Idle, SameRun
  <2> QED
    BY <2>1, <2>2, SameAccounts
<1>7. CASE Daemon
  <2>1. UNCHANGED <<queue, futures, status>>
    BY <1>7 DEF Daemon, DaemonStarts, DaemonEnds, StrayStarts, StrayEnds, queueVars
  <2>2. SameRun
    BY <1>1, <1>7 DEF Daemon, DaemonStarts, DaemonEnds, StrayStarts, StrayEnds, Tasks, Idle, SameRun
  <2> QED
    BY <2>1, <2>2, SameAccounts
<1>8. CASE UNCHANGED vars
  BY <1>8, SameAccounts DEF vars, queueVars, Idle, SameRun
<1> QED
  BY <1>2, <1>3, <1>4, <1>5, <1>6, <1>7, <1>8 DEF Next

\* Every awaited result belongs to exactly one request that is queued or
\* active, and the history gives up none that is awaited (executor.py submit,
\* _save, _drain, _run).
THEOREM ResultsAccounted == Spec => []PendingAccounted
<1>1. Consistent /\ [Next]_vars => Consistent'
  BY ConsistentStep
<1>2. Accounted => PendingAccounted
  BY DEF Accounted, Awaited, OnceEach, Served, Pending, PendingAccounted
<1> QED
  BY <1>2, AccountedBegins, AccountedStep, ConsistentAlways, PTL DEF Spec

-----------------------------------------------------------------------------
(* The promise: the executor implements its contract.                      *)

\* A task that still relies on the posture it found has that posture or none
\* on offer; only a confirmed, unbroken executor holds still after an interrupt.
Relies(t, b, f) ==
  /\ t.phase # "crashed"
  /\ t.phase = "hold" /\ t.why = "cancel" => ~f
  /\ t.phase \notin {"none", "done"} /\ ~f /\ (t.phase = "hold" => t.why = "cancel")
       => t.previous \in {None, b}

\* No interrupt has cut a hold of the robot short.
HeldOn == "hold" \notin cut

Faithful(t, b, f) == Relies(t, b, f) /\ (f => b = None)

\* With Consistent and Accounted, inductive.
Reliable == HeldOn => Faithful(task, baseline, fault)

LEMMA CutGrows ==
  ASSUME cut \subseteq cut'
  PROVE  ("hold" \in cut') \in {("hold" \in cut), TRUE}
<1>1. CASE "hold" \in cut'
  BY <1>1
<1>2. CASE "hold" \notin cut'
  <2>1. "hold" \notin cut
    BY <1>2
  <2>2. ("hold" \in cut') = FALSE /\ ("hold" \in cut) = FALSE
    BY <1>2, <2>1
  <2> QED
    BY <2>2
<1> QED
  BY <1>1, <1>2

\* The executor works, as the contract has it.
LEMMA WorkStep ==
  ASSUME futures' \subseteq futures, fault' \in {fault, TRUE}, fault \in BOOLEAN,
         cut \subseteq cut',
         HeldOn' => baseline' \in {baseline, None} \cup futures /\ (fault' => baseline' = None),
         UNCHANGED <<control, turn, closed>>
  PROVE  Contract!Proceeds
<1>1. ("hold" \in cut') \in {("hold" \in cut), TRUE}
  BY CutGrows
<1>2. ("hold" \in cut') \/ (baseline' \in {baseline, None} \cup futures /\ (fault' => baseline' = None))
  BY DEF HeldOn
<1>3. Contract!Work
  BY <1>1, <1>2 DEF Contract!Work
<1> QED
  BY <1>3 DEF Contract!Proceeds

LEMMA DoneRelies ==
  ASSUME NEW t, NEW out, NEW b, NEW f
  PROVE  Relies(Returned(t, out), b, f)
BY DEF Relies, Returned, Ended

LEMMA HoldRelies ==
  ASSUME NEW t \in Tasks, NEW why \in {"leg", "exception"}, NEW b, NEW f
  PROVE  Relies(Holding(t, why), b, f)
<1>1. Holding(t, why).phase = "hold" /\ Holding(t, why).why = why
  BY DEF Holding, Tasks
<1> QED
  BY <1>1 DEF Relies

\* The task in another phase that is not one of the last.
LEMMA PhaseRelies ==
  ASSUME NEW t, NEW n, NEW b, NEW f, n.previous = t.previous, Relies(t, b, f),
         t.phase \notin {"none", "done", "hold"}, n.phase \notin {"none", "done", "crashed"},
         n.phase = "hold" => n.why = "cancel" /\ ~f
  PROVE  Relies(n, b, f)
BY DEF Relies

\* After a leg the posture is still there, or the task no longer relies on it.
LEMMA AfterLegRelies ==
  ASSUME NEW t \in Tasks, NEW out \in Terminal, NEW faulted \in BOOLEAN,
         t.previous \in {None, baseline} \/ faulted
  PROVE  Relies(AfterLeg(t, out, faulted), BaselineAfterLeg(t, out, faulted), faulted)
<1> DEFINE n == AfterLeg(t, out, faulted)
           b == BaselineAfterLeg(t, out, faulted)
<1> SUFFICES Relies(n, b, faulted)
  OBVIOUS
<1>1. CASE n = Returned(t, out)
  BY <1>1, DoneRelies
<1>2. CASE n = Holding(t, "leg")
  BY <1>2, HoldRelies
<1>3. CASE n = [t EXCEPT !.phase = "settle"] /\ out = "completed"
  <2>1. n.phase = "settle" /\ n.previous = t.previous
    BY <1>3 DEF Tasks
  <2>2. b = baseline
    BY <1>3 DEF BaselineAfterLeg
  <2> HIDE DEF n, b
  <2> QED
    BY <2>1, <2>2 DEF Relies
<1>4. CASE n = [t EXCEPT !.phase = "reread"] /\ KeepsHold(t, out, faulted)
  <2>1. n.phase = "reread" /\ n.previous = t.previous
    BY <1>4 DEF Tasks
  <2>2. b = baseline
    BY <1>4 DEF BaselineAfterLeg
  <2> HIDE DEF n, b
  <2> QED
    BY <2>1, <2>2 DEF Relies
<1> QED
  BY <1>1, <1>2, <1>3, <1>4 DEF AfterLeg

\* A fault drops the posture on offer, and no step of a leg puts another there.
LEMMA LegKeepsFaith ==
  ASSUME Consistent, Faithful(task, baseline, fault),
         task.phase \notin {"none", "done", "hold"}, NEW out \in Terminal, NEW found \in BOOLEAN,
         NEW uuid \in BOOLEAN, LegEnds(out, found, uuid)
  PROVE  /\ Faithful(task', baseline', fault')
         /\ baseline' \in {baseline, None} /\ fault' = (fault \/ found)
<1> DEFINE t == [task EXCEPT !.uuid = uuid]
           faulted == fault \/ found
<1>1. /\ task \in Tasks /\ fault \in BOOLEAN /\ faulted \in BOOLEAN
      /\ (fault => baseline = None) /\ Relies(task, baseline, fault)
  BY ConsistentParts DEF BookOK, Faithful
<1>2. t \in Tasks /\ t.previous = task.previous
  BY <1>1 DEF Tasks
<1>3. /\ task' = AfterLeg(t, out, faulted) /\ TripIf(found)
      /\ baseline' = IF found THEN None ELSE BaselineAfterLeg(t, out, faulted)
  BY DEF LegEnds
<1>4. fault' = faulted
  BY <1>1, <1>3, TripType DEF Consistent
<1>5. t.previous \in {None, baseline} \/ faulted
  BY <1>1, <1>2 DEF Relies
<1> HIDE DEF t
<1>6. Relies(task', BaselineAfterLeg(t, out, faulted), faulted)
  BY <1>1, <1>2, <1>3, <1>5, AfterLegRelies
<1>7. faulted => baseline' = None
  BY <1>1, <1>3 DEF BaselineAfterLeg
<1>8. Relies(task', baseline', faulted)
  <2>1. CASE found
    BY <1>1, <1>6, <2>1 DEF Relies
  <2>2. CASE ~found
    BY <1>3, <1>6, <2>2
  <2> QED
    BY <2>1, <2>2
<1> QED
  BY <1>3, <1>4, <1>7, <1>8 DEF BaselineAfterLeg, Faithful

LEMMA FailureKeepsFaith ==
  ASSUME Consistent, NEW moved, VerificationFails(moved)
  PROVE  Faithful(task', baseline', fault') /\ baseline' = None /\ fault' = TRUE
<1>1. task \in Tasks
  BY ConsistentParts
<1>2. Relies(task', baseline', fault')
  BY <1>1, DoneRelies, HoldRelies DEF VerificationFails
<1> QED
  BY <1>2 DEF VerificationFails, TripIf, Faithful

LEMMA InterruptOffers ==
  ASSUME NEW byControl \in BOOLEAN, Interrupt(byControl)
  PROVE  baseline' \in {baseline, None} /\ cut \subseteq cut'
BY DEF Interrupt, BaselineAfterLeg

\* An interrupt that spares a hold finds a task that still has its posture, or
\* one that stops a move after a fault.
LEMMA InterruptKeepsFaith ==
  ASSUME Consistent, Faithful(task, baseline, fault), NEW byControl \in BOOLEAN,
         Interrupt(byControl), task.phase \notin {"none", "done", "crashed"}, HeldOn'
  PROVE  Faithful(task', baseline', fault)
<1> DEFINE t == IF byControl THEN [task EXCEPT !.byControl = TRUE]
                            ELSE [task EXCEPT !.byDeadline = TRUE]
<1>1. /\ task \in Tasks /\ fault \in BOOLEAN /\ Relies(task, baseline, fault)
      /\ (fault => task.phase \in Quiet) /\ (fault => baseline = None)
  BY ConsistentParts DEF BookOK, Faithful, Consistent, Faulted
<1>2. t \in Tasks /\ t.phase = task.phase /\ t.previous = task.previous
      /\ t.request = task.request
  BY <1>1 DEF Tasks
<1>3. task' = Interrupted(t) /\ task.phase # "hold"
  BY DEF Interrupt, HeldOn, Cuts
<1>4. /\ task.phase \in {"measure", "connect", "post", "post_cancelled", "run", "settle",
                         "reread", "stop"}
      /\ task.phase = "stop" \/ ~fault
  BY <1>1, <1>3 DEF Quiet, Tasks, Phases
<1>5. t.previous \in {None, baseline} \/ fault
  BY <1>1, <1>2, <1>4 DEF Relies
<1>6. /\ fault => baseline' = None
      /\ task.phase \in {"connect", "post_cancelled", "stop"} =>
           baseline' = BaselineAfterLeg(task, "cancelled", fault)
      /\ task.phase \notin {"connect", "post_cancelled", "stop"} => baseline' = baseline
  BY <1>1 DEF Interrupt, BaselineAfterLeg
<1>7. "cancelled" \in Terminal
  BY DEF Terminal
<1> HIDE DEF t
\* The wait for the socket, for a shielded POST or for a stop is given up.
<1>8. ASSUME NEW uuid \in BOOLEAN, task' = AfterLeg([t EXCEPT !.uuid = uuid], "cancelled", fault),
             task.phase \in {"connect", "post_cancelled", "stop"}
      PROVE  Relies(task', baseline', fault)
  <2> DEFINE u == [t EXCEPT !.uuid = uuid]
  <2>1. u \in Tasks /\ u.previous = task.previous
    BY <1>2 DEF Tasks
  <2>2. task' = AfterLeg(u, "cancelled", fault)
    BY <1>8
  <2>3. BaselineAfterLeg(u, "cancelled", fault) = BaselineAfterLeg(task, "cancelled", fault)
    BY <2>1 DEF BaselineAfterLeg, KeepsHold
  <2> HIDE DEF u
  <2>4. Relies(AfterLeg(u, "cancelled", fault), BaselineAfterLeg(u, "cancelled", fault), fault)
    BY <1>1, <1>2, <1>5, <1>7, <2>1, AfterLegRelies
  <2> QED
    BY <1>6, <1>8, <2>2, <2>3, <2>4
<1>9. CASE task.phase \in {"connect", "post_cancelled", "stop"}
  <2>1. \E uuid \in BOOLEAN : task' = AfterLeg([t EXCEPT !.uuid = uuid], "cancelled", fault)
    BY <1>2, <1>3, <1>9 DEF Interrupted
  <2> QED
    BY <1>6, <1>8, <1>9, <2>1 DEF Faithful
<1>10. CASE task.phase = "post"
  <2>1. task' = [t EXCEPT !.phase = "post_cancelled"]
    BY <1>2, <1>3, <1>10 DEF Interrupted
  <2>2. task'.phase = "post_cancelled" /\ task'.previous = t.previous
    BY <1>2, <2>1 DEF Tasks
  <2> QED
    BY <1>4, <1>5, <1>6, <1>10, <2>2 DEF Relies, Faithful
<1>11. CASE task.phase = "run"
  <2>1. task' = StoppingMove(t, "cancelled")
    BY <1>2, <1>3, <1>11 DEF Interrupted
  <2>2. task'.phase = "stop" /\ task'.previous = t.previous
    BY <1>2, <2>1 DEF Tasks, StoppingMove
  <2> QED
    BY <1>4, <1>5, <1>6, <1>11, <2>2 DEF Relies, Faithful
<1>12. CASE task' = Holding(t, "cancel") /\ task.phase \in {"measure", "settle", "reread"}
  <2>1. task'.phase = "hold" /\ task'.why = "cancel" /\ task'.previous = t.previous
    BY <1>2, <1>12 DEF Tasks, Holding
  <2> QED
    BY <1>4, <1>5, <1>6, <1>12, <2>1 DEF Relies, Faithful
<1>13. ASSUME NEW out, task' = Returned(t, out)
       PROVE  Relies(task', baseline', fault)
  BY <1>13, DoneRelies
<1>14. task.phase \in {"measure", "settle", "reread"} =>
         task' = Holding(t, "cancel") \/ \E out : task' = Returned(t, out)
  BY <1>2, <1>3 DEF Interrupted
<1> QED
  BY <1>4, <1>6, <1>9, <1>10, <1>11, <1>12, <1>13, <1>14 DEF Faithful

-----------------------------------------------------------------------------
(* One lemma for the actions of each actor: the step keeps Reliable, and   *)
(* is one the contract allows.                                             *)

Steady == UNCHANGED <<futures, control, turn, fault, closed, baseline, cut>>
Allowed == Contract!Proceeds \/ Steady

LEMMA ReliableBegins == Init => Reliable /\ Contract!Begins
<1> SUFFICES ASSUME Init PROVE Reliable /\ Contract!Begins
  OBVIOUS
<1>1. /\ task.phase = "none" /\ control = "free" /\ fault = FALSE /\ turn = None
      /\ futures = {} /\ closed = FALSE /\ baseline = None /\ cut = {}
  BY DEF Init, NoTask
<1> QED
  BY <1>1 DEF Reliable, Faithful, Relies, Contract!Begins

\* A task that is not touched stays reliable while what is on offer stays.
LEMMA SameReliable ==
  ASSUME Reliable, UNCHANGED <<task, baseline, fault>>, cut \subseteq cut'
  PROVE  Reliable'
BY DEF Reliable, HeldOn

LEMMA SubmissionAllowed ==
  ASSUME Consistent, Accounted, Reliable,
         (\E id \in Ids : Refuse(id)) \/ (\E request \in Requests : Submit(request))
  PROVE  Reliable' /\ Allowed
<1>1. CASE \E id \in Ids : Refuse(id)
  <2>1. UNCHANGED <<futures, control, turn, fault, closed, baseline, task, cut>>
    BY <1>1 DEF Refuse, controlVars, postureVars
  <2> QED
    BY <2>1, SameReliable DEF Allowed, Steady
<1>2. ASSUME NEW request \in Requests, Submit(request) PROVE Reliable' /\ Allowed
  <2>1. /\ UNCHANGED <<control, turn, fault, closed, baseline, task, cut>>
        /\ control = "free" /\ ~fault /\ ~closed /\ request.turn = turn
        /\ futures' = futures \cup {request.id}
    BY <1>2 DEF Submit, controlVars, postureVars, Admissible, Available, Stopping, RightTurn
  <2>2. request.id \in Ids /\ request.turn \in Turns
    BY DEF Requests
  <2>3. request.id \notin futures
    BY <1>2 DEF Submit, Duplicate, Accounted, Pending
  <2>4. Contract!Accept(request.id, request.turn)
    BY <2>1, <2>3 DEF Contract!Accept
  <2>5. Reliable'
    BY <2>1, SameReliable
  <2> QED
    BY <2>2, <2>4, <2>5 DEF Allowed, Contract!Proceeds
<1> QED
  BY <1>1, <1>2

LEMMA ControlBeginsAllowed ==
  ASSUME Consistent, Accounted, Reliable,
         \/ BeginCancel \/ BeginClose \/ BeginInvalidate \/ BeginReview
         \/ (\E id \in Ids : StopWaits(id) \/ BeginStop(id))
         \/ (\E new \in Turns : BeginSetTurn(new))
  PROVE  Reliable' /\ Allowed
<1>1. /\ task \in Tasks /\ fault \in BOOLEAN /\ closed \in BOOLEAN
      /\ turn \in Turns \cup {None}
      /\ {"cancel", "set_turn", "close", "invalidate", "review"} = Operations
  BY DEF Consistent, TypeOK, Operations
\* _cancel, by whoever holds the lock now.
<1>2. ASSUME NEW reason, Cancel(reason), fault' = fault
      PROVE  /\ Reliable' /\ futures' \subseteq futures /\ baseline' \in {baseline, None}
             /\ cut \subseteq cut'
  <2>1. futures' \subseteq futures
    BY <1>2 DEF Cancel, Drain
  <2>2. CASE UNCHANGED <<task, cut, baseline>>
    BY <1>2, <2>1, <2>2, SameReliable
  <2>3. CASE Interrupt(TRUE) /\ task.phase \notin {"none", "done", "crashed"}
    <3>1. baseline' \in {baseline, None} /\ cut \subseteq cut'
      BY <2>3, InterruptOffers
    <3>2. Reliable'
      BY <1>2, <2>3, <3>1, InterruptKeepsFaith DEF Reliable, HeldOn
    <3> QED
      BY <2>1, <3>1, <3>2
  <2> QED
    BY <1>2, <2>2, <2>3 DEF Cancel, Idle
<1>3. ASSUME NEW who \in Operations \cup Ids, Acquire(who), UNCHANGED fault,
             futures' \subseteq futures, baseline' \in {baseline, None}, cut \subseteq cut',
             turn' \in Turns \cup {None}, NEW last \in BOOLEAN, closed' = (closed \/ last)
      PROVE  Allowed
  <2>1. Contract!Hold(who, turn', last)
    BY <1>3, CutGrows DEF Contract!Hold, Acquire
  <2> QED
    BY <1>3, <2>1 DEF Allowed, Contract!Proceeds
<1>4. closed = (closed \/ FALSE) /\ (closed \/ TRUE) = TRUE
  BY <1>1
<1>5. CASE BeginCancel
  BY <1>1, <1>2, <1>3, <1>4, <1>5 DEF BeginCancel
<1>6. CASE BeginInvalidate
  BY <1>1, <1>2, <1>3, <1>4, <1>6 DEF BeginInvalidate
<1>7. CASE BeginClose
  BY <1>1, <1>2, <1>3, <1>4, <1>7 DEF BeginClose
<1>8. ASSUME NEW id \in Ids, BeginStop(id) PROVE Reliable' /\ Allowed
  <2>1. /\ Acquire(id) /\ Cancel("cancelled") /\ UNCHANGED <<closed, fault, turn>>
    BY <1>8 DEF BeginStop
  <2> QED
    BY <1>1, <1>2, <1>3, <1>4, <2>1
<1>9. ASSUME NEW new \in Turns, BeginSetTurn(new) PROVE Reliable' /\ Allowed
  BY <1>1, <1>2, <1>3, <1>4, <1>9 DEF BeginSetTurn
<1>10. CASE BeginReview
  <2>1. /\ Acquire("review")
        /\ UNCHANGED <<closed, fault, turn, futures, task, baseline, cut>>
    BY <1>10 DEF BeginReview, queueVars, postureVars
  <2>2. Reliable'
    BY <2>1, SameReliable
  <2> QED
    BY <1>1, <1>3, <1>4, <2>1, <2>2
<1>11. CASE \E id \in Ids : StopWaits(id)
  <2>1. UNCHANGED <<futures, control, turn, fault, closed, baseline, task, cut>>
    BY <1>11 DEF StopWaits, queueVars, postureVars
  <2> QED
    BY <2>1, SameReliable DEF Allowed, Steady
<1> QED
  BY <1>5, <1>6, <1>7, <1>8, <1>9, <1>10, <1>11

\* When the holder of the lock is done nothing is awaited any more.
LEMMA NothingAwaited ==
  ASSUME Consistent, Accounted, Stopping, Idle
  PROVE  futures = {}
<1>1. Len(queue) = 0
  BY DEF Consistent, ControlShape
<1>2. Queued = {}
  BY <1>1 DEF Queued
<1> QED
  BY <1>2 DEF Accounted, Awaited

LEMMA ControlEndsAllowed ==
  ASSUME Consistent, Accounted, Reliable, Controller
  PROVE  Reliable' /\ Allowed
<1>1. /\ TypeOK /\ ControlShape /\ fault \in BOOLEAN
      /\ (HeldOn => (fault => baseline = None) /\ Relies(task, baseline, fault))
  BY DEF Consistent, TypeOK, Reliable, Faithful
<1>2. control \in {"free"} \cup Operations \cup Ids
  BY <1>1 DEF TypeOK
\* The lock is given back by an executor that is idle, or holds a crashed task.
<1>3. ASSUME Stopping, HeldOn => Idle, control' = "free", futures' \subseteq futures,
             UNCHANGED <<turn, fault, closed, task, cut>>, baseline' \in {baseline, None}
      PROVE  Reliable' /\ Allowed
  <2>1. HeldOn \/ "hold" \in cut
    BY DEF HeldOn
  <2>2. Contract!Release(control)
    BY <1>3, <2>1, NothingAwaited DEF Contract!Release, Stopping
  <2>3. Reliable'
    BY <1>1, <1>3 DEF Reliable, Faithful, Relies, HeldOn, Idle
  <2> QED
    BY <1>2, <1>3, <2>2, <2>3 DEF Allowed, Contract!Proceeds, Stopping
<1>4. CASE EndReview
  <2>1. Stopping /\ Idle
    BY <1>1, <1>4 DEF EndReview, ControlShape
  <2>2. /\ control' = "free" /\ UNCHANGED <<futures, turn, fault, closed, task, cut>>
        /\ baseline' \in {baseline, None}
    BY <1>4 DEF EndReview, queueVars, postureVars
  <2> QED
    BY <1>3, <2>1, <2>2
<1>5. ASSUME NEW interrupted \in BOOLEAN, EndControl(interrupted) PROVE Reliable' /\ Allowed
  <2>1. Stopping
    BY <1>5 DEF EndControl, Stopping
  <2>2. HeldOn => Idle
    BY <1>1, <1>5, <2>1 DEF EndControl, ControlShape, Relies, TaskOver, Idle
  <2>3. /\ control' = "free" /\ UNCHANGED <<turn, fault, closed, task, cut>>
        /\ futures' \subseteq futures /\ baseline' \in {baseline, None}
    BY <1>5 DEF EndControl
  <2> QED
    BY <1>3, <2>1, <2>2, <2>3
<1>6. ASSUME NEW ok \in BOOLEAN, PinEnds(ok) PROVE Reliable' /\ Allowed
  <2>1. /\ UNCHANGED <<control, turn, closed, task, cut>> /\ TripIf(~ok)
        /\ baseline' = IF ok THEN baseline ELSE None
    BY <1>6 DEF PinEnds
  <2>2. Idle
    BY <1>1, <1>6 DEF PinEnds, ControlShape
  <2>3. futures' \subseteq futures /\ fault' \in {fault, TRUE}
        /\ (HeldOn => (fault' => baseline' = None))
    <3>1. CASE ok
      BY <1>1, <2>1, <3>1 DEF TripIf, queueVars
    <3>2. CASE ~ok
      BY <2>1, <3>2 DEF TripIf, Drain
    <3> QED
      BY <3>1, <3>2
  <2>4. Reliable'
    BY <2>1, <2>2, <2>3 DEF Reliable, Faithful, Relies, HeldOn, Idle
  <2>5. HeldOn' => baseline' \in {baseline, None} \cup futures /\ (fault' => baseline' = None)
    BY <2>1, <2>3 DEF HeldOn
  <2>6. Contract!Proceeds
    BY <1>1, <2>1, <2>3, <2>5, WorkStep
  <2> QED
    BY <2>4, <2>6 DEF Allowed
<1> QED
  BY <1>4, <1>5, <1>6 DEF Controller

LEMMA WorkerAllowed ==
  ASSUME Consistent, Accounted, Reliable, Worker
  PROVE  Reliable' /\ Allowed
<1>1. /\ ControlShape /\ fault \in BOOLEAN
      /\ (HeldOn => (fault => baseline = None) /\ Relies(task, baseline, fault))
  BY DEF Consistent, TypeOK, Reliable, Faithful
<1>2. UNCHANGED <<control, turn, fault, closed, baseline, cut>> /\ futures' \subseteq futures
  BY DEF Worker, WorkerWakes, WorkerPauses, WorkerExpires, WorkerStarts, WorkerCollects,
         WorkerDies, controlVars, queueVars, postureVars
<1>3. Allowed
  <2>1. HeldOn' => baseline' \in {baseline, None} \cup futures /\ (fault' => baseline' = None)
    BY <1>1, <1>2 DEF HeldOn
  <2> QED
    BY <1>1, <1>2, <2>1, WorkStep DEF Allowed
<1>4. CASE UNCHANGED task
  BY <1>2, <1>3, <1>4, SameReliable
<1>5. CASE WorkerStarts
  <2>1. task'.phase \in {"connect", "measure"} /\ task'.previous \in {None, baseline}
    BY <1>5 DEF WorkerStarts, NoTask
  <2> QED
    BY <1>1, <1>2, <1>3, <2>1 DEF Reliable, Faithful, Relies, HeldOn
<1>6. CASE WorkerCollects
  <2>1. task'.phase = "none"
    BY <1>6 DEF WorkerCollects, NoTask
  <2> QED
    BY <1>1, <1>2, <1>3, <2>1 DEF Reliable, Faithful, Relies, HeldOn
<1> QED
  BY <1>4, <1>5, <1>6 DEF Worker, WorkerWakes, WorkerPauses, WorkerExpires, WorkerDies

\* A step of the run is work, if it lets go of the posture with a fault.
LEMMA RunWorks ==
  ASSUME Consistent, UNCHANGED <<turn, closed, control, cut>>,
         futures' \subseteq futures, fault' \in {fault, TRUE},
         HeldOn => /\ baseline' \in {baseline, None} \cup futures
                   /\ Faithful(task', baseline', fault')
  PROVE  Reliable' /\ Allowed
<1>1. fault \in BOOLEAN
  BY DEF Consistent, TypeOK
<1>2. HeldOn' => HeldOn
  BY DEF HeldOn
<1>3. HeldOn' => baseline' \in {baseline, None} \cup futures /\ (fault' => baseline' = None)
  BY <1>2 DEF Faithful
<1>4. Allowed
  BY <1>1, <1>3, WorkStep DEF Allowed
<1> QED
  BY <1>2, <1>4 DEF Reliable

\* A step of the run answers only who is awaited and leaves the rest alone.
LEMMA RunAnswers ==
  ASSUME Consistent, Run
  PROVE  /\ UNCHANGED <<turn, closed, control, cut>>
         /\ task.phase \notin {"none", "done", "crashed"}
         /\ futures' \subseteq futures /\ fault' \in {fault, TRUE}
<1>1. /\ UNCHANGED <<turn, closed, control, cut>>
      /\ task.phase \notin {"none", "done", "crashed"}
  BY DEF Run, MeasureOk, MeasureAlreadyUp, MeasureRejects, MeasureFails, ConnectOk,
         ConnectLate, ConnectFails, PostAccepted, PostRefused, PostUnknown, LatePostAccepted,
         LatePostFails, RunSeesEvent, RunTimesOut, RunLosesEvents, StopConfirmed, StopFails,
         SettleOk, SettleFails, RereadOk, RereadFails, HoldOk, HoldFails, TaskAt, controlVars
<1>2. ASSUME NEW found, TripIf(found)
      PROVE  futures' \subseteq futures /\ fault' \in {fault, TRUE}
  BY <1>2 DEF TripIf, Drain, queueVars
<1>3. futures' \subseteq futures /\ fault' \in {fault, TRUE}
  <2>1. CASE UNCHANGED <<futures, fault>>
    BY <2>1
  <2>2. CASE Drain /\ UNCHANGED fault
    BY <2>2 DEF Drain
  <2>3. CASE \E found : TripIf(found)
    BY <1>2, <2>3
  <2> QED
    BY <2>1, <2>2, <2>3 DEF Run, MeasureOk, MeasureAlreadyUp, MeasureRejects,
       MeasureFails, ConnectOk, ConnectLate, ConnectFails, PostAccepted, PostRefused, PostUnknown,
       LatePostAccepted, LatePostFails, RunSeesEvent, RunTimesOut, RunLosesEvents,
       StopConfirmed, StopFails, SettleOk, SettleFails, RereadOk, RereadFails, HoldOk,
       HoldFails, LegEnds, VerificationFails, queueVars
<1> QED
  BY <1>1, <1>3

\* What a run believes of its posture, no step of it gives up.
LEMMA RunKeepsFaith ==
  ASSUME Consistent, Accounted, Faithful(task, baseline, fault), Run
  PROVE  Faithful(task', baseline', fault') /\ baseline' \in {baseline, None} \cup futures
<1>1. /\ task \in Tasks /\ fault \in BOOLEAN /\ (fault => baseline = None)
      /\ Relies(task, baseline, fault) /\ (fault => task.phase \in Quiet)
  BY ConsistentParts DEF BookOK, Faithful, Consistent, Faulted
<1>2. task.phase \notin {"none", "done", "crashed"}
  BY RunAnswers
\* Steps that find no fault.
<1>5. ASSUME fault' = fault, NEW out, task' = Returned(task, out),
             baseline' \in {baseline, None} \cup futures, fault => baseline' = None
      PROVE  Faithful(task', baseline', fault') /\ baseline' \in {baseline, None} \cup futures
  BY <1>5, DoneRelies DEF Faithful
<1>6. ASSUME UNCHANGED <<fault, baseline>>, task'.previous = task.previous,
             task.phase # "hold",
             task'.phase \in {"measure", "connect", "post", "run", "stop"}
      PROVE  Faithful(task', baseline', fault') /\ baseline' \in {baseline, None} \cup futures
  BY <1>1, <1>2, <1>6 DEF Relies, Faithful
<1>7. ASSUME NEW out \in Terminal, NEW found \in BOOLEAN, NEW uuid \in BOOLEAN,
             LegEnds(out, found, uuid), task.phase # "hold"
      PROVE  Faithful(task', baseline', fault') /\ baseline' \in {baseline, None} \cup futures
  BY <1>2, <1>7, LegKeepsFaith
<1>8. ASSUME NEW moved, VerificationFails(moved) PROVE Faithful(task', baseline', fault') /\ baseline' \in {baseline, None} \cup futures
  BY <1>8, FailureKeepsFaith
<1>9. {"completed", "rejected", "cancelled", "failed", "expired"} \subseteq Terminal
  BY DEF Terminal
<1>10. CASE MeasureFails \/ SettleFails \/ RereadFails
  BY <1>8, <1>10 DEF MeasureFails, SettleFails, RereadFails
<1>11. CASE ConnectLate \/ ConnectFails \/ PostUnknown \/ LatePostFails \/ StopFails
  <2>1. task.phase # "hold"
    BY <1>11 DEF ConnectLate, ConnectFails, PostUnknown, LatePostFails, StopFails, TaskAt
  <2> QED
    BY <1>7, <1>9, <1>11, <2>1 DEF ConnectLate, ConnectFails, PostUnknown, LatePostFails,
       StopFails
<1>12. CASE StopConfirmed
  <2>1. PICK out \in {"failed", "cancelled", "expired"} : LegEnds(out, FALSE, TRUE)
    BY <1>12, ConsistentParts DEF StopConfirmed, TaskAt, TaskShape
  <2> QED
    BY <1>7, <1>9, <1>12, <2>1 DEF StopConfirmed, TaskAt
<1>13. CASE RunSeesEvent
  <2>1. move \in Terminal /\ (move = "failed") \in BOOLEAN /\ task.phase # "hold"
    BY <1>9, <1>13, ConsistentParts DEF RunSeesEvent, TaskAt, TaskShape, WorldOK
  <2> QED
    BY <1>7, <1>13, <2>1 DEF RunSeesEvent
<1>14. CASE PostRefused
  <2> DEFINE t == [task EXCEPT !.uuid = FALSE]
  <2>1. t \in Tasks /\ t.previous = task.previous
    BY <1>1 DEF Tasks
  <2>2. /\ task' = AfterLeg(t, "rejected", fault) /\ fault' = fault /\ task.phase = "post"
        /\ baseline' = BaselineAfterLeg(t, "rejected", fault)
    BY <1>14 DEF PostRefused, TaskAt
  <2>3. t.previous \in {None, baseline}
    BY <1>1, <2>1, <2>2 DEF Relies, Quiet
  <2> HIDE DEF t
  <2>4. Relies(task', baseline', fault')
    BY <1>1, <1>9, <2>1, <2>2, <2>3, AfterLegRelies
  <2>5. baseline' \in {baseline, None}
    BY <2>2 DEF BaselineAfterLeg
  <2> QED
    BY <1>1, <2>2, <2>4, <2>5 DEF Faithful, BaselineAfterLeg
<1>15. CASE MeasureOk \/ ConnectOk \/ PostAccepted \/ LatePostAccepted \/ RunTimesOut
  <2>1. UNCHANGED <<fault, baseline>> /\ task.phase # "hold"
    BY <1>15 DEF MeasureOk, ConnectOk, PostAccepted, LatePostAccepted, RunTimesOut, TaskAt
  <2>2. task'.previous = task.previous
    BY <1>1, <1>15 DEF MeasureOk, ConnectOk, PostAccepted, LatePostAccepted, RunTimesOut,
       StoppingMove, Tasks
  <2>3. task'.phase \in {"measure", "connect", "post", "run", "stop"}
    BY <1>1, <1>15 DEF MeasureOk, ConnectOk, PostAccepted, LatePostAccepted, RunTimesOut,
       StoppingMove, Tasks
  <2> QED
    BY <1>6, <2>1, <2>2, <2>3
<1>16. CASE RunLosesEvents
  <2>1. /\ task' = StoppingMove(task, "lost") /\ baseline' = None /\ TripIf(TRUE)
    BY <1>16 DEF RunLosesEvents
  <2>2. task'.phase = "stop"
    BY <1>1, <2>1 DEF StoppingMove, Tasks
  <2>3. fault' = TRUE
    BY <2>1 DEF TripIf
  <2>4. Relies(task', baseline', fault')
    BY <2>2, <2>3 DEF Relies
  <2> QED
    BY <2>1, <2>3, <2>4 DEF Faithful
<1>17. CASE MeasureAlreadyUp \/ MeasureRejects
  BY <1>1, <1>5, <1>17 DEF MeasureAlreadyUp, MeasureRejects
<1>18. CASE SettleOk
  <2>1. ~fault /\ task.request.id \in futures
    BY <1>1, <1>2, <1>18 DEF SettleOk, TaskAt, Quiet, Accounted, Served
  <2>2. UNCHANGED fault /\ baseline' \in {task.request.id, None, baseline}
    BY <1>18 DEF SettleOk
  <2>3. CASE task' = Returned(task, "completed")
    BY <1>5, <2>1, <2>2, <2>3
  <2>4. CASE /\ task' = [task EXCEPT !.phase = "measure", !.leg = 2, !.uuid = FALSE]
             /\ Kind = "micro"
    <3>1. task'.phase = "measure" /\ task'.previous = task.previous
      BY <1>1, <2>4 DEF Tasks
    <3>2. baseline' = baseline
      BY <1>18, <2>4 DEF SettleOk
    <3> QED
      BY <1>6, <1>18, <2>2, <3>1, <3>2 DEF SettleOk, TaskAt
  <2> QED
    BY <1>18, <2>3, <2>4 DEF SettleOk
<1>19. CASE RereadOk
  <2>1. task.previous \in {None, baseline} /\ ~fault
    BY <1>1, <1>19 DEF RereadOk, TaskAt, Quiet, Relies
  <2> QED
    BY <1>5, <1>19, <2>1 DEF RereadOk
<1>20. CASE HoldOk
  <2>1. UNCHANGED fault /\ task.phase = "hold"
    BY <1>20 DEF HoldOk, TaskAt
  <2>2. task.why = "cancel" => ~fault /\ task.previous \in {None, baseline}
    BY <1>1, <2>1 DEF Relies
  <2>3. baseline' \in {baseline, None} /\ (fault => baseline' = None)
    BY <1>1, <1>20, <2>2 DEF HoldOk
  <2>4. PICK out : task' = Returned(task, out)
    BY <1>20 DEF HoldOk
  <2> QED
    BY <1>5, <2>1, <2>3, <2>4
<1>21. CASE HoldFails
  <2>1. /\ task' = Returned(task, "failed") /\ baseline' = None
    BY <1>21 DEF HoldFails
  <2> QED
    BY <2>1, DoneRelies DEF Faithful
<1> QED
  BY <1>10, <1>11, <1>12, <1>13, <1>14, <1>15, <1>16, <1>17, <1>18, <1>19, <1>20, <1>21 DEF Run

LEMMA ContractStep ==
  ASSUME Consistent, Accounted, Reliable, [Next]_vars
  PROVE  Reliable' /\ Allowed
<1>1. task \in Tasks
  BY ConsistentParts
<1>2. CASE Caller
  BY <1>2, SubmissionAllowed, ControlBeginsAllowed DEF Caller
<1>3. CASE Controller
  BY <1>3, ControlEndsAllowed
<1>4. CASE Worker
  BY <1>4, WorkerAllowed
<1>5. CASE Run
  <2>1. HeldOn => Faithful(task', baseline', fault') /\ baseline' \in {baseline, None} \cup futures
    BY <1>5, RunKeepsFaith DEF Reliable
  <2> QED
    BY <1>5, <2>1, RunAnswers, RunWorks
<1>6. CASE DeadlinePasses
  <2>1. /\ Interrupt(FALSE) /\ task.phase \notin {"none", "done", "crashed"}
        /\ UNCHANGED <<futures, control, turn, fault, closed>>
    BY <1>6 DEF DeadlinePasses, queueVars
  <2>2. baseline' \in {baseline, None} /\ cut \subseteq cut'
    BY <2>1, InterruptOffers
  <2>3. HeldOn' => Faithful(task', baseline', fault')
    BY <2>1, <2>2, InterruptKeepsFaith DEF Reliable, HeldOn
  <2>4. HeldOn' => baseline' \in {baseline, None} \cup futures /\ (fault' => baseline' = None)
    BY <2>2, <2>3 DEF Faithful
  <2>5. fault \in BOOLEAN
    BY DEF Consistent, TypeOK
  <2>6. Contract!Proceeds
    BY <2>1, <2>2, <2>4, <2>5, WorkStep
  <2> QED
    BY <2>3, <2>6 DEF Reliable, Allowed
<1>7. CASE Daemon
  <2>1. Steady
    BY <1>7 DEF Daemon, DaemonStarts, DaemonEnds, StrayStarts, StrayEnds, Steady, queueVars,
       controlVars, postureVars
  <2>2. task'.phase = task.phase /\ task'.why = task.why /\ task'.previous = task.previous
    BY <1>1, <1>7 DEF Daemon, DaemonStarts, DaemonEnds, StrayStarts, StrayEnds, Tasks
  <2>3. Reliable'
    BY <2>1, <2>2 DEF Reliable, Faithful, Relies, HeldOn, Steady
  <2> QED
    BY <2>1, <2>3 DEF Allowed
<1>8. CASE UNCHANGED vars
  BY <1>8, SameReliable DEF vars, queueVars, controlVars, postureVars, Allowed, Steady
<1> QED
  BY <1>2, <1>3, <1>4, <1>5, <1>6, <1>7, <1>8 DEF Next

\* The executor implements its contract: a control operation returns with
\* nothing awaited, nothing is accepted meanwhile or after a fault, and a
\* posture on offer is that of a request of this executor.  An interrupt that
\* cuts short the hold after a failure is the one event that undoes it, for
\* the request that failed and the posture it had found (executor.py submit,
\* _cancel, _trip; posture.py run).
THEOREM PromiseKept == Spec => KeepsContract
<1>1. Init => Contract!Begins /\ Accounted /\ Reliable
  BY ReliableBegins, AccountedBegins
<1>2. Consistent /\ Accounted /\ Reliable /\ [Next]_vars => Accounted' /\ Reliable'
  BY AccountedStep, ContractStep
<1>3. Consistent /\ Accounted /\ Reliable /\ [Next]_vars
        => [Contract!Proceeds]_(Contract!contractVars)
  BY ContractStep DEF Allowed, Steady, Contract!contractVars
<1> QED
  BY <1>1, <1>2, <1>3, ConsistentAlways, PTL DEF Spec, KeepsContract, Contract!Promise

-----------------------------------------------------------------------------
(* Results are final.                                                      *)

Final == Terminal \cup {"stopped"}

\* A stop of this id ends.
StopEnds(id) == control = id /\ control' = "free"

\* What may become of a result that is known.
Outcome(id, old, new) ==
  old \in Final =>
    new \in {old, "absent"} \cup (IF StopEnds(id) THEN {"stopped", "failed"} ELSE {})

Outcomes == \A id \in Ids : Outcome(id, status[id], status'[id])

\* A step that answers only requests that are awaited keeps all other results.
AnswersAwaited == \A id \in Ids \ futures : status'[id] = status[id]

LEMMA AwaitedOnly ==
  ASSUME Accounted, AnswersAwaited
  PROVE  Outcomes
<1>1. \A id \in Ids : status[id] \in Final => id \notin futures
  BY DEF Accounted, Pending, Final, Terminal
<1> QED
  BY <1>1 DEF Outcome, Outcomes, AnswersAwaited

LEMMA DrainAnswers ==
  ASSUME Accounted, Drain
  PROVE  AnswersAwaited
BY DEF Drain, Accounted, AnswersAwaited

LEMMA TripAnswers ==
  ASSUME Accounted, NEW found, TripIf(found)
  PROVE  AnswersAwaited
BY DrainAnswers DEF TripIf, queueVars, AnswersAwaited

\* _save changes one result and gives up another.
LEMMA SaveNewOutcome ==
  ASSUME TypeOK, NEW id \in Ids, NEW new \in Statuses, NEW pending,
         SaveNew([status EXCEPT ![id] = new], pending)
  PROVE  \A i \in Ids : status'[i] = "absent" \/ status'[i] = IF i = id THEN new ELSE status[i]
<1> DEFINE st == [status EXCEPT ![id] = new]
<1>1. st \in [Ids -> Statuses] /\ \A i \in Ids : st[i] = IF i = id THEN new ELSE status[i]
  BY DEF TypeOK
<1>2. SaveNew(st, pending)
  OBVIOUS
<1> HIDE DEF st
<1>3. \A i \in Ids : status'[i] = "absent" \/ status'[i] = st[i]
  BY <1>1, <1>2 DEF SaveNew, Retained
<1> QED
  BY <1>1, <1>3

LEMMA FinalStep ==
  ASSUME Consistent, Accounted, [Next]_vars
  PROVE  Outcomes
<1>1. /\ TypeOK /\ task \in Tasks /\ "free" \notin Ids /\ Queued \subseteq futures /\ Served
      /\ {"rejected", "queued", "stopped", "failed", "absent"} \subseteq Statuses
  BY ConsistentParts, HolderAssumption DEF Consistent, Accounted, Statuses, Terminal
<1>2. ASSUME NEW id \in Ids, Refuse(id) PROVE Outcomes
  <2>1. \A i \in Ids : status'[i] = "absent" \/ status'[i] = IF i = id THEN "rejected" ELSE status[i]
    BY <1>1, <1>2, SaveNewOutcome DEF Refuse
  <2>2. status[id] = "absent"
    BY <1>2 DEF Refuse, Duplicate
  <2> QED
    BY <2>1, <2>2 DEF Outcomes, Outcome, Final, Terminal
<1>3. ASSUME NEW request \in Requests, Submit(request) PROVE Outcomes
  <2>1. request.id \in Ids
    BY DEF Requests
  <2>2. \A i \in Ids : status'[i] = "absent" \/ status'[i] = IF i = request.id THEN "queued" ELSE status[i]
    BY <1>1, <1>3, <2>1, SaveNewOutcome DEF Submit
  <2>3. status[request.id] = "absent"
    BY <1>3 DEF Submit, Duplicate
  <2> QED
    BY <2>2, <2>3 DEF Outcomes, Outcome, Final, Terminal
\* A control operation begins: only what is queued gets a result.
<1>4. CASE \/ BeginCancel \/ BeginClose \/ BeginInvalidate
           \/ (\E id \in Ids : BeginStop(id)) \/ (\E new \in Turns : BeginSetTurn(new))
  BY <1>4, DrainAnswers, AwaitedOnly DEF BeginCancel, BeginClose, BeginInvalidate, BeginStop,
     BeginSetTurn, Cancel
<1>5. CASE UNCHANGED status
  BY <1>5, AwaitedOnly DEF AnswersAwaited
<1>6. CASE Caller
  BY <1>2, <1>3, <1>4, <1>5, <1>6 DEF Caller, BeginReview, StopWaits, queueVars
\* A stop ends: its own result is stored, whatever was retained of that id.
<1>7. ASSUME NEW interrupted \in BOOLEAN, EndControl(interrupted) PROVE Outcomes
  <2>1. CASE control \in Ids /\ ~interrupted
    <3>1. PICK new \in {"failed", "stopped"} :
            SaveNew([status EXCEPT ![control] = new], futures')
      BY <1>7, <2>1 DEF EndControl
    <3>2. new \in Statuses
      BY <1>1
    <3>3. \A i \in Ids : status'[i] = "absent" \/ status'[i] = IF i = control THEN new ELSE status[i]
      BY <1>1, <2>1, <3>1, <3>2, SaveNewOutcome
    <3>4. control' = "free"
      BY <1>7 DEF EndControl
    <3> QED
      BY <3>3, <3>4 DEF Outcomes, Outcome, StopEnds
  <2>2. CASE ~(control \in Ids /\ ~interrupted)
    BY <1>5, <1>7, <2>2 DEF EndControl
  <2> QED
    BY <2>1, <2>2
<1>8. ASSUME NEW ok \in BOOLEAN, PinEnds(ok) PROVE Outcomes
  BY <1>8, TripAnswers, AwaitedOnly DEF PinEnds
<1>9. CASE Controller
  BY <1>5, <1>7, <1>8, <1>9 DEF Controller, EndReview, queueVars
<1>10. CASE Worker
  <2>1. CASE WorkerExpires
    <3>1. Head(queue).id \in futures
      <4>1. queue \in Seq(Requests) /\ queue # <<>>
        BY <1>1, <2>1 DEF TypeOK, WorkerExpires
      <4>2. 1 \in 1 .. Len(queue) /\ Head(queue) = queue[1]
        BY <4>1
      <4> QED
        BY <1>1, <4>2 DEF Queued
    <3>2. AnswersAwaited
      BY <1>1, <2>1, <3>1 DEF WorkerExpires, AnswersAwaited, TypeOK
    <3> QED
      BY <3>2, AwaitedOnly
  <2>2. CASE WorkerCollects
    <3>1. task.request.id \in futures
      BY <1>1, <2>2 DEF WorkerCollects, Served
    <3>2. AnswersAwaited
      BY <1>1, <2>2, <3>1 DEF WorkerCollects, AnswersAwaited, TypeOK
    <3> QED
      BY <3>2, AwaitedOnly
  <2> QED
    BY <1>5, <1>10, <2>1, <2>2 DEF Worker, WorkerWakes, WorkerPauses, WorkerStarts, WorkerDies,
       queueVars
<1>11. CASE Run
  <2>1. CASE PostAccepted
    <3>1. task.request.id \in futures
      BY <1>1, <2>1 DEF PostAccepted, TaskAt, Served
    <3>2. AnswersAwaited
      BY <1>1, <2>1, <3>1 DEF PostAccepted, AnswersAwaited, TypeOK
    <3> QED
      BY <3>2, AwaitedOnly
  <2>2. CASE Drain
    BY <2>2, DrainAnswers, AwaitedOnly
  <2>3. CASE \E found : TripIf(found)
    BY <2>3, TripAnswers, AwaitedOnly
  <2> QED
    BY <1>5, <1>11, <2>1, <2>2, <2>3 DEF Run, MeasureOk, MeasureAlreadyUp, MeasureRejects,
       MeasureFails, ConnectOk, ConnectLate, ConnectFails, PostRefused, PostUnknown,
       LatePostAccepted, LatePostFails, RunSeesEvent, RunTimesOut, RunLosesEvents,
       StopConfirmed, StopFails, SettleOk, SettleFails, RereadOk, RereadFails, HoldOk,
       HoldFails, LegEnds, VerificationFails, queueVars
<1>12. CASE DeadlinePasses \/ Daemon \/ UNCHANGED vars
  BY <1>5, <1>12 DEF DeadlinePasses, Daemon, DaemonStarts, DaemonEnds, StrayStarts, StrayEnds,
     vars, queueVars
<1> QED
  BY <1>6, <1>9, <1>10, <1>11, <1>12 DEF Next

\* A result that is known is not replaced and its request does not run again,
\* until the history forgets it.  The one exception is the code's own: a stop
\* that waited for the lock does not look again whether its id is taken, and
\* stores its result over what it finds (executor.py submit, _save, _run).
THEOREM ResultsFinal == Spec => NeverRunTwice
<1>1. Consistent /\ Accounted /\ [Next]_vars =>
        [\A id \in Ids : status[id] \in Terminal \cup {"stopped"} =>
           status'[id] \in {status[id], "absent"}
             \cup (IF control = id /\ control' = "free" THEN {"stopped", "failed"} ELSE {})]_vars
  BY FinalStep DEF Outcomes, Outcome, StopEnds, Final
<1> QED
  BY <1>1, AccountedBegins, AccountedStep, ConsistentAlways, PTL DEF Spec, NeverRunTwice

-----------------------------------------------------------------------------
(* The measured origin.                                                    *)

\* The head is lifted, or a run that lifts it has measured where it was.
Lifts ==
  /\ Kind = "look_up" /\ task.phase \notin {"none", "done", "crashed"}
  /\ task.phase = "measure" => task.leg = 2

\* The head is up, or goes up, or may yet go up by a POST that was given up on.
Rises == pose = "away" \/ Lifts \/ "look_up" \in late

NoPostCut == "post_cancelled" \notin cut

Measured ==
  /\ NoPostCut /\ Rises => seed \/ closed
  /\ control = "close" => closed

\* A POST is given up on with a fault, if its wait is not cut short; a review
\* has found no fault and meets none.
Strayed ==
  /\ NoPostCut /\ (late # {} \/ astray # None) => fault
  /\ waitingFor = "review" => ~fault

\* Steps that neither lift nor forget.
LEMMA StillMeasured ==
  ASSUME Measured, cut \subseteq cut', Rises' => Rises \/ seed',
         closed => closed', seed => seed' \/ closed', control' = "close" => closed'
  PROVE  Measured'
BY DEF Measured, NoPostCut

LEMMA GivenUpRises ==
  ASSUME NEW given_up, GivenUp(given_up), given_up => task.phase \in {"post", "post_cancelled"},
         Lifts' => Lifts \/ seed'
  PROVE  Rises' => Rises \/ seed'
BY DEF GivenUp, worldVars, Lifts, Rises

LEMMA InterruptLifts ==
  ASSUME Consistent, NEW byControl \in BOOLEAN, Interrupt(byControl),
         task.phase \notin {"none", "done", "crashed"}
  PROVE  (Rises' => Rises) /\ (Lifts' => Lifts)
<1>1. Lifts' => Lifts
  <2>1. task'.request = task.request
    BY InterruptKept
  <2>2. CASE task.phase = "measure" => task.leg = 2
    BY <2>1, <2>2 DEF Lifts, Kind
  <2>3. CASE task.phase = "measure" /\ task.leg # 2
    <3> DEFINE t == IF byControl THEN [task EXCEPT !.byControl = TRUE]
                                 ELSE [task EXCEPT !.byDeadline = TRUE]
    <3>1. t.phase = "measure" /\ t.leg # 2
      BY <2>3, ConsistentParts DEF Tasks
    <3>2. task' = Interrupted(t)
      BY DEF Interrupt
    <3> HIDE DEF t
    <3>3. PICK out : task' = Returned(t, out)
      BY <3>1, <3>2 DEF Interrupted
    <3>4. task'.phase = "done"
      BY <3>3 DEF Returned, Ended
    <3> QED
      BY <3>4 DEF Lifts
  <2> QED
    BY <2>2, <2>3
<1>2. GivenUp(task.phase = "post_cancelled")
  BY DEF Interrupt
<1>3. pose' = pose /\ ("look_up" \in late' => "look_up" \in late \/ Lifts)
  BY <1>2 DEF GivenUp, Lifts
<1> QED
  BY <1>1, <1>3 DEF Rises

\* A task begins without having measured.
LEMMA WorkerLifts ==
  ASSUME Worker
  PROVE  ~Lifts' \/ UNCHANGED task
<1>1. CASE WorkerStarts
  <2>1. /\ task'.request = Head(queue) /\ task'.leg = 1
        /\ task'.phase = IF Head(queue).kind = "clip" THEN "connect" ELSE "measure"
    BY <1>1 DEF WorkerStarts, NoTask
  <2> QED
    BY <2>1 DEF Lifts, Kind
<1>2. CASE WorkerCollects
  <2>1. task'.phase = "none"
    BY <1>2 DEF WorkerCollects, NoTask
  <2> QED
    BY <2>1 DEF Lifts
<1> QED
  BY <1>1, <1>2 DEF Worker, WorkerWakes, WorkerPauses, WorkerExpires, WorkerDies

\* A run that goes on to lift the head has measured.
LEMMA RunLifts ==
  ASSUME Consistent, Run
  PROVE  Lifts' => Lifts \/ seed'
<1>1. TypeOK /\ task \in Tasks /\ task'.request = task.request
  BY ConsistentParts, RunKept DEF Consistent, Kept
<1>2. task.phase \notin {"none", "done", "crashed"}
  BY DEF Run, MeasureOk, MeasureAlreadyUp, MeasureRejects, MeasureFails, ConnectOk,
       ConnectLate, ConnectFails, PostAccepted, PostRefused, PostUnknown, LatePostAccepted,
       LatePostFails, RunSeesEvent, RunTimesOut, RunLosesEvents, StopConfirmed, StopFails,
       SettleOk, SettleFails, RereadOk, RereadFails, HoldOk, HoldFails, TaskAt
<1>3. CASE task.phase = "measure" => task.leg = 2
  BY <1>1, <1>2, <1>3 DEF Lifts, Kind
<1>4. CASE task.phase = "measure" /\ task.leg # 2
  <2>1. CASE MeasureOk
    BY <1>1, <2>1 DEF MeasureOk, Lifts, Kind, TypeOK
  <2>2. CASE MeasureAlreadyUp \/ MeasureRejects \/ MeasureFails
    <3>1. PICK out : task' = Returned(task, out)
      BY <1>4, <2>2 DEF MeasureAlreadyUp, MeasureRejects, MeasureFails, VerificationFails
    <3> QED
      BY <3>1 DEF Returned, Ended, Lifts
  <2> QED
    BY <1>4, <2>1, <2>2 DEF Run, ConnectOk, ConnectLate, ConnectFails, PostAccepted,
       PostRefused, PostUnknown, LatePostAccepted, LatePostFails, RunSeesEvent, RunTimesOut,
       RunLosesEvents, StopConfirmed, StopFails, SettleOk, SettleFails, RereadOk,
       RereadFails, HoldOk, HoldFails, TaskAt
<1> QED
  BY <1>3, <1>4

\* Only a return to the origin makes a run forget it.
LEMMA RunForgets ==
  ASSUME Run
  PROVE  seed => seed' \/ (SettleOk /\ Kind = "return_to_start")
BY DEF Run, MeasureOk, MeasureAlreadyUp, MeasureRejects, MeasureFails, ConnectOk,
       ConnectLate, ConnectFails, PostAccepted, PostRefused, PostUnknown, LatePostAccepted,
       LatePostFails, RunSeesEvent, RunTimesOut, RunLosesEvents, StopConfirmed, StopFails,
       SettleOk, SettleFails, RereadOk, RereadFails, HoldOk, HoldFails

LEMMA MeasuredStep ==
  ASSUME Consistent, Measured, Strayed, [Next]_vars
  PROVE  Measured'
<1>1. /\ TypeOK /\ task \in Tasks /\ ControlShape /\ (fault => task.phase \in Quiet)
      /\ Operations \cap Ids = {} /\ "free" \notin Operations
      /\ {"cancel", "set_turn", "close", "invalidate", "review"} = Operations
  BY ConsistentParts, HolderAssumption DEF Consistent, Operations, Faulted
<1>2. ASSUME NEW reason, Cancel(reason)
      PROVE  cut \subseteq cut' /\ (Rises' => Rises)
  <2>1. CASE UNCHANGED <<task, cut, pose, late>>
    BY <2>1 DEF Rises, Lifts, Kind
  <2>2. CASE Interrupt(TRUE) /\ task.phase \notin {"none", "done", "crashed"}
    BY <2>2, InterruptLifts, InterruptOffers
  <2> QED
    BY <1>2, <2>1, <2>2 DEF Cancel, Idle, worldVars
<1>3. ASSUME UNCHANGED <<task, pose, late, closed, seed, cut>>, control' = "close" => control = "close"
      PROVE  Measured'
  BY <1>3 DEF Measured, Rises, Lifts, Kind, NoPostCut
\* The origin may be forgotten at the origin, while nothing can lift the head.
<1>4. ASSUME UNCHANGED <<pose, late, closed, cut>>, pose = "origin", ~fault, ~Lifts',
             control' = "close" => control = "close"
      PROVE  Measured'
  BY <1>4 DEF Measured, Strayed, Rises, NoPostCut
<1>5. CASE Caller
  <2>1. CASE \/ BeginReview \/ (\E id \in Ids : Refuse(id) \/ StopWaits(id))
             \/ (\E request \in Requests : Submit(request))
    <3>1. UNCHANGED <<task, pose, late, closed, seed, cut>> /\ control' \in {control, "review"}
      BY <2>1 DEF BeginReview, Refuse, Submit, StopWaits, Acquire, controlVars, postureVars,
         worldVars
    <3> QED
      BY <1>3, <3>1
  <2>2. CASE BeginClose
    BY <1>2, <2>2, StillMeasured DEF BeginClose
  <2>3. CASE \/ BeginCancel \/ BeginInvalidate
             \/ (\E id \in Ids : BeginStop(id)) \/ (\E new \in Turns : BeginSetTurn(new))
    <3>1. UNCHANGED <<closed, seed>> /\ control' # "close" /\ \E reason : Cancel(reason)
      BY <1>1, <2>3 DEF BeginCancel, BeginInvalidate, BeginStop, BeginSetTurn, Acquire
    <3> QED
      BY <1>2, <3>1, StillMeasured
  <2> QED
    BY <1>5, <2>1, <2>2, <2>3 DEF Caller
<1>6. CASE Controller
  <2>1. CASE EndReview
    <3>1. /\ UNCHANGED <<task, pose, late, closed, cut>> /\ control' = "free"
          /\ task.phase = "none" /\ ~fault /\ (seed' = seed \/ pose = "origin")
      BY <1>1, <2>1 DEF EndReview, worldVars, postureVars, AtOrigin, ControlShape, Idle, Strayed
    <3>2. ~Lifts'
      BY <3>1 DEF Lifts
    <3> QED
      BY <1>3, <1>4, <3>1, <3>2
  <2>2. ASSUME NEW interrupted \in BOOLEAN, EndControl(interrupted) PROVE Measured'
    <3>1. /\ UNCHANGED <<task, pose, late, closed, cut>> /\ control' = "free"
          /\ seed' = seed \/ control = "close"
      BY <1>1, <2>2 DEF EndControl, worldVars, TypeOK
    <3> QED
      BY <3>1 DEF Measured, Rises, Lifts, Kind, NoPostCut
  <2>3. ASSUME NEW ok \in BOOLEAN, PinEnds(ok) PROVE Measured'
    BY <1>3, <2>3 DEF PinEnds, worldVars
  <2> QED
    BY <1>6, <2>1, <2>2, <2>3 DEF Controller
<1>7. CASE Worker
  <2>1. UNCHANGED <<pose, late, closed, seed, control, cut>>
    BY <1>7 DEF Worker, WorkerWakes, WorkerPauses, WorkerExpires, WorkerStarts,
       WorkerCollects, WorkerDies, controlVars, worldVars, postureVars
  <2>2. ~Lifts' \/ UNCHANGED task
    BY <1>7, WorkerLifts
  <2> QED
    BY <2>1, <2>2 DEF Measured, Rises, Lifts, Kind, NoPostCut
<1>8. CASE Run
  <2>1. UNCHANGED <<closed, control, cut>> /\ task.phase \notin {"none", "done", "crashed"}
    BY <1>8, RunAnswers
  <2>2. task'.request = task.request
    BY <1>8, RunKept DEF Kept
  <2>3. Rises' => Rises \/ seed'
    <3>1. Lifts' => Lifts \/ seed'
      BY <1>8, RunLifts
    <3>2. CASE PostUnknown \/ LatePostFails
      BY <3>1, <3>2, GivenUpRises DEF PostUnknown, LatePostFails, TaskAt
    <3>3. CASE UNCHANGED <<pose, late>>
      BY <3>1, <3>3 DEF Rises
    <3> QED
      BY <1>8, <3>2, <3>3 DEF Run, MeasureOk, MeasureAlreadyUp, MeasureRejects, MeasureFails,
         ConnectOk, ConnectLate, ConnectFails, PostAccepted, PostRefused, LatePostAccepted,
         RunSeesEvent, RunTimesOut, RunLosesEvents, StopConfirmed, StopFails,
         SettleOk, SettleFails, RereadOk, RereadFails, HoldOk, HoldFails, worldVars
  <2>4. CASE seed => seed'
    BY <2>1, <2>3, <2>4, StillMeasured DEF Measured
  <2>5. CASE SettleOk /\ Kind = "return_to_start"
    <3>1. UNCHANGED <<pose, late>> /\ pose = "origin" /\ ~fault
      BY <1>1, <2>5 DEF SettleOk, AtOrigin, worldVars, TaskAt, Quiet
    <3>2. ~Lifts'
      BY <2>2, <2>5 DEF Lifts, Kind
    <3> QED
      BY <1>4, <2>1, <3>1, <3>2
  <2>6. seed => seed' \/ (SettleOk /\ Kind = "return_to_start")
    BY <1>8, RunForgets
  <2> QED
    BY <2>4, <2>5, <2>6
<1>9. CASE DeadlinePasses
  <2>1. /\ Interrupt(FALSE) /\ task.phase \notin {"none", "done", "crashed"}
        /\ UNCHANGED <<control, closed, seed>>
    BY <1>9 DEF DeadlinePasses
  <2> QED
    BY <2>1, InterruptLifts, InterruptOffers, StillMeasured DEF Measured
<1>10. CASE Daemon
  <2>1. UNCHANGED <<closed, control, seed, cut>> /\ task'.request = task.request
        /\ task'.phase = task.phase /\ task'.leg = task.leg
    BY <1>1, <1>10 DEF Daemon, DaemonStarts, DaemonEnds, StrayStarts, StrayEnds, controlVars,
       postureVars, Tasks
  <2>2. pose' = "away" => Rises
    BY <1>10 DEF Daemon, DaemonStarts, DaemonEnds, StrayStarts, StrayEnds, Lifts, Rises
  <2>3. late' \subseteq late
    BY <1>10 DEF Daemon, DaemonStarts, DaemonEnds, StrayStarts, StrayEnds
  <2>4. Rises' => Rises
    BY <2>1, <2>2, <2>3 DEF Rises, Lifts, Kind
  <2> QED
    BY <2>1, <2>4, StillMeasured DEF Measured
<1>11. CASE UNCHANGED vars
  BY <1>3, <1>11 DEF vars, controlVars, postureVars, worldVars
<1> QED
  BY <1>5, <1>6, <1>7, <1>8, <1>9, <1>10, <1>11 DEF Next

LEMMA StrayedStep ==
  ASSUME Consistent, Strayed, [Next]_vars
  PROVE  Strayed'
<1>1. /\ task \in Tasks /\ ControlShape /\ TypeOK /\ fault \in BOOLEAN /\ (fault => fault')
  BY ConsistentParts, FaultStep DEF Consistent, BookOK
\* Steps that give nothing up.
<1>2. ASSUME cut \subseteq cut', late' \subseteq late, astray' # None => astray # None \/ late # {},
             waitingFor' = "review" => waitingFor = "review" /\ fault' = fault
      PROVE  Strayed'
  BY <1>1, <1>2 DEF Strayed, NoPostCut
<1>3. ASSUME NEW byControl \in BOOLEAN, Interrupt(byControl), fault' = fault,
             waitingFor' = "review" => waitingFor = "review"
      PROVE  Strayed'
  <2>1. CASE task.phase = "post_cancelled"
    <3>1. ~NoPostCut'
      BY <1>3, <2>1 DEF Interrupt, Cuts, NoPostCut
    <3> QED
      BY <1>3, <3>1 DEF Strayed
  <2>2. CASE task.phase # "post_cancelled"
    <3>1. late' = late /\ astray' = astray /\ cut \subseteq cut'
      BY <1>3, <2>2 DEF Interrupt, GivenUp
    <3> QED
      BY <1>2, <1>3, <3>1
  <2> QED
    BY <2>1, <2>2
<1>4. ASSUME NEW reason, Cancel(reason), fault' = fault PROVE Strayed'
  <2>1. waitingFor' # "review"
    BY <1>4 DEF Cancel
  <2> QED
    BY <1>2, <1>3, <1>4, <2>1 DEF Cancel, worldVars
<1>5. CASE Caller
  <2>1. CASE \/ BeginCancel \/ BeginClose \/ BeginInvalidate
             \/ (\E id \in Ids : BeginStop(id)) \/ (\E new \in Turns : BeginSetTurn(new))
    BY <1>4, <2>1 DEF BeginCancel, BeginClose, BeginInvalidate, BeginStop, BeginSetTurn
  <2>2. CASE BeginReview
    BY <2>2 DEF BeginReview, Strayed, NoPostCut, worldVars
  <2>3. CASE \/ (\E id \in Ids : Refuse(id) \/ StopWaits(id))
             \/ (\E request \in Requests : Submit(request))
    <3>1. UNCHANGED <<cut, late, astray, waitingFor, fault>>
      BY <2>3 DEF Refuse, StopWaits, Submit, controlVars, worldVars
    <3> QED
      BY <1>2, <3>1
  <2> QED
    BY <1>5, <2>1, <2>2, <2>3 DEF Caller
<1>6. CASE Controller
  <2>1. UNCHANGED <<cut, late, astray>> /\ waitingFor' # "review"
    BY <1>6 DEF Controller, EndReview, PinEnds, EndControl, worldVars
  <2> QED
    BY <1>2, <2>1
<1>7. CASE Worker
  <2>1. UNCHANGED <<cut, late, astray, waitingFor, fault>>
    BY <1>7 DEF Worker, WorkerWakes, WorkerPauses, WorkerExpires, WorkerStarts,
       WorkerCollects, WorkerDies, controlVars, worldVars
  <2> QED
    BY <1>2, <2>1
<1>8. CASE Run
  <2>1. waitingFor' # "review" /\ cut' = cut
    <3>1. ~Idle /\ waitingFor' = waitingFor /\ cut' = cut
      BY <1>8 DEF Run, MeasureOk, MeasureAlreadyUp, MeasureRejects, MeasureFails, ConnectOk,
         ConnectLate, ConnectFails, PostAccepted, PostRefused, PostUnknown, LatePostAccepted,
         LatePostFails, RunSeesEvent, RunTimesOut, RunLosesEvents, StopConfirmed, StopFails,
         SettleOk, SettleFails, RereadOk, RereadFails, HoldOk, HoldFails, TaskAt, Idle,
         controlVars
    <3> QED
      BY <1>1, <3>1 DEF ControlShape
  <2>2. CASE PostUnknown \/ LatePostFails
    BY <2>1, <2>2 DEF PostUnknown, LatePostFails, LegEnds, TripIf, Strayed
  <2>3. CASE UNCHANGED <<late, astray>>
    BY <1>2, <2>1, <2>3
  <2> QED
    BY <1>8, <2>2, <2>3 DEF Run, MeasureOk, MeasureAlreadyUp, MeasureRejects, MeasureFails,
       ConnectOk, ConnectLate, ConnectFails, PostAccepted, PostRefused, LatePostAccepted,
       RunSeesEvent, RunTimesOut, RunLosesEvents, StopConfirmed, StopFails,
       SettleOk, SettleFails, RereadOk, RereadFails, HoldOk, HoldFails, worldVars
<1>9. CASE DeadlinePasses
  BY <1>3, <1>9 DEF DeadlinePasses
<1>10. CASE Daemon
  <2>1. /\ UNCHANGED <<cut, waitingFor, fault>> /\ late' \subseteq late
        /\ (astray' # None => astray # None \/ late # {})
    BY <1>10 DEF Daemon, DaemonStarts, DaemonEnds, StrayStarts, StrayEnds, controlVars
  <2> QED
    BY <1>2, <2>1
<1>11. CASE UNCHANGED vars
  BY <1>2, <1>11 DEF vars, controlVars, worldVars
<1> QED
  BY <1>5, <1>6, <1>7, <1>8, <1>9, <1>10, <1>11 DEF Next

-----------------------------------------------------------------------------
(* The retirement of the voice session.                                    *)

QueueRetired == invalidated => \A i \in 1 .. Len(queue) : queue[i].kind \notin Posture
TaskRetired ==
  invalidated /\ Kind \in Posture => task.byControl \/ task.phase \in {"done", "crashed"}

Retired == QueueRetired /\ TaskRetired

LEMMA TailRetired ==
  ASSUME TypeOK, QueueRetired, queue # <<>>, queue' = Tail(queue), invalidated' = invalidated
  PROVE  QueueRetired' /\ (invalidated => Head(queue).kind \notin Posture)
<1>1. queue \in Seq(Requests)
  BY DEF TypeOK
<1>2. ASSUME NEW i \in 1 .. Len(queue'), invalidated' PROVE queue'[i].kind \notin Posture
  <2>1. queue'[i] = queue[i + 1] /\ i + 1 \in 1 .. Len(queue)
    BY <1>1
  <2> QED
    BY <1>2, <2>1 DEF QueueRetired
<1>3. Head(queue) = queue[1] /\ 1 \in 1 .. Len(queue)
  BY <1>1
<1> QED
  BY <1>2, <1>3 DEF QueueRetired

LEMMA RetiredStep ==
  ASSUME Consistent, Retired, [Next]_vars
  PROVE  Retired'
<1>1. TypeOK /\ task \in Tasks
  BY ConsistentParts DEF Consistent
<1>2. ASSUME invalidated' => invalidated, queue' = queue \/ queue' = <<>>,
             task'.request = task.request,
             task.phase \in {"done", "crashed"} => task' = task,
             task'.phase \in {"done", "crashed"} \/ (task.byControl => task'.byControl)
      PROVE  Retired'
  BY <1>2 DEF Retired, QueueRetired, TaskRetired, Kind
\* _cancel, also when it is the retirement itself.
<1>3. ASSUME NEW reason, Cancel(reason) PROVE Retired'
  <2>1. /\ queue' = <<>> /\ (Idle' <=> Idle) /\ task'.request = task.request
        /\ task'.phase \in {"none", "done", "crashed"} \/ task'.byControl
    BY <1>3, CancelKept
  <2>2. Idle => Kind = None
    BY <1>1, ConsistentParts DEF TaskShape, Idle, NoRequest, Kind
  <2>3. None \notin Posture
    BY ExecutorAssumption DEF AllKinds, Posture
  <2> QED
    BY <2>1, <2>2, <2>3 DEF Retired, QueueRetired, TaskRetired, Kind, Idle
<1>4. ASSUME NEW found, TripIf(found) PROVE queue' = queue \/ queue' = <<>>
  BY <1>4 DEF TripIf, Drain, queueVars
<1>5. CASE Caller
  <2>1. CASE BeginReview \/ \E id \in Ids : Refuse(id) \/ StopWaits(id)
    <3>1. UNCHANGED <<queue, task, invalidated>>
      BY <2>1 DEF BeginReview, Refuse, StopWaits, queueVars, postureVars
    <3> QED
      BY <1>2, <3>1
  <2>2. ASSUME NEW request \in Requests, Submit(request) PROVE Retired'
    <3>1. /\ queue' = Append(queue, request) /\ UNCHANGED <<invalidated, task>>
          /\ (invalidated => request.kind \notin Posture)
      BY <2>2 DEF Submit, Admissible, PostureAllowed, postureVars
    <3>2. queue \in Seq(Requests)
      BY <1>1 DEF TypeOK
    <3>3. QueueRetired'
      BY <3>1, <3>2 DEF Retired, QueueRetired
    <3> QED
      BY <3>1, <3>3 DEF Retired, TaskRetired, Kind
  <2> QED
    BY <1>3, <1>5, <2>1, <2>2 DEF Caller, BeginCancel, BeginStop, BeginSetTurn,
       BeginClose, BeginInvalidate
<1>6. CASE Controller
  <2>1. (invalidated' => invalidated) /\ UNCHANGED task /\ (queue' = queue \/ queue' = <<>>)
    BY <1>4, <1>6 DEF Controller, EndReview, PinEnds, EndControl, queueVars, postureVars
  <2> QED
    BY <1>2, <2>1
<1>7. CASE Worker
  <2>1. CASE WorkerWakes \/ WorkerPauses \/ WorkerDies
    <3>1. UNCHANGED <<queue, task, invalidated>>
      BY <2>1 DEF WorkerWakes, WorkerPauses, WorkerDies, queueVars, postureVars
    <3> QED
      BY <1>2, <3>1
  <2>2. CASE WorkerExpires
    BY <1>1, <2>2, TailRetired DEF WorkerExpires, postureVars, Retired, TaskRetired, Kind
  <2>3. CASE WorkerStarts
    <3>1. /\ queue # <<>> /\ queue' = Tail(queue) /\ invalidated' = invalidated
          /\ task'.request = Head(queue)
      BY <2>3 DEF WorkerStarts, NoTask, postureVars
    <3>2. QueueRetired' /\ (invalidated => Head(queue).kind \notin Posture)
      BY <1>1, <3>1, TailRetired DEF Retired
    <3> QED
      BY <3>1, <3>2 DEF Retired, TaskRetired, Kind
  <2>4. CASE WorkerCollects
    <3>1. UNCHANGED <<queue, invalidated>> /\ task'.request = NoRequest
      BY <2>4 DEF WorkerCollects, NoTask, postureVars
    <3>2. NoRequest.kind \notin Posture
      BY ExecutorAssumption DEF NoRequest, AllKinds, Posture
    <3> QED
      BY <3>1, <3>2 DEF Retired, QueueRetired, TaskRetired, Kind
  <2> QED
    BY <1>7, <2>1, <2>2, <2>3, <2>4 DEF Worker
<1>8. CASE Run
  <2>1. /\ Kept(task, task') /\ invalidated' = invalidated
        /\ task.phase \notin {"none", "done", "crashed"}
    BY <1>8, RunKept DEF Run, MeasureOk, MeasureAlreadyUp, MeasureRejects, MeasureFails,
       ConnectOk, ConnectLate, ConnectFails, PostAccepted, PostRefused, PostUnknown,
       LatePostAccepted, LatePostFails, RunSeesEvent, RunTimesOut, RunLosesEvents,
       StopConfirmed, StopFails, SettleOk, SettleFails, RereadOk, RereadFails, HoldOk,
       HoldFails, TaskAt
  <2>2. queue' = queue \/ queue' = <<>>
    <3>1. CASE UNCHANGED queue
      BY <3>1
    <3>2. CASE Drain
      BY <3>2 DEF Drain
    <3>3. CASE \E found : TripIf(found)
      BY <1>4, <3>3
    <3> QED
      BY <1>8, <3>1, <3>2, <3>3 DEF Run, MeasureOk, MeasureAlreadyUp, MeasureRejects,
         MeasureFails, ConnectOk, ConnectLate, ConnectFails, PostAccepted, PostRefused,
         PostUnknown, LatePostAccepted, LatePostFails, RunSeesEvent, RunTimesOut,
         RunLosesEvents, StopConfirmed, StopFails, SettleOk, SettleFails, RereadOk,
         RereadFails, HoldOk, HoldFails, LegEnds, VerificationFails, queueVars
  <2> QED
    BY <1>2, <2>1, <2>2 DEF Kept
<1>9. CASE DeadlinePasses
  <2>1. /\ Interrupt(FALSE) /\ task.phase \notin {"none", "done", "crashed"}
        /\ UNCHANGED <<queue, invalidated>>
    BY <1>9 DEF DeadlinePasses, queueVars
  <2>2. /\ task'.request = task.request
        /\ task'.phase \in {"done", "crashed"} \/ (task.byControl => task'.byControl)
    BY <2>1, InterruptKept
  <2> QED
    BY <1>2, <2>1, <2>2
<1>10. CASE Daemon
  <2>1. /\ UNCHANGED <<queue, invalidated>> /\ task'.request = task.request
        /\ task'.byControl = task.byControl
        /\ (task.phase \in {"done", "crashed"} => task' = task)
    BY <1>1, <1>10 DEF Daemon, DaemonStarts, DaemonEnds, StrayStarts, StrayEnds, queueVars,
       postureVars, Tasks
  <2> QED
    BY <1>2, <2>1
<1>11. CASE UNCHANGED vars
  BY <1>2, <1>11 DEF vars, queueVars, postureVars
<1> QED
  BY <1>5, <1>6, <1>7, <1>8, <1>9, <1>10, <1>11 DEF Next

\* After the voice session is retired no posture waits or goes on, and as long
\* as the head may be away from the measured origin that origin is kept, unless
\* the wait for a shielded POST was cut short (executor.py submit,
\* invalidate_baseline, _trip; posture.py run).
THEOREM PosturesAreSafe == Spec => []PosturesSafe
<1>1. Init => Measured /\ Strayed /\ Retired
  <2> SUFFICES ASSUME Init PROVE Measured /\ Strayed /\ Retired
    OBVIOUS
  <2>1. /\ pose = "origin" /\ task.phase = "none" /\ control = "free"
        /\ invalidated = FALSE /\ late = {} /\ astray = None /\ waitingFor = "nothing"
    BY DEF Init, NoTask
  <2> QED
    BY <2>1 DEF Measured, Rises, Lifts, Strayed, Retired, QueueRetired, TaskRetired
<1>2. Consistent /\ Measured /\ Strayed /\ Retired /\ [Next]_vars
        => Measured' /\ Strayed' /\ Retired'
  BY MeasuredStep, StrayedStep, RetiredStep
<1>3. Measured /\ Retired => PosturesSafe
  BY DEF Measured, Rises, NoPostCut, Retired, QueueRetired, TaskRetired, PosturesSafe,
         RetiredPostures, OriginKept
<1> QED
  BY <1>1, <1>2, <1>3, ConsistentAlways, PTL DEF Spec

-----------------------------------------------------------------------------
(* What the executor believes of the body.                                 *)

\* No interrupt has cut the wait for a shielded POST or a stop handshake short.
NoMoveLost == cut \cap {"post_cancelled", "stop"} = {}

\* Our move in the daemon belongs to the active task, which waits for its end.
Watched ==
  NoMoveLost /\ move = "running" /\ ~fault =>
    task.sent /\ task.phase \in {"post", "post_cancelled", "run", "stop"}

\* The origin is known to a run that lifts the head, and where a pose is offered.
Seeded == HeldOn /\ (baseline # None \/ Lifts) => seed

LEMMA WatchedStep ==
  ASSUME Consistent, Watched, [Next]_vars
  PROVE  Watched'
<1>1. /\ task \in Tasks /\ fault \in BOOLEAN /\ (fault => fault')
      /\ (worker = "loop" => Idle) /\ (fault => task.phase \in Quiet)
  BY ConsistentParts, FaultStep DEF BookOK, Consistent, ControlShape, Faulted
<1>2. CASE fault' \/ move' # "running" \/ ~NoMoveLost'
  BY <1>2 DEF Watched
<1>3. ASSUME move' = move, UNCHANGED <<task, cut>> PROVE Watched'
  BY <1>1, <1>3 DEF Watched, NoMoveLost
<1>4. ASSUME move' = move, cut \subseteq cut', task'.sent = task.sent,
             task.phase \in {"post", "post_cancelled", "run", "stop"} =>
               task'.phase \in {"post", "post_cancelled", "run", "stop"}
      PROVE  Watched'
  BY <1>1, <1>4 DEF Watched, NoMoveLost
<1>5. ASSUME move' = move, cut \subseteq cut', task.phase \notin {"post", "post_cancelled", "run", "stop"}
      PROVE  Watched'
  BY <1>1, <1>5 DEF Watched, NoMoveLost
<1>6. ASSUME NEW byControl \in BOOLEAN, Interrupt(byControl),
             task.phase \notin {"none", "done", "crashed"}
      PROVE  Watched'
  <2> DEFINE t == IF byControl THEN [task EXCEPT !.byControl = TRUE]
                               ELSE [task EXCEPT !.byDeadline = TRUE]
  <2>1. t \in Tasks /\ t.phase = task.phase /\ t.sent = task.sent
    BY <1>1 DEF Tasks
  <2>2. task' = Interrupted(t) /\ cut \subseteq cut' /\ move' = move
    BY <1>6 DEF Interrupt, GivenUp
  <2>3. CASE task.phase \in {"post_cancelled", "stop"}
    <3>1. ~NoMoveLost'
      BY <1>6, <2>3 DEF Interrupt, Cuts, NoMoveLost
    <3> QED
      BY <1>2, <3>1
  <2> HIDE DEF t
  <2>4. CASE task.phase = "post"
    <3>1. task' = [t EXCEPT !.phase = "post_cancelled"]
      BY <2>1, <2>2, <2>4 DEF Interrupted
    <3> QED
      BY <1>4, <2>1, <2>2, <2>4, <3>1 DEF Tasks
  <2>5. CASE task.phase = "run"
    <3>1. task' = StoppingMove(t, "cancelled")
      BY <2>1, <2>2, <2>5 DEF Interrupted
    <3>2. task'.phase = "stop" /\ task'.sent = t.sent
      BY <2>1, <3>1, StopStep
    <3> QED
      BY <1>4, <2>1, <2>2, <2>5, <3>2
  <2> QED
    BY <1>5, <2>2, <2>3, <2>4, <2>5
<1>7. ASSUME NEW reason, Cancel(reason) PROVE Watched'
  BY <1>3, <1>6, <1>7 DEF Cancel, worldVars, Idle
<1>8. CASE Caller
  BY <1>3, <1>7, <1>8 DEF Caller, Refuse, Submit, StopWaits, BeginCancel, BeginStop, BeginSetTurn,
     BeginClose, BeginInvalidate, BeginReview, worldVars, controlVars
<1>9. CASE Controller
  BY <1>3, <1>9 DEF Controller, EndReview, PinEnds, EndControl, worldVars
<1>10. CASE Worker
  <2>1. CASE WorkerStarts \/ WorkerCollects
    BY <1>1, <1>5, <2>1 DEF WorkerStarts, WorkerCollects, Idle, worldVars, controlVars
  <2> QED
    BY <1>3, <1>10, <2>1 DEF Worker, WorkerWakes, WorkerPauses, WorkerExpires, WorkerDies,
       worldVars, controlVars
<1>11. CASE Run
  <2>1. CASE PostUnknown \/ LatePostFails \/ RunLosesEvents \/ StopFails \/ MeasureFails
             \/ SettleFails \/ RereadFails \/ HoldFails \/ ConnectFails
    BY <1>2, <2>1 DEF PostUnknown, LatePostFails, RunLosesEvents, StopFails, MeasureFails,
       SettleFails, RereadFails, HoldFails, ConnectFails, LegEnds, VerificationFails, TripIf
  <2>2. CASE MeasureOk \/ MeasureAlreadyUp \/ MeasureRejects \/ ConnectOk \/ ConnectLate
             \/ SettleOk \/ RereadOk \/ HoldOk
    BY <1>5, <2>2 DEF MeasureOk, MeasureAlreadyUp, MeasureRejects, ConnectOk, ConnectLate,
       SettleOk, RereadOk, HoldOk, TaskAt, worldVars, controlVars
  <2>3. CASE RunSeesEvent \/ StopConfirmed
    BY <1>2, <2>3 DEF RunSeesEvent, StopConfirmed, worldVars
  <2>4. CASE PostRefused
    <3>1. move' = move /\ ~task.sent /\ fault' = fault /\ cut' = cut
      BY <2>4 DEF PostRefused, worldVars, TaskAt, controlVars
    <3> QED
      BY <1>2, <3>1 DEF Watched, NoMoveLost
  <2>5. CASE PostAccepted \/ LatePostAccepted \/ RunTimesOut
    <3>1. /\ move' = move /\ task'.sent = task.sent /\ task'.phase \in {"run", "stop"}
          /\ cut' = cut
      BY <1>1, <2>5 DEF PostAccepted, LatePostAccepted, RunTimesOut, StoppingMove, Tasks,
         worldVars, TaskAt, controlVars
    <3> QED
      BY <1>4, <3>1
  <2> QED
    BY <1>11, <2>1, <2>2, <2>3, <2>4, <2>5 DEF Run
<1>12. CASE DeadlinePasses
  BY <1>6, <1>12 DEF DeadlinePasses
<1>13. CASE DaemonStarts
  <2>1. task'.sent = TRUE /\ task'.phase = task.phase /\ task.phase \in {"post", "post_cancelled"}
    BY <1>1, <1>13 DEF DaemonStarts, Tasks
  <2> QED
    BY <2>1 DEF Watched
<1>14. CASE Daemon /\ ~DaemonStarts
  BY <1>2, <1>3, <1>14 DEF Daemon, DaemonEnds, StrayStarts, StrayEnds, controlVars
<1>15. CASE UNCHANGED vars
  BY <1>3, <1>15 DEF vars, worldVars, controlVars
<1> QED
  BY <1>8, <1>9, <1>10, <1>11, <1>12, <1>13, <1>14, <1>15 DEF Next

LEMMA SeededStep ==
  ASSUME Consistent, Reliable, Seeded, [Next]_vars
  PROVE  Seeded'
<1>1. /\ TypeOK /\ task \in Tasks /\ ControlShape /\ (HeldOn => Relies(task, baseline, fault))
      /\ (fault => task.phase \in Quiet)
  BY ConsistentParts DEF Consistent, Reliable, Faithful, Faulted
<1>2. ASSUME baseline' \in {baseline, None}, Lifts' => Lifts, seed => seed', cut \subseteq cut'
      PROVE  Seeded'
  BY <1>2 DEF Seeded, HeldOn
\* An idle executor lets go of the origin and the pose together.
<1>3. ASSUME HeldOn => Idle, UNCHANGED <<task, cut>>, baseline' \in {baseline, None},
             seed => seed' \/ baseline' = None
      PROVE  Seeded'
  BY <1>3 DEF Seeded, Lifts, Idle, HeldOn
<1>4. ASSUME NEW reason, Cancel(reason), seed' = seed PROVE Seeded'
  <2>1. CASE UNCHANGED <<task, cut, baseline>>
    BY <1>2, <1>4, <2>1 DEF Lifts, Kind
  <2>2. CASE Interrupt(TRUE) /\ task.phase \notin {"none", "done", "crashed"}
    BY <1>2, <1>4, <2>2, InterruptLifts, InterruptOffers
  <2> QED
    BY <1>4, <2>1, <2>2 DEF Cancel, Idle
<1>5. CASE Caller
  <2>1. CASE \/ BeginCancel \/ BeginClose \/ BeginInvalidate
             \/ (\E id \in Ids : BeginStop(id)) \/ (\E new \in Turns : BeginSetTurn(new))
    BY <1>4, <2>1 DEF BeginCancel, BeginClose, BeginInvalidate, BeginStop, BeginSetTurn
  <2>2. CASE \/ BeginReview \/ (\E id \in Ids : Refuse(id) \/ StopWaits(id))
             \/ (\E request \in Requests : Submit(request))
    <3>1. UNCHANGED <<task, baseline, seed, cut>>
      BY <2>2 DEF BeginReview, Refuse, StopWaits, Submit, postureVars, controlVars
    <3> QED
      BY <1>2, <3>1 DEF Lifts, Kind
  <2> QED
    BY <1>5, <2>1, <2>2 DEF Caller
<1>6. CASE Controller
  <2>1. CASE EndReview
    <3>1. /\ Idle /\ UNCHANGED <<task, cut>> /\ baseline' \in {baseline, None}
          /\ (seed => seed' \/ baseline' = None)
      BY <1>1, <2>1 DEF EndReview, postureVars, ControlShape
    <3> QED
      BY <1>3, <3>1
  <2>2. ASSUME NEW interrupted \in BOOLEAN, EndControl(interrupted) PROVE Seeded'
    <3>1. HeldOn => Idle
      BY <1>1, <2>2 DEF EndControl, ControlShape, Relies, TaskOver, Idle, Stopping
    <3>2. /\ UNCHANGED <<task, cut>> /\ baseline' \in {baseline, None}
          /\ (seed => seed' \/ baseline' = None)
      BY <1>1, <2>2 DEF EndControl, TypeOK
    <3> QED
      BY <1>3, <3>1, <3>2
  <2>3. ASSUME NEW ok \in BOOLEAN, PinEnds(ok) PROVE Seeded'
    BY <1>2, <2>3 DEF PinEnds, Lifts, Kind
  <2> QED
    BY <1>6, <2>1, <2>2, <2>3 DEF Controller
<1>7. CASE Worker
  <2>1. UNCHANGED <<baseline, seed, cut>>
    BY <1>7 DEF Worker, WorkerWakes, WorkerPauses, WorkerExpires, WorkerStarts,
       WorkerCollects, WorkerDies, postureVars, controlVars
  <2>2. Lifts' => Lifts
    BY <1>7, WorkerLifts DEF Lifts, Kind
  <2> QED
    BY <1>2, <2>1, <2>2
<1>8. CASE Run
  <2>1. (Lifts' => Lifts \/ seed') /\ (HeldOn' => HeldOn)
    BY <1>8, RunLifts, RunAnswers DEF HeldOn
  <2>2. CASE SettleOk /\ Kind = "return_to_start"
    <3>1. baseline' = None /\ task'.request = task.request
      BY <1>8, <2>2, RunKept DEF SettleOk, Kept
    <3> QED
      BY <2>2, <3>1 DEF Seeded, Lifts, Kind
  <2>3. CASE SettleOk /\ Kind # "return_to_start"
    <3>1. /\ seed' = seed /\ task.phase = "settle"
          /\ (Kind # "look_up" => baseline' = baseline)
      BY <1>1, <2>3 DEF SettleOk, TaskAt, TypeOK
    <3> QED
      BY <2>1, <3>1 DEF Seeded, Lifts
  <2>4. CASE RereadOk \/ HoldOk
    <3>1. HeldOn => baseline' \in {baseline, None}
      BY <1>1, <2>4 DEF RereadOk, HoldOk, TaskAt, Relies, Quiet
    <3>2. seed' = seed
      BY <2>4 DEF RereadOk, HoldOk
    <3> QED
      BY <2>1, <3>1, <3>2 DEF Seeded
  <2>5. CASE ~SettleOk /\ ~RereadOk /\ ~HoldOk
    <3>1. baseline' \in {baseline, None}
      BY <1>8, <2>5 DEF Run, MeasureOk, MeasureAlreadyUp, MeasureRejects, MeasureFails,
         ConnectOk, ConnectLate, ConnectFails, PostAccepted, PostRefused, PostUnknown,
         LatePostAccepted, LatePostFails, RunSeesEvent, RunTimesOut, RunLosesEvents,
         StopConfirmed, StopFails, SettleFails, RereadFails, HoldFails, LegEnds,
         VerificationFails, BaselineAfterLeg
    <3>2. seed => seed'
      BY <1>8, <2>5, RunForgets
    <3> QED
      BY <2>1, <3>1, <3>2 DEF Seeded
  <2> QED
    BY <2>2, <2>3, <2>4, <2>5
<1>9. CASE DeadlinePasses
  BY <1>2, <1>9, InterruptLifts, InterruptOffers DEF DeadlinePasses
<1>10. CASE Daemon
  <2>1. UNCHANGED <<baseline, seed, cut>> /\ task'.request = task.request
        /\ task'.phase = task.phase /\ task'.leg = task.leg
    BY <1>1, <1>10 DEF Daemon, DaemonStarts, DaemonEnds, StrayStarts, StrayEnds, postureVars,
       controlVars, Tasks
  <2> QED
    BY <1>2, <2>1 DEF Lifts, Kind
<1>11. CASE UNCHANGED vars
  BY <1>2, <1>11 DEF vars, postureVars, controlVars, Lifts, Kind
<1> QED
  BY <1>5, <1>6, <1>7, <1>8, <1>9, <1>10, <1>11 DEF Next

\* While the executor is fit to move again none of its moves runs or may still
\* start in the daemon, unless an interrupt cut short the wait for a shielded
\* POST or a stop handshake; and a pose is offered only with a known origin and
\* no fault, unless one cut short a hold (executor.py _stop, _trip; posture.py run).
THEOREM BodyIsTrusted == Spec => []BodyTrusted
<1>1. Init => Accounted /\ Reliable /\ Strayed /\ Watched /\ Seeded
  <2> SUFFICES ASSUME Init PROVE Strayed /\ Watched /\ Seeded
    BY ReliableBegins, AccountedBegins
  <2>1. /\ move = "none" /\ task.phase = "none" /\ baseline = None
        /\ late = {} /\ astray = None /\ waitingFor = "nothing"
    BY DEF Init, NoTask
  <2> QED
    BY <2>1 DEF Strayed, Watched, Seeded, Lifts
<1>2. Consistent /\ Accounted /\ Reliable /\ Strayed /\ Watched /\ Seeded /\ [Next]_vars
        => Accounted' /\ Reliable' /\ Strayed' /\ Watched' /\ Seeded'
  BY AccountedStep, ContractStep, StrayedStep, WatchedStep, SeededStep
<1>3. Reliable /\ Strayed /\ Watched /\ Seeded => BodyTrusted
  <2> SUFFICES ASSUME Reliable, Strayed, Watched, Seeded PROVE BodyTrusted
    OBVIOUS
  <2>1. ASSUME NoMoveLost PROVE NoUntrackedMotion
    BY <2>1 DEF Strayed, NoPostCut, NoMoveLost, Watched, NoUntrackedMotion, Idle
  <2>2. ASSUME HeldOn PROVE BaselineTrusted
    BY <2>2 DEF Reliable, Faithful, Seeded, BaselineTrusted
  <2> QED
    BY <2>1, <2>2 DEF BodyTrusted, NoMoveLost, HeldOn
<1> QED
  BY <1>1, <1>2, <1>3, ConsistentAlways, PTL DEF Spec

=============================================================================
