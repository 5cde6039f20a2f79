---------------------------- MODULE RequestWorker ----------------------------
(***************************************************************************)
(* The bridge: bridge/worker.py over the SQLite tables of session_store.py,*)
(* called by the handlers of main.py and, for photos, running the glasses' *)
(* command as a child process (luma_adapter.py).                           *)
(*                                                                         *)
(*   - requests, messages, images and sessions are durable; the queue, the *)
(*     runner and the running flow are lost in a crash;                    *)
(*   - one runner takes requests off the queue and runs the flow of each;  *)
(*   - cancel and delete wait, between their steps, for the child process, *)
(*     for the robot and for the flow.                                     *)
(*                                                                         *)
(* Between two awaits nothing else runs, but the process may crash between *)
(* two commits.                                                            *)
(***************************************************************************)
EXTENDS Integers, Sequences, FiniteSets

CONSTANTS
  Requests,  \* request ids, each a fresh uuid
  Sessions,  \* session ids, each a fresh uuid
  Clients,   \* client_request_ids
  Callers,   \* handlers that may be waiting at the same time
  Kinds,     \* a subset of {"message", "capture"}
  Crashes,   \* may the process crash?
  None

ASSUME BridgeAssumption ==
  /\ Kinds \subseteq {"message", "capture"}
  /\ Crashes \in BOOLEAN
  /\ None \notin Requests \cup Sessions \cup Clients

VARIABLES
  sessions,            \* durable: the session of each id
  status, about,       \* durable: the rows of requests
  messages,            \* durable: the roles of the messages of a request
  photos, uploads,     \* durable: requests and sessions with an image row
  service,             \* the bridge process
  queue, active, flow, \* queue, _active_request_id, _active_task
  child,               \* external: the photo process of a request
  caller               \* handlers suspended in cancel, delete or upload

storeVars == <<sessions, status, about, messages, photos, uploads>>
vars == <<storeVars, service, queue, active, flow, child, caller>>

Active == {"queued", "capturing", "thinking", "answer_ready", "responding"}
Ended  == {"completed", "completed_with_errors", "failed", "cancelled", "interrupted"}
Rows   == Active \cup Ended

Abouts == [session : Sessions, client : Clients, kind : Kinds]
NoRow  == [session |-> None, client |-> None, kind |-> None]

Phases == {"none", "start", "spawn", "capture", "timeout", "terminate", "saved",
           "think", "said", "answered", "ready", "respond", "quiet", "done"}
Flows  == [phase : Phases, cancelled : BOOLEAN]
NoFlow == [phase |-> "none", cancelled |-> FALSE]

\* A handler: what it does, to which session or request, the requests it has
\* still to cancel, the flow it will wait for, and where it waits.
Handlers == [op : {"none", "cancel", "delete", "upload"}, session : Sessions \cup {None},
             request : Requests \cup {None}, todo : SUBSET Requests,
             join : Requests \cup {None}, at : {"idle", "luma", "robot", "join", "file"}]
Idle == [op |-> "none", session |-> None, request |-> None, todo |-> {},
         join |-> None, at |-> "idle"]

TypeOK ==
  /\ sessions \in [Sessions -> {"unborn", "live", "deleted"}]
  /\ status \in [Requests -> {"unborn", "deleted"} \cup Rows]
  /\ about \in [Requests -> Abouts \cup {NoRow}]
  /\ messages \in [Requests -> SUBSET {"user", "assistant"}]
  /\ photos \subseteq Requests /\ uploads \subseteq Sessions
  /\ service \in {"down", "up", "stopping"}
  /\ queue \in Seq(Requests)
  /\ active \in Requests \cup {None} /\ flow \in Flows
  /\ child \in [Requests -> {"none", "running", "ok", "bad"}]
  /\ caller \in [Callers -> Handlers]
  /\ \A r \in Requests : status[r] \in Rows => about[r] \in Abouts
  /\ active = None <=> flow.phase = "none"

Init ==
  /\ sessions = [s \in Sessions |-> "unborn"]
  /\ status = [r \in Requests |-> "unborn"] /\ about = [r \in Requests |-> NoRow]
  /\ messages = [r \in Requests |-> {}]
  /\ photos = {} /\ uploads = {}
  /\ service = "down" /\ queue = <<>> /\ active = None /\ flow = NoFlow
  /\ child = [r \in Requests |-> "none"]
  /\ caller = [c \in Callers |-> Idle]

-----------------------------------------------------------------------------
(* Store                                                                   *)

\* update_request(status=...): a row that is gone stays gone.
Set(r, new) == [status EXCEPT ![r] = IF @ = "deleted" THEN @ ELSE new]

\* interrupt_unfinished
Interrupted == [r \in Requests |-> IF status[r] \in Active THEN "interrupted" ELSE status[r]]

RowsOf(s) == {r \in Requests : status[r] \in Rows /\ about[r].session = s}

\* MUTANT: only whether the row is there is looked at.
LiveUnlessDeleted(r) == status[r] # "deleted"

\* MUTANT: a row that is gone passes.
LiveUnlessGivenUp(r) == status[r] \notin {"cancelled", "interrupted"}

\* _ensure_live does not raise.
Live(r) == status[r] \notin {"deleted", "cancelled", "interrupted"}

\* Between these two commits of a flow there is no await.
MidCommit == flow.phase \in {"saved", "said", "answered", "ready"}
Running == service # "down" /\ ~MidCommit

CreateSession(s) ==
  /\ service = "up" /\ ~MidCommit /\ sessions[s] = "unborn"
  /\ sessions' = [sessions EXCEPT ![s] = "live"]
  /\ UNCHANGED <<status, about, messages, photos, uploads, service, queue, active, flow,
                 child, caller>>

-----------------------------------------------------------------------------
(* submit                                                                  *)

\* MUTANT: the request is stored, and lost on its way to the queue.
EnqueueLost(r) == UNCHANGED queue

Enqueue(r) == queue' = Append(queue, r)

\* A new request (a known client id returns the request it stands for).  The
\* check of the session, the row and the queue entry come without an await.
Submit(r, s, c, k) ==
  /\ service = "up" /\ ~MidCommit
  /\ sessions[s] = "live" /\ status[r] = "unborn"
  /\ \A other \in RowsOf(s) : about[other].client # c
  /\ status' = [status EXCEPT ![r] = "queued"]
  /\ about' = [about EXCEPT ![r] = [session |-> s, client |-> c, kind |-> k]]
  /\ Enqueue(r)
  /\ UNCHANGED <<sessions, messages, photos, uploads, service, active, flow, child, caller>>

-----------------------------------------------------------------------------
(* cancel, cancel_session and the handlers that call them                  *)

\* luma.cancel() waits while a photo process is running.
LumaWaits == flow.phase \in {"capture", "timeout", "terminate"} /\ child[active] = "running"

\* task.cancel() on the active task, whichever it is now.
FlowTold == IF flow.phase \in {"none", "done"} THEN flow ELSE [flow EXCEPT !.cancelled = TRUE]

\* delete_session: every row of the session goes in one transaction.
Erase(s, rows) ==
  LET gone == {r \in RowsOf(s) : sessions[s] = "live"} IN
  /\ sessions' = [sessions EXCEPT ![s] = "deleted"]
  /\ status' = [r \in Requests |-> IF r \in gone THEN "deleted" ELSE rows[r]]
  /\ messages' = [r \in Requests |-> IF r \in gone THEN {} ELSE messages[r]]
  /\ photos' = photos \ gone
  /\ uploads' = IF sessions[s] = "live" THEN uploads \ {s} ELSE uploads

\* The handler h still has to wait for the flow that was active when it began.
Joins(h) == h.join # None /\ h.join = active /\ flow.phase # "done"

\* With nothing left to cancel, the handler waits for the flow, or is done.
Concludes(c, h, rows) ==
  IF h.op = "delete" /\ ~Joins(h)
  THEN caller' = [caller EXCEPT ![c] = Idle] /\ Erase(h.session, rows)
  ELSE /\ status' = rows
       /\ caller' = [caller EXCEPT ![c] =
            IF h.op = "delete" THEN [h EXCEPT !.todo = {}, !.at = "join"] ELSE Idle]
       /\ UNCHANGED <<sessions, messages, photos, uploads>>

\* MUTANT: the row of the active request is left to its flow.
CancelledButActive(rs) == [r \in Requests |-> IF r \in rs \ {active} THEN "cancelled" ELSE status[r]]

CancelledRows(rs) == [r \in Requests |-> IF r \in rs THEN "cancelled" ELSE status[r]]

\* cancel of the requests of todo, in the order of their client ids: only that
\* of the active one waits, and some of the others may come before it.
CancelEach(c, h, todo) ==
  LET asked == {r \in todo : status[r] \in Active} IN
     IF active \in asked
     THEN /\ flow' = IF LumaWaits THEN flow ELSE FlowTold
          /\ \E before \in SUBSET (asked \ {active}) :
               /\ status' = CancelledRows(before \cup {active})
               /\ caller' = [caller EXCEPT ![c] =
                    [h EXCEPT !.request = active, !.todo = asked \ (before \cup {active}),
                              !.at = IF LumaWaits THEN "luma" ELSE "robot"]]
          /\ UNCHANGED <<sessions, messages, photos, uploads>>
     ELSE UNCHANGED flow /\ Concludes(c, h, CancelledRows(asked))

BeginCancel(c, r) ==
  /\ service = "up" /\ ~MidCommit /\ caller[c] = Idle
  /\ status[r] \in Rows
  /\ CancelEach(c, [Idle EXCEPT !.op = "cancel"], {r})
  /\ UNCHANGED <<about, service, queue, active, child>>

\* delete_session's handler.  Without a row for the active request the first
\* line of cancel_session raises, and nothing is done.
BeginDelete(c, s) ==
  /\ service = "up" /\ ~MidCommit /\ caller[c] = Idle
  /\ sessions[s] # "unborn"
  /\ active # None => status[active] \in Rows
  /\ CancelEach(c, [Idle EXCEPT !.op = "delete", !.session = s,
                      !.join = IF active \in RowsOf(s) THEN active ELSE None],
                {r \in RowsOf(s) : status[r] \in Active})
  /\ UNCHANGED <<about, service, queue, active, child>>

\* The photo process has ended: the task is cancelled, the robot stopped.
LumaCancelled(c) ==
  /\ Running /\ caller[c].at = "luma" /\ child[caller[c].request] # "running"
  /\ flow' = FlowTold
  /\ caller' = [caller EXCEPT ![c].at = "robot"]
  /\ UNCHANGED <<storeVars, service, queue, active, child>>

\* robot.stop() has returned (at once, when the output is disabled).
RobotStopped(c) ==
  /\ Running /\ caller[c].at = "robot"
  /\ CancelEach(c, caller[c], caller[c].todo)
  /\ UNCHANGED <<about, service, queue, active, child>>

\* The flow the delete waited for is over.
EndDelete(c) ==
  /\ Running /\ caller[c].at = "join" /\ ~Joins(caller[c])
  /\ Concludes(c, caller[c], status)
  /\ UNCHANGED <<about, service, queue, active, flow, child>>

BeginUpload(c, s) ==
  /\ service = "up" /\ ~MidCommit /\ caller[c] = Idle /\ sessions[s] = "live"
  /\ caller' = [caller EXCEPT ![c] = [Idle EXCEPT !.op = "upload", !.session = s, !.at = "file"]]
  /\ UNCHANGED <<storeVars, service, queue, active, flow, child>>

\* The file has been read: it is refused, or stored for the session.
EndUpload(c) ==
  /\ Running /\ caller[c].at = "file"
  /\ uploads' \in {uploads, uploads \cup {caller[c].session}}
  /\ caller' = [caller EXCEPT ![c] = Idle]
  /\ UNCHANGED <<sessions, status, about, messages, photos, service, queue, active, flow, child>>

-----------------------------------------------------------------------------
(* The runner                                                              *)

\* The runner has no flow to wait for (any more).
NothingActive == active' = None /\ flow' = NoFlow

\* Up to the first request that is still queued, without an await.
RunnerAdvances ==
  LET wanted == {i \in 1 .. Len(queue) : status[queue[i]] = "queued"} IN
  \/ /\ wanted = {}
     /\ queue' = <<>> /\ NothingActive
  \/ \E i \in wanted :
       /\ \A j \in wanted : i <= j
       /\ queue' = SubSeq(queue, i + 1, Len(queue))
       /\ active' = queue[i] /\ flow' = [phase |-> "start", cancelled |-> FALSE]

RunnerTakes ==
  /\ Running /\ active = None /\ queue # <<>>
  /\ RunnerAdvances
  /\ UNCHANGED <<storeVars, service, child, caller>>

\* External: the event loop is first come, first served.  The exit of the
\* photo process wakes the handler that waits for it and the flow, and only
\* the end of the flow wakes the runner.
HandlersFirst == \A c \in Callers : caller[c].at = "luma" => child[caller[c].request] = "running"

RunnerCollects ==
  /\ Running /\ flow.phase = "done" /\ HandlersFirst
  /\ RunnerAdvances
  /\ UNCHANGED <<storeVars, service, child, caller>>

-----------------------------------------------------------------------------
(* The flow: process(request_id)                                           *)

Kind == about[active].kind

\* The flow is at this phase and its task has not been cancelled.
FlowAt(phase) ==
  /\ service # "down" /\ flow.phase = phase /\ ~flow.cancelled
  /\ UNCHANGED <<sessions, about, uploads, service, queue, active, caller>>

Goes(phase) == flow' = [flow EXCEPT !.phase = phase]

FlowStarts ==
  /\ FlowAt("start")
  /\ IF status[active] = "deleted" THEN Goes("done") /\ UNCHANGED status
     ELSE IF Kind = "capture"
     THEN status' = Set(active, "capturing") /\ Goes("spawn")
     ELSE status' = Set(active, "thinking") /\ Goes("think")
  /\ UNCHANGED <<messages, photos, child>>

\* An exception: no device, no picture, a failed model or robot call, a
\* capture that timed out and has been terminated.
FlowFails ==
  /\ \/ \E phase \in {"start", "spawn", "think", "respond"} : FlowAt(phase)
     \/ FlowAt("timeout") /\ child[active] # "running"
     \/ FlowAt("capture") /\ child[active] \in {"ok", "bad"}
  /\ status' = Set(active, "failed") /\ Goes("done")
  /\ UNCHANGED <<messages, photos, child>>

PhotoSpawned ==
  /\ FlowAt("spawn")
  /\ child' = [child EXCEPT ![active] = "running"] /\ Goes("capture")
  /\ UNCHANGED <<status, messages, photos>>

CaptureTimesOut ==
  /\ FlowAt("capture") /\ child[active] = "running"
  /\ Goes("timeout")
  /\ UNCHANGED <<status, messages, photos, child>>

\* _ensure_live raises: there is nobody to answer.
FlowUnwanted ==
  /\ \/ FlowAt("capture") /\ child[active] = "ok"
     \/ FlowAt("think") \/ FlowAt("respond")
  /\ ~Live(active) /\ Goes("done")
  /\ UNCHANGED <<status, messages, photos, child>>

PhotoSaved ==
  /\ FlowAt("capture") /\ child[active] = "ok" /\ Live(active)
  /\ photos' = photos \cup {active} /\ Goes("saved")
  /\ UNCHANGED <<status, messages, child>>

PhotoCompleted ==
  /\ FlowAt("saved")
  /\ status' = Set(active, "completed") /\ Goes("done")
  /\ UNCHANGED <<messages, photos, child>>

Answered ==
  /\ FlowAt("think") /\ Live(active)
  /\ messages' = [messages EXCEPT ![active] = @ \cup {"user"}] /\ Goes("said")
  /\ UNCHANGED <<status, photos, child>>

AnswerStored ==
  /\ FlowAt("said")
  /\ messages' = [messages EXCEPT ![active] = @ \cup {"assistant"}] /\ Goes("answered")
  /\ UNCHANGED <<status, photos, child>>

AnswerReady ==
  /\ FlowAt("answered")
  /\ status' = Set(active, "answer_ready") /\ Goes("ready")
  /\ UNCHANGED <<messages, photos, child>>

Responds ==
  /\ FlowAt("ready")
  /\ status' = Set(active, "responding") /\ Goes("respond")
  /\ UNCHANGED <<messages, photos, child>>

Responded ==
  /\ FlowAt("respond") /\ Live(active)
  /\ \E final \in {"completed", "completed_with_errors"} : status' = Set(active, final)
  /\ Goes("done")
  /\ UNCHANGED <<messages, photos, child>>

\* What the handler of CancelledError in process leaves.
AfterCancelled == IF Live(active) THEN Set(active, "cancelled") ELSE status

\* A CancelledError reaches the flow.  Before its first step it never starts;
\* a running photo process is terminated first, a responding robot stopped.
FlowCancelled ==
  /\ Running /\ flow.cancelled
  /\ \/ flow.phase = "start" /\ Goes("done") /\ UNCHANGED status
     \/ flow.phase = "respond" /\ Goes("quiet") /\ UNCHANGED status
     \/ /\ flow.phase = "capture" /\ child[active] = "running"
        /\ Goes("terminate") /\ UNCHANGED status
     \/ /\ \/ flow.phase \in {"spawn", "timeout", "think", "quiet"}
           \/ flow.phase \in {"capture", "terminate"} /\ child[active] # "running"
        /\ Goes("done") /\ status' = AfterCancelled
  /\ UNCHANGED <<sessions, about, messages, photos, uploads, service, queue, active, child, caller>>

-----------------------------------------------------------------------------
(* The process, and the glasses' command                                   *)

\* External: the command ends by itself, or is terminated, or killed.
PhotoExits(r, how) ==
  /\ ~MidCommit /\ child[r] = "running"
  /\ child' = [child EXCEPT ![r] = how]
  /\ UNCHANGED <<storeVars, service, queue, active, flow, caller>>

\* MUTANT: what an earlier process left unfinished is not looked at.
NotReconciled == status

Reconciled == Interrupted

\* lifespan: the rows of an earlier process are reconciled before the runner.
Start ==
  /\ service = "down" /\ service' = "up"
  /\ status' = Reconciled
  /\ UNCHANGED <<sessions, about, messages, photos, uploads, queue, active, flow, child, caller>>

\* The server has answered its requests and calls worker.stop().
BeginStop ==
  /\ service = "up" /\ ~MidCommit /\ \A c \in Callers : caller[c] = Idle
  /\ service' = "stopping" /\ status' = Interrupted
  /\ flow' = FlowTold
  /\ UNCHANGED <<sessions, about, messages, photos, uploads, queue, active, child, caller>>

\* The runner comes to the None at the end of the queue.
EndStop ==
  /\ service = "stopping" /\ active = None /\ queue = <<>>
  /\ service' = "down"
  /\ UNCHANGED <<storeVars, queue, active, flow, child, caller>>

Crash ==
  /\ Crashes /\ service # "down" /\ service' = "down"
  /\ queue' = <<>> /\ active' = None /\ flow' = NoFlow
  /\ child' = [r \in Requests |-> "none"]
  /\ caller' = [c \in Callers |-> Idle]
  /\ UNCHANGED storeVars

-----------------------------------------------------------------------------

Handler ==
  \/ \E s \in Sessions : CreateSession(s)
  \/ \E r \in Requests, s \in Sessions, c \in Clients, k \in Kinds : Submit(r, s, c, k)
  \/ \E c \in Callers, r \in Requests : BeginCancel(c, r)
  \/ \E c \in Callers, s \in Sessions : BeginDelete(c, s) \/ BeginUpload(c, s)

Resume(c) == LumaCancelled(c) \/ RobotStopped(c) \/ EndDelete(c) \/ EndUpload(c)

Runner == RunnerTakes \/ RunnerCollects

Flow ==
  \/ FlowStarts \/ FlowFails \/ PhotoSpawned \/ CaptureTimesOut \/ FlowUnwanted
  \/ PhotoSaved \/ PhotoCompleted \/ Answered \/ AnswerStored \/ AnswerReady
  \/ Responds \/ Responded \/ FlowCancelled

Photo == \E r \in Requests, how \in {"ok", "bad"} : PhotoExits(r, how)

Process == Start \/ BeginStop \/ EndStop \/ Crash

Next == Handler \/ (\E c \in Callers : Resume(c)) \/ Runner \/ Flow \/ Photo \/ Process

Spec == Init /\ [][Next]_vars

\* The event loop runs what is ready; the model, the robot and the command
\* are called with timeouts, so a flow does not wait for ever.
FairSpec ==
  /\ Spec
  /\ WF_vars(Runner) /\ WF_vars(Flow) /\ WF_vars(Photo)
  /\ \A c \in Callers : WF_vars(Resume(c))

-----------------------------------------------------------------------------
(* Properties                                                              *)

\* While the bridge is up every request stored as queued is in the queue, or
\* has just been taken off it, once: none waits for a runner that will never
\* come to it (submit, _run, lifespan's reconciliation).
QueuedHasEntry ==
  /\ service = "up" => \A r \in Requests : status[r] = "queued" =>
       \/ \E i \in 1 .. Len(queue) : queue[i] = r
       \/ active = r /\ flow.phase = "start" /\ ~flow.cancelled
  /\ \A i, j \in 1 .. Len(queue) : queue[i] = queue[j] => i = j /\ queue[i] # active

\* Deleting a session leaves none of the worker's rows behind, whatever was
\* submitted, running or being cancelled meanwhile.
NoOrphanRows ==
  \A r \in Requests :
    status[r] \in Rows \/ messages[r] # {} \/ r \in photos =>
      sessions[about[r].session] = "live"

\* No request is forgotten and none is left over: rows, queue and sessions
\* agree.
RowsAccounted == QueuedHasEntry /\ NoOrphanRows

\* An answer on offer is in the history with its question, a completed photo
\* is stored; half of either is left only by a crash.
AnswerRecorded ==
  \A r \in Requests :
    /\ status[r] \in {"answer_ready", "responding", "completed", "completed_with_errors"} =>
         IF about[r].kind = "message" THEN messages[r] = {"user", "assistant"} ELSE r \in photos
    /\ messages[r] # {} /\ status[r] \in {"queued", "thinking", "failed", "cancelled"} =>
         messages[r] = {"user", "assistant"} \/ (active = r /\ MidCommit) \/ service = "down"

\* A request that was given up, or whose session is gone, writes nothing any
\* more and does not make the robot speak (_ensure_live).
NoLateWrites ==
  [][\A r \in Requests :
       ( \/ messages'[r] \ messages[r] # {}
         \/ r \in photos' \ photos
         \/ active = r /\ flow'.phase = "respond" /\ flow.phase # "respond" )
         => status[r] \notin {"deleted", "cancelled", "interrupted"}]_vars

\* How a message request ended is not rewritten.
EndedStays ==
  [][\A r \in Requests :
       about[r].kind = "message" /\ status[r] \in Ended => status'[r] \in {status[r], "deleted"}]_vars

\* What was given up or has ended stays so.
GivenUpIsFinal == NoLateWrites /\ EndedStays

\* Only the flow of a request that was given up is interrupted (cancel reads
\* _active_task after it has waited for the photo process).
InterruptedForCause ==
  flow.cancelled /\ flow.phase # "done" => status[active] \in {"cancelled", "interrupted", "deleted"}

\* Every accepted request comes to an end, with an answer or without, unless
\* the bridge is down for good.
Settles ==
  \A r \in Requests : (status[r] \in Active) ~> (status[r] \notin Active \/ service # "up")

\* cancel, delete and upload return.
CallersReturn == \A c \in Callers : (caller[c].at # "idle") ~> (caller[c].at = "idle")

\* Whatever was asked of the bridge comes to an end.
AllEnds == Settles /\ CallersReturn

=============================================================================
