------------------------- MODULE RequestWorker_proofs -------------------------
(***************************************************************************)
(* Proofs about the bridge's requests, for every set of requests, sessions,*)
(* client ids and callers, with and without crashes.                       *)
(***************************************************************************)
EXTENDS RequestWorker, TLAPS

Statuses == {"unborn", "deleted"} \cup Rows
GivenUp(r) == status[r] \in {"deleted", "cancelled", "interrupted"}

\* The parts of TypeOK.
StoreOK ==
  /\ sessions \in [Sessions -> {"unborn", "live", "deleted"}]
  /\ status \in [Requests -> Statuses]
  /\ about \in [Requests -> Abouts \cup {NoRow}]
  /\ messages \in [Requests -> SUBSET {"user", "assistant"}]
  /\ photos \subseteq Requests /\ uploads \subseteq Sessions
  /\ \A r \in Requests : status[r] \in Rows => about[r] \in Abouts

RunOK ==
  /\ service \in {"down", "up", "stopping"}
  /\ queue \in Seq(Requests)
  /\ active \in Requests \cup {None} /\ flow \in Flows
  /\ child \in [Requests -> {"none", "running", "ok", "bad"}]
  /\ active = None <=> flow.phase = "none"

CallersOK == caller \in [Callers -> Handlers]

\* Nothing is stored without its row, and no row without its session.
Rowed ==
  /\ \A r \in Requests : messages[r] # {} \/ r \in photos => status[r] \in Rows
  /\ \A r \in Requests : status[r] \in Rows => sessions[about[r].session] = "live"

\* What the runner knows of has been stored; a dead process knows of nothing.
Known ==
  /\ \A i \in 1 .. Len(queue) : status[queue[i]] # "unborn"
  /\ active # None => status[active] # "unborn"
  /\ service = "down" => active = None /\ queue = <<>>

\* The parts of QueuedHasEntry.
Listed ==
  service = "up" => \A r \in Requests : status[r] = "queued" =>
    \/ \E i \in 1 .. Len(queue) : queue[i] = r
    \/ active = r /\ flow.phase = "start" /\ ~flow.cancelled
Distinct == \A i, j \in 1 .. Len(queue) : queue[i] = queue[j] => i = j /\ queue[i] # active

\* A flow keeps to the kind of its request; between two of its commits the
\* request is live; it is told only when its request has been given up.
FlowShape ==
  /\ flow.phase \in {"spawn", "capture", "timeout", "terminate", "saved"} => Kind = "capture"
  /\ flow.phase \in {"think", "said", "answered", "ready", "respond", "quiet"} => Kind = "message"
  /\ MidCommit => Live(active) /\ ~flow.cancelled
  /\ flow.phase \in {"terminate", "quiet"} => flow.cancelled
  /\ flow.phase = "none" => ~flow.cancelled
  /\ flow.cancelled /\ flow.phase # "done" => GivenUp(active)

\* The row follows a flow that was not told.
RowFollows ==
  ~flow.cancelled =>
    /\ flow.phase = "start" => status[active] \in {"queued", "deleted"}
    /\ flow.phase = "spawn" => status[active] \in {"capturing", "deleted"}
    /\ flow.phase \in {"capture", "timeout"} => status[active] \in {"capturing", "cancelled", "deleted"}
    /\ flow.phase \in {"think", "said", "answered"} => status[active] \in {"thinking", "deleted"}
    /\ flow.phase = "ready" => status[active] \in {"answer_ready", "deleted"}
    /\ flow.phase = "respond" => status[active] \in {"responding", "deleted"}

\* Who waits for a photo process waits for that of the active request, which
\* has been given up, and told only after the process; the runner waits too.
Waiters ==
  \A c \in Callers : caller[c].at = "luma" =>
    /\ active # None /\ caller[c].request = active
    /\ \/ /\ flow.phase \in {"capture", "timeout", "terminate"} /\ GivenUp(active)
          /\ flow.cancelled => child[active] # "running"
       \/ flow.phase = "done" /\ child[active] # "running"

Both == {"user", "assistant"}

\* A question without its answer is left only by a crash.
Paired ==
  \A r \in Requests :
    \/ messages[r] \in {{}, Both}
    \/ /\ messages[r] = {"user"}
       /\ \/ status[r] = "interrupted"
          \/ status[r] = "thinking" /\ (service = "down" \/ (active = r /\ flow.phase = "said"))

\* What the flow has written, and what its status says of it.
Written ==
  /\ \A r \in Requests : status[r] = "queued" => messages[r] = {}
  /\ flow.phase \in {"start", "think"} => messages[active] = {}
  /\ flow.phase = "said" => messages[active] = {"user"}
  /\ flow.phase \in {"answered", "ready"} => messages[active] = Both
  /\ flow.phase = "saved" => active \in photos
  /\ active # None /\ messages[active] = {"user"} => flow.phase = "said"

Offered ==
  \A r \in Requests :
    status[r] \in {"answer_ready", "responding", "completed", "completed_with_errors"} =>
      IF about[r].kind = "message" THEN messages[r] = Both ELSE r \in photos

\* Whoever reads an uploaded file reads it for a session.
Reading == \A c \in Callers : caller[c].at = "file" => caller[c].session \in Sessions

Store == Rowed /\ Known /\ Listed /\ Distinct /\ Reading
Course == FlowShape /\ RowFollows /\ Waiters
Record == Paired /\ Written /\ Offered
Orderly == TypeOK /\ Store /\ Course /\ Record

-----------------------------------------------------------------------------
(* Types.                                                                  *)

LEMMA TypeParts == TypeOK <=> StoreOK /\ RunOK /\ CallersOK
BY DEF TypeOK, StoreOK, RunOK, CallersOK, Statuses

LEMMA NoneApart == None \notin Requests /\ None \notin Sessions /\ None \notin Clients
BY BridgeAssumption

\* The phase of the flow, and whether it was told.
LEMMA FlowRecord ==
  ASSUME NEW f \in Flows, NEW phase \in Phases
  PROVE  /\ [f EXCEPT !.phase = phase] \in Flows
         /\ [f EXCEPT !.phase = phase].phase = phase
         /\ [f EXCEPT !.phase = phase].cancelled = f.cancelled
         /\ [f EXCEPT !.cancelled = TRUE] \in Flows
         /\ [f EXCEPT !.cancelled = TRUE].phase = f.phase
         /\ [f EXCEPT !.cancelled = TRUE].cancelled = TRUE
BY DEF Flows

LEMMA NewFlow ==
  /\ NoFlow \in Flows /\ NoFlow.phase = "none" /\ NoFlow.cancelled = FALSE
  /\ [phase |-> "start", cancelled |-> FALSE] \in Flows
BY DEF NoFlow, Flows, Phases

\* task.cancel() tells the flow, unless it is over.
LEMMA Told ==
  ASSUME RunOK
  PROVE  /\ FlowTold \in Flows /\ FlowTold.phase = flow.phase
         /\ flow.phase \notin {"none", "done"} => FlowTold.cancelled
         /\ flow.phase \in {"none", "done"} => FlowTold = flow
<1>1. "none" \in Phases
  BY DEF Phases
<1> QED
  BY <1>1, FlowRecord DEF FlowTold, RunOK

LEMMA IdleHandler == Idle \in Handlers /\ Idle.at = "idle" /\ Idle.op = "none" /\ Idle.join = None
BY DEF Idle, Handlers

LEMMA HandlerRecord ==
  ASSUME NEW h \in Handlers, NEW r \in Requests \cup {None}, NEW todo \in SUBSET Requests,
         NEW at \in {"idle", "luma", "robot", "join", "file"}
  PROVE  /\ [h EXCEPT !.request = r, !.todo = todo, !.at = at] \in Handlers
         /\ [h EXCEPT !.request = r, !.todo = todo, !.at = at].request = r
         /\ [h EXCEPT !.request = r, !.todo = todo, !.at = at].at = at
         /\ [h EXCEPT !.todo = todo, !.at = at] \in Handlers
         /\ [h EXCEPT !.todo = todo, !.at = at].at = at
BY DEF Handlers

LEMMA OpRecord ==
  ASSUME NEW s \in Sessions, NEW join \in Requests \cup {None}
  PROVE  /\ [Idle EXCEPT !.op = "cancel"] \in Handlers
         /\ [Idle EXCEPT !.op = "cancel"].op = "cancel"
         /\ [Idle EXCEPT !.op = "delete", !.session = s, !.join = join] \in Handlers
         /\ [Idle EXCEPT !.op = "delete", !.session = s, !.join = join].session = s
BY DEF Idle, Handlers

LEMMA UploadRecord ==
  ASSUME NEW s \in Sessions
  PROVE  /\ [Idle EXCEPT !.op = "upload", !.session = s, !.at = "file"] \in Handlers
         /\ [Idle EXCEPT !.op = "upload", !.session = s, !.at = "file"].at = "file"
         /\ [Idle EXCEPT !.op = "upload", !.session = s, !.at = "file"].op = "upload"
         /\ [Idle EXCEPT !.op = "upload", !.session = s, !.at = "file"].session = s
BY DEF Idle, Handlers

-----------------------------------------------------------------------------
(* Steps of the flow.                                                      *)

\* A flow that is at a phase belongs to a stored request.
LEMMA FlowIsActive ==
  ASSUME TypeOK, Known, flow.phase # "none"
  PROVE  active \in Requests /\ status[active] # "unborn"
BY TypeParts DEF RunOK, Known

LEMMA SetTyped ==
  ASSUME StoreOK, NEW r \in Requests, status[r] # "unborn", NEW new \in Rows
  PROVE  /\ Set(r, new) \in [Requests -> Statuses]
         /\ Set(r, new)[r] = IF status[r] = "deleted" THEN "deleted" ELSE new
         /\ \A q \in Requests \ {r} : Set(r, new)[q] = status[q]
         /\ \A q \in Requests : Set(r, new)[q] \in Rows => status[q] \in Rows
BY DEF StoreOK, Set, Statuses

\* What every step of a flow leaves alone, and what it writes: only for its
\* own request, and messages and photos only while that is live.
FlowOnly ==
  /\ service # "down" /\ flow.phase \notin {"none", "done"}
  /\ UNCHANGED <<sessions, about, uploads, service, queue, active, caller>>
  /\ \A r \in Requests \ {active} :
       /\ status'[r] = status[r] /\ messages'[r] = messages[r]
       /\ r \in photos' <=> r \in photos
       /\ child'[r] = child[r]
  /\ \/ status'[active] = status[active]
     \/ status[active] # "deleted" /\ status'[active] \in Rows \ {"queued"}
  /\ flow.phase = "start" /\ ~flow.cancelled => status'[active] # "queued"
  /\ flow.phase # "spawn" => child' = child
  /\ \/ messages'[active] = messages[active] /\ (active \in photos' <=> active \in photos)
     \/ Live(active)
  /\ flow'.cancelled = flow.cancelled
  /\ flow'.phase \notin {"none", "start"}

LEMMA FlowAtFacts ==
  ASSUME TypeOK, NEW phase \in Phases, FlowAt(phase)
  PROVE  /\ service # "down" /\ flow.phase = phase /\ flow.cancelled = FALSE
         /\ UNCHANGED <<sessions, about, uploads, service, queue, active, caller>>
BY DEF FlowAt, TypeOK, Flows

LEMMA GoesFacts ==
  ASSUME TypeOK, NEW phase \in Phases, Goes(phase)
  PROVE  flow' \in Flows /\ flow'.phase = phase /\ flow'.cancelled = flow.cancelled
BY FlowRecord DEF Goes, TypeOK

LEMMA FlowTyped ==
  ASSUME TypeOK, active # None, flow'.phase # "none", flow' \in Flows,
         UNCHANGED <<sessions, about, uploads, service, queue, active, caller>>,
         status' \in [Requests -> Statuses],
         \A q \in Requests : status'[q] \in Rows => status[q] \in Rows,
         messages' \in [Requests -> SUBSET {"user", "assistant"}], photos' \subseteq Requests,
         child' \in [Requests -> {"none", "running", "ok", "bad"}]
  PROVE  TypeOK'
<1>1. StoreOK /\ RunOK /\ CallersOK
  BY TypeParts
<1>2. StoreOK'
  BY <1>1 DEF StoreOK
<1>3. RunOK'
  BY <1>1 DEF RunOK
<1>4. CallersOK'
  BY <1>1 DEF CallersOK
<1> QED
  BY <1>2, <1>3, <1>4 DEF TypeOK, StoreOK, RunOK, CallersOK, Statuses

\* A step of the flow that sets its row and goes on.
LEMMA SetsRow ==
  ASSUME TypeOK, Known, NEW phase \in Phases \ {"none", "done"}, FlowAt(phase),
         NEW new \in Rows \ {"queued"}, status' = Set(active, new),
         NEW next \in Phases \ {"none", "start"}, Goes(next),
         UNCHANGED <<messages, photos, child>>
  PROVE  TypeOK' /\ FlowOnly
<1>1. /\ flow.phase = phase /\ service # "down" /\ flow.cancelled = FALSE
      /\ UNCHANGED <<sessions, about, uploads, service, queue, active, caller>>
  BY FlowAtFacts
<1>2. flow' \in Flows /\ flow'.phase = next /\ flow'.cancelled = flow.cancelled
  BY GoesFacts
<1>3. active \in Requests /\ status[active] # "unborn" /\ active # None
  BY <1>1, FlowIsActive, NoneApart
<1>4. StoreOK /\ RunOK
  BY TypeParts
<1>5. /\ status' \in [Requests -> Statuses]
      /\ status'[active] = IF status[active] = "deleted" THEN "deleted" ELSE new
      /\ \A q \in Requests \ {active} : status'[q] = status[q]
      /\ \A q \in Requests : status'[q] \in Rows => status[q] \in Rows
  BY <1>3, <1>4, SetTyped
<1>6. TypeOK'
  BY <1>1, <1>2, <1>3, <1>4, <1>5, FlowTyped DEF StoreOK, RunOK
<1>7. FlowOnly
  BY <1>1, <1>2, <1>3, <1>5 DEF FlowOnly
<1> QED
  BY <1>6, <1>7

\* A step of the flow that leaves the row of its request as it is.
LEMMA KeepsRow ==
  ASSUME TypeOK, Known, NEW phase \in Phases \ {"none", "done"}, FlowAt(phase),
         phase = "start" => status[active] = "deleted",
         UNCHANGED status, NEW next \in Phases \ {"none", "start"}, Goes(next),
         messages' \in [Requests -> SUBSET {"user", "assistant"}], photos' \subseteq Requests,
         child' \in [Requests -> {"none", "running", "ok", "bad"}],
         \A r \in Requests \ {active} :
           messages'[r] = messages[r] /\ (r \in photos' <=> r \in photos) /\ child'[r] = child[r],
         phase # "spawn" => child' = child,
         (messages' = messages /\ photos' = photos) \/ Live(active)
  PROVE  TypeOK' /\ FlowOnly
<1>1. /\ flow.phase = phase /\ service # "down" /\ flow.cancelled = FALSE
      /\ UNCHANGED <<sessions, about, uploads, service, queue, active, caller>>
  BY FlowAtFacts
<1>2. flow' \in Flows /\ flow'.phase = next /\ flow'.cancelled = flow.cancelled
  BY GoesFacts
<1>3. active \in Requests /\ status[active] # "unborn" /\ active # None
  BY <1>1, FlowIsActive, NoneApart
<1>4. StoreOK /\ RunOK
  BY TypeParts
<1>6. TypeOK'
  BY <1>1, <1>2, <1>3, <1>4, FlowTyped DEF StoreOK
<1>7. FlowOnly
  BY <1>1, <1>2, <1>3 DEF FlowOnly
<1> QED
  BY <1>6, <1>7

\* A CancelledError that reaches the flow changes no row: it has been told
\* for a request that was given up.
LEMMA ToldKeepsRow ==
  ASSUME TypeOK, Known, FlowShape, FlowCancelled
  PROVE  /\ flow.phase \in {"start", "respond", "capture", "spawn", "timeout", "think", "quiet", "terminate"}
         /\ flow.cancelled /\ active \in Requests /\ service # "down"
         /\ GivenUp(active) /\ status[active] # "queued"
         /\ UNCHANGED <<storeVars, service, queue, active, child, caller>>
         /\ flow' \in Flows /\ flow'.cancelled = flow.cancelled
         /\ \/ flow.phase = "respond" /\ flow'.phase = "quiet"
            \/ flow.phase = "capture" /\ child[active] = "running" /\ flow'.phase = "terminate"
            \/ /\ flow'.phase = "done"
               /\ flow.phase \in {"capture", "terminate"} => child[active] # "running"
<1>1. /\ flow.phase \in {"start", "respond", "capture", "spawn", "timeout", "think", "quiet", "terminate"}
      /\ flow.cancelled /\ service # "down"
  BY DEF FlowCancelled, Running
<1>2. active \in Requests /\ GivenUp(active) /\ ~Live(active) /\ status[active] # "queued"
  BY <1>1, FlowIsActive DEF FlowShape, GivenUp, Live
<1>3. {"done", "quiet", "terminate"} \subseteq Phases
  BY DEF Phases
<1>4. /\ UNCHANGED status
      /\ \/ flow.phase = "respond" /\ Goes("quiet")
         \/ flow.phase = "capture" /\ child[active] = "running" /\ Goes("terminate")
         \/ Goes("done") /\ (flow.phase \in {"capture", "terminate"} => child[active] # "running")
  BY <1>1, <1>2 DEF FlowCancelled, AfterCancelled
<1>5. UNCHANGED <<storeVars, service, queue, active, child, caller>>
  BY <1>4 DEF FlowCancelled, storeVars
<1>6. /\ Goes("quiet") => flow' \in Flows /\ flow'.phase = "quiet" /\ flow'.cancelled = flow.cancelled
      /\ Goes("terminate") => flow' \in Flows /\ flow'.phase = "terminate" /\ flow'.cancelled = flow.cancelled
      /\ Goes("done") => flow' \in Flows /\ flow'.phase = "done" /\ flow'.cancelled = flow.cancelled
  BY <1>3, GoesFacts
<1> QED
  BY <1>1, <1>2, <1>4, <1>5, <1>6

\* Every step of a flow.
LEMMA FlowStep ==
  ASSUME TypeOK, Known, FlowShape, Flow
  PROVE  TypeOK' /\ FlowOnly
<1>0. /\ {"spawn", "start", "think", "respond", "timeout", "capture", "saved", "said", "answered",
          "ready", "quiet", "terminate"} \subseteq Phases \ {"none", "done"}
      /\ {"spawn", "think", "respond", "timeout", "capture", "saved", "said", "answered",
          "ready", "quiet", "terminate", "done"} \subseteq Phases \ {"none", "start"}
      /\ {"capturing", "thinking", "answer_ready", "responding", "failed", "completed",
          "completed_with_errors"} \subseteq Rows \ {"queued"}
  BY DEF Phases, Rows, Active, Ended
<1>t. StoreOK /\ RunOK
  BY TypeParts
<1>a. \A phase \in Phases \ {"none", "done"} : FlowAt(phase) => active \in Requests
  BY FlowAtFacts, FlowIsActive
<1>1. CASE FlowStarts
  <2>1. FlowAt("start") /\ UNCHANGED <<messages, photos, child>>
    BY <1>1 DEF FlowStarts
  <2>2. CASE status[active] = "deleted" /\ Goes("done") /\ UNCHANGED status
    <3>1. /\ messages' \in [Requests -> SUBSET {"user", "assistant"}] /\ photos' \subseteq Requests
          /\ child' \in [Requests -> {"none", "running", "ok", "bad"}]
      BY <1>t, <2>1 DEF StoreOK, RunOK
    <3> HIDE <1>1
    <3> QED
      BY <1>0, <2>1, <2>2, <3>1, KeepsRow
  <2>3. CASE status' = Set(active, "capturing") /\ Goes("spawn")
    BY <1>0, <2>1, <2>3, SetsRow
  <2>4. CASE status' = Set(active, "thinking") /\ Goes("think")
    BY <1>0, <2>1, <2>4, SetsRow
  <2> QED
    BY <1>1, <2>2, <2>3, <2>4 DEF FlowStarts
<1>2. CASE FlowFails
  <2>1. PICK phase \in {"start", "spawn", "think", "respond", "timeout", "capture"} : FlowAt(phase)
    BY <1>2 DEF FlowFails
  <2>2. status' = Set(active, "failed") /\ Goes("done") /\ UNCHANGED <<messages, photos, child>>
    BY <1>2 DEF FlowFails
  <2> QED
    BY <1>0, <2>1, <2>2, SetsRow
<1>3. CASE PhotoSpawned
  <2>1. FlowAt("spawn") /\ Goes("capture") /\ UNCHANGED <<status, messages, photos>>
    BY <1>3 DEF PhotoSpawned
  <2>2. active \in Requests
    BY <1>0, <1>a, <2>1
  <2>3. /\ child' \in [Requests -> {"none", "running", "ok", "bad"}]
        /\ \A r \in Requests \ {active} : child'[r] = child[r]
    BY <1>3, <1>t, <2>2 DEF PhotoSpawned, RunOK
  <2> QED
    BY <1>0, <1>t, <2>1, <2>2, <2>3, KeepsRow DEF StoreOK
<1>4. CASE CaptureTimesOut
  <2>1. FlowAt("capture") /\ Goes("timeout") /\ UNCHANGED <<status, messages, photos, child>>
    BY <1>4 DEF CaptureTimesOut
  <2> QED
    BY <1>0, <1>t, <2>1, KeepsRow DEF StoreOK, RunOK
<1>5. CASE FlowUnwanted
  <2>1. PICK phase \in {"capture", "think", "respond"} : FlowAt(phase)
    BY <1>5 DEF FlowUnwanted
  <2>2. Goes("done") /\ UNCHANGED <<status, messages, photos, child>>
    BY <1>5 DEF FlowUnwanted
  <2> QED
    BY <1>0, <1>t, <2>1, <2>2, KeepsRow DEF StoreOK, RunOK
<1>6. CASE PhotoSaved
  <2>1. FlowAt("capture") /\ Live(active) /\ Goes("saved") /\ UNCHANGED <<status, messages, child>>
        /\ photos' = photos \cup {active}
    BY <1>6 DEF PhotoSaved
  <2>2. active \in Requests
    BY <1>0, <1>a, <2>1
  <2> QED
    BY <1>0, <1>t, <2>1, <2>2, KeepsRow DEF StoreOK, RunOK
<1>7. CASE PhotoCompleted
  BY <1>0, <1>7, SetsRow DEF PhotoCompleted
<1>8. CASE Answered
  <2>1. FlowAt("think") /\ Live(active) /\ Goes("said") /\ UNCHANGED <<status, photos, child>>
        /\ messages' = [messages EXCEPT ![active] = @ \cup {"user"}]
    BY <1>8 DEF Answered
  <2>2. active \in Requests
    BY <1>0, <1>a, <2>1
  <2>3. /\ messages' \in [Requests -> SUBSET {"user", "assistant"}]
        /\ \A r \in Requests \ {active} : messages'[r] = messages[r]
    BY <1>t, <2>1, <2>2 DEF StoreOK
  <2> QED
    BY <1>0, <1>t, <2>1, <2>2, <2>3, KeepsRow DEF StoreOK, RunOK
<1>9. CASE AnswerStored
  <2>1. FlowAt("said") /\ Goes("answered") /\ UNCHANGED <<status, photos, child>>
        /\ messages' = [messages EXCEPT ![active] = @ \cup {"assistant"}]
    BY <1>9 DEF AnswerStored
  <2>2. active \in Requests /\ Live(active)
    BY <1>0, <1>a, <2>1, FlowAtFacts DEF FlowShape, MidCommit
  <2>3. /\ messages' \in [Requests -> SUBSET {"user", "assistant"}]
        /\ \A r \in Requests \ {active} : messages'[r] = messages[r]
    BY <1>t, <2>1, <2>2 DEF StoreOK
  <2> QED
    BY <1>0, <1>t, <2>1, <2>2, <2>3, KeepsRow DEF StoreOK, RunOK
<1>10. CASE AnswerReady
  BY <1>0, <1>10, SetsRow DEF AnswerReady
<1>11. CASE Responds
  BY <1>0, <1>11, SetsRow DEF Responds
<1>12. CASE Responded
  <2>1. PICK final \in {"completed", "completed_with_errors"} : status' = Set(active, final)
    BY <1>12 DEF Responded
  <2>2. FlowAt("respond") /\ Goes("done") /\ UNCHANGED <<messages, photos, child>>
    BY <1>12 DEF Responded
  <2> QED
    BY <1>0, <2>1, <2>2, SetsRow
<1>13. CASE FlowCancelled
  <2>1. /\ active \in Requests /\ active # None /\ flow' \in Flows /\ flow'.phase \notin {"none", "start"}
        /\ flow'.cancelled = flow.cancelled
        /\ flow.phase \notin {"none", "done"} /\ service # "down" /\ flow.cancelled
        /\ UNCHANGED <<storeVars, service, queue, active, child, caller>>
    BY <1>13, ToldKeepsRow, NoneApart
  <2>2. TypeOK'
    BY <1>t, <2>1, FlowTyped DEF storeVars, StoreOK, RunOK
  <2>3. FlowOnly
    BY <2>1 DEF FlowOnly, storeVars
  <2> QED
    BY <2>2, <2>3
<1> QED
  BY <1>1, <1>2, <1>3, <1>4, <1>5, <1>6, <1>7, <1>8, <1>9, <1>10, <1>11, <1>12, <1>13 DEF Flow

LEMMA FlowKeepsStore ==
  ASSUME TypeOK, Store, FlowOnly, FlowShape
  PROVE  Store'
<1>1. StoreOK /\ RunOK
  BY TypeParts
<1>2. /\ active \in Requests /\ status[active] \in Rows \cup {"deleted"} /\ active # None
      /\ status'[active] \in Rows \cup {"deleted"}
      /\ Live(active) => status[active] \in Rows /\ status'[active] \in Rows
  BY <1>1, NoneApart, FlowIsActive DEF FlowOnly, StoreOK, Statuses, Store, Live
<1>3. Rowed'
  <2>1. ASSUME NEW r \in Requests, messages'[r] # {} \/ r \in photos' PROVE status'[r] \in Rows
    BY <1>2, <2>1 DEF FlowOnly, Store, Rowed, Rows, Active, Ended
  <2>2. ASSUME NEW r \in Requests, status'[r] \in Rows PROVE sessions'[about'[r].session] = "live"
    BY <1>2, <2>2 DEF FlowOnly, Store, Rowed, Rows, Active, Ended
  <2> QED
    BY <2>1, <2>2 DEF Rowed
<1>4. Known'
  <2>1. \A i \in 1 .. Len(queue) : queue[i] \in Requests
    BY <1>1 DEF RunOK
  <2>2. \A r \in Requests : status[r] # "unborn" => status'[r] # "unborn"
    BY <1>2 DEF FlowOnly, Rows, Active, Ended
  <2>3. \A i \in 1 .. Len(queue') : status'[queue'[i]] # "unborn"
    BY <2>1, <2>2 DEF FlowOnly, Store, Known
  <2> QED
    BY <1>2, <2>3 DEF FlowOnly, Known, Rows, Active, Ended
<1>5. Listed'
  <2> SUFFICES ASSUME service = "up", NEW r \in Requests, status'[r] = "queued"
               PROVE  \E i \in 1 .. Len(queue) : queue[i] = r
    BY DEF Listed, FlowOnly
  <2>1. status[r] = "queued"
    BY DEF FlowOnly
  <2>2. CASE r = active
    BY <2>1, <2>2 DEF FlowOnly, Store, Listed
  <2>3. CASE r # active
    BY <2>1, <2>3 DEF Store, Listed
  <2> QED
    BY <2>2, <2>3
<1>6. Distinct' /\ Reading'
  BY DEF FlowOnly, Store, Distinct, Reading
<1> QED
  BY <1>3, <1>4, <1>5, <1>6 DEF Store

\* The same steps, one disjunct for each, as what they do to the row, the
\* messages and the photo of the active request.
RowBecomes(new) == status'[active] = IF status[active] = "deleted" THEN "deleted" ELSE new
SameData == messages' = messages /\ photos' = photos
SameRow  == status'[active] = status[active]

Moves(phase, next) == flow.phase = phase /\ flow'.phase = next

FromStart ==
  /\ ~flow.cancelled /\ SameData /\ child'[active] = child[active]
  /\ \/ Moves("start", "done") /\ status[active] = "deleted" /\ SameRow
     \/ Moves("start", "spawn") /\ Kind = "capture" /\ RowBecomes("capturing")
     \/ Moves("start", "think") /\ Kind = "message" /\ RowBecomes("thinking")

Failing ==
  /\ ~flow.cancelled /\ SameData /\ child'[active] = child[active]
  /\ flow.phase \in {"start", "spawn", "think", "respond", "timeout", "capture"}
  /\ flow.phase \in {"timeout", "capture"} => child[active] # "running"
  /\ flow'.phase = "done" /\ RowBecomes("failed")

OfPhoto ==
  /\ ~flow.cancelled /\ messages' = messages
  /\ \/ Moves("spawn", "capture") /\ SameRow /\ photos' = photos
     \/ Moves("capture", "timeout") /\ SameRow /\ photos' = photos
     \/ Moves("capture", "saved") /\ SameRow /\ Live(active) /\ active \in photos'
     \/ Moves("saved", "done") /\ RowBecomes("completed") /\ photos' = photos

OfAnswer ==
  /\ ~flow.cancelled /\ photos' = photos
  /\ \/ Moves("think", "said") /\ SameRow /\ Live(active)
          /\ messages'[active] = messages[active] \cup {"user"}
     \/ Moves("said", "answered") /\ SameRow
          /\ messages'[active] = messages[active] \cup {"assistant"}
     \/ Moves("answered", "ready") /\ RowBecomes("answer_ready") /\ messages' = messages
     \/ Moves("ready", "respond") /\ RowBecomes("responding") /\ messages' = messages
     \/ /\ Moves("respond", "done") /\ Live(active) /\ messages' = messages
        /\ \E final \in {"completed", "completed_with_errors"} : RowBecomes(final)

Unwanted ==
  /\ ~flow.cancelled /\ SameData /\ SameRow /\ child'[active] = child[active]
  /\ flow.phase \in {"capture", "think", "respond"} /\ ~Live(active) /\ flow'.phase = "done"
  /\ flow.phase = "capture" => child[active] = "ok"

Stopping ==
  /\ flow.cancelled /\ SameData /\ SameRow /\ child'[active] = child[active]
  /\ \/ Moves("respond", "quiet")
     \/ Moves("capture", "terminate")
     \/ /\ flow'.phase = "done"
        /\ flow.phase \in {"capture", "terminate"} => child[active] # "running"

FlowMoves == FromStart \/ Failing \/ OfPhoto \/ OfAnswer \/ Unwanted \/ Stopping

LEMMA FlowTable ==
  ASSUME TypeOK, Known, FlowShape, Flow
  PROVE  FlowMoves
<1>0. Phases = {"none", "start", "spawn", "capture", "timeout", "terminate", "saved", "think",
                "said", "answered", "ready", "respond", "quiet", "done"}
  BY DEF Phases
<1>r. {"capturing", "thinking", "answer_ready", "responding", "failed", "completed",
       "completed_with_errors"} \subseteq Rows
  BY DEF Rows, Active, Ended
<1>t. StoreOK /\ RunOK
  BY TypeParts
<1>a. \A phase \in Phases \ {"none"} : FlowAt(phase) =>
        /\ flow.phase = phase /\ ~flow.cancelled
        /\ active \in Requests /\ status[active] # "unborn"
  BY FlowAtFacts, FlowIsActive
<1>s. \A new \in Rows : active \in Requests /\ status[active] # "unborn" /\ status' = Set(active, new)
        => RowBecomes(new)
  BY <1>t, SetTyped DEF RowBecomes
<1>g. \A next \in Phases : Goes(next) => flow'.phase = next
  BY GoesFacts
<1>1. CASE FlowStarts
  <2>1. /\ flow.phase = "start" /\ ~flow.cancelled /\ active \in Requests
        /\ status[active] # "unborn" /\ SameData /\ child' = child
    BY <1>1, <1>0, <1>a DEF FlowStarts, SameData
  <2>2. status[active] # "deleted" => Kind \in {"message", "capture"}
    BY <1>t, <2>1, BridgeAssumption DEF StoreOK, Statuses, Kind, Abouts
  <2>3. CASE status[active] = "deleted" /\ Goes("done") /\ UNCHANGED status
    BY <1>0, <1>g, <2>1, <2>3 DEF FlowMoves, FromStart, Moves, SameRow
  <2>4. CASE Kind = "capture" /\ status' = Set(active, "capturing") /\ Goes("spawn")
    BY <1>0, <1>r, <1>g, <1>s, <2>1, <2>4 DEF FlowMoves, FromStart, Moves
  <2>5. CASE status[active] # "deleted" /\ Kind # "capture" /\ status' = Set(active, "thinking") /\ Goes("think")
    BY <1>0, <1>r, <1>g, <1>s, <2>1, <2>2, <2>5 DEF FlowMoves, FromStart, Moves
  <2> QED
    BY <1>1, <2>3, <2>4, <2>5 DEF FlowStarts
<1>2. CASE FlowFails
  <2>1. /\ flow.phase \in {"start", "spawn", "think", "respond", "timeout", "capture"}
        /\ ~flow.cancelled /\ active \in Requests /\ status[active] # "unborn"
        /\ flow.phase \in {"timeout", "capture"} => child[active] # "running"
    BY <1>2, <1>0, <1>a DEF FlowFails
  <2>2. status' = Set(active, "failed") /\ Goes("done") /\ SameData /\ child' = child
    BY <1>2 DEF FlowFails, SameData
  <2> QED
    BY <1>0, <1>r, <1>g, <1>s, <2>1, <2>2 DEF FlowMoves, Failing
<1>3. CASE PhotoSpawned
  BY <1>3, <1>0, <1>a, <1>g DEF PhotoSpawned, FlowMoves, OfPhoto, Moves, SameRow
<1>4. CASE CaptureTimesOut
  BY <1>4, <1>0, <1>a, <1>g DEF CaptureTimesOut, FlowMoves, OfPhoto, Moves, SameRow
<1>5. CASE FlowUnwanted
  <2>1. /\ flow.phase \in {"capture", "think", "respond"} /\ ~flow.cancelled
        /\ flow.phase = "capture" => child[active] = "ok"
    BY <1>5, <1>0, <1>a DEF FlowUnwanted
  <2> QED
    BY <1>5, <1>0, <1>g, <2>1 DEF FlowUnwanted, FlowMoves, Unwanted, SameRow, SameData
<1>6. CASE PhotoSaved
  BY <1>6, <1>0, <1>a, <1>g DEF PhotoSaved, FlowMoves, OfPhoto, Moves, SameRow
<1>7. CASE PhotoCompleted
  BY <1>7, <1>0, <1>r, <1>a, <1>g, <1>s DEF PhotoCompleted, FlowMoves, OfPhoto, Moves
<1>8. CASE Answered
  BY <1>8, <1>t, <1>0, <1>a, <1>g DEF Answered, FlowMoves, OfAnswer, Moves, SameRow, StoreOK
<1>9. CASE AnswerStored
  BY <1>9, <1>t, <1>0, <1>a, <1>g DEF AnswerStored, FlowMoves, OfAnswer, Moves, SameRow, StoreOK
<1>10. CASE AnswerReady
  BY <1>10, <1>0, <1>r, <1>a, <1>g, <1>s DEF AnswerReady, FlowMoves, OfAnswer, Moves
<1>11. CASE Responds
  BY <1>11, <1>0, <1>r, <1>a, <1>g, <1>s DEF Responds, FlowMoves, OfAnswer, Moves
<1>12. CASE Responded
  <2>1. PICK final \in {"completed", "completed_with_errors"} : status' = Set(active, final)
    BY <1>12 DEF Responded
  <2>2. /\ flow.phase = "respond" /\ ~flow.cancelled /\ Live(active) /\ flow'.phase = "done"
        /\ messages' = messages /\ photos' = photos /\ RowBecomes(final)
    BY <1>12, <1>0, <1>r, <1>a, <1>g, <1>s, <2>1 DEF Responded
  <2> QED
    BY <2>2 DEF FlowMoves, OfAnswer, Moves
<1>13. CASE FlowCancelled
  BY <1>13, ToldKeepsRow DEF FlowMoves, Stopping, Moves, SameRow, SameData, storeVars
<1> QED
  BY <1>1, <1>2, <1>3, <1>4, <1>5, <1>6, <1>7, <1>8, <1>9, <1>10, <1>11, <1>12, <1>13 DEF Flow

LEMMA FlowKeepsCourse ==
  ASSUME TypeOK, Known, Course, FlowOnly, FlowMoves
  PROVE  Course'
<1>1. /\ Kind' = Kind /\ active' = active /\ caller' = caller /\ flow'.cancelled = flow.cancelled
      /\ flow.phase \notin {"none", "done"}
      /\ Live(active)' <=> status'[active] \notin {"deleted", "cancelled", "interrupted"}
      /\ GivenUp(active)' <=> status'[active] \in {"deleted", "cancelled", "interrupted"}
      /\ MidCommit' <=> flow'.phase \in {"saved", "said", "answered", "ready"}
  BY DEF FlowOnly, Kind, Live, GivenUp, MidCommit
<1>2. FlowShape /\ RowFollows /\ Waiters
  BY DEF Course
<1>3. flow.phase \in {"said", "answered", "ready", "saved"} => Live(active) /\ status[active] # "deleted"
  BY <1>2 DEF FlowShape, MidCommit, Live
<1>4. FlowShape'
  <2>1. /\ flow'.phase \in {"spawn", "capture", "timeout", "terminate", "saved"} => Kind = "capture"
        /\ flow'.phase \in {"think", "said", "answered", "ready", "respond", "quiet"} => Kind = "message"
        /\ flow'.phase \in {"terminate", "quiet"} => flow.cancelled
        /\ flow'.phase \in {"saved", "said", "answered", "ready"} => ~flow.cancelled
        /\ flow'.phase # "none"
    BY <1>2 DEF FlowOnly, FlowShape, FlowMoves, Moves, FromStart, Failing, OfPhoto, OfAnswer, Unwanted, Stopping
  <2>2. flow'.phase \in {"saved", "said", "answered", "ready"} => Live(active)'
    BY <1>1, <1>3 DEF FlowMoves, Moves, FromStart, Failing, OfPhoto, OfAnswer, Unwanted, Stopping, RowBecomes, SameRow, Live
  <2>3. flow.cancelled /\ flow'.phase # "done" => GivenUp(active)'
    BY <1>1, <1>2 DEF FlowShape, FlowMoves, FromStart, Failing, OfPhoto, OfAnswer, Unwanted, Stopping, SameRow, GivenUp
  <2> QED
    BY <1>1, <2>1, <2>2, <2>3 DEF FlowShape
<1>5. RowFollows'
  <2> SUFFICES ASSUME ~flow.cancelled
      PROVE  /\ flow'.phase = "start" => status'[active] \in {"queued", "deleted"}
             /\ flow'.phase = "spawn" => status'[active] \in {"capturing", "deleted"}
             /\ flow'.phase \in {"capture", "timeout"} =>
                  status'[active] \in {"capturing", "cancelled", "deleted"}
             /\ flow'.phase \in {"think", "said", "answered"} => status'[active] \in {"thinking", "deleted"}
             /\ flow'.phase = "ready" => status'[active] \in {"answer_ready", "deleted"}
             /\ flow'.phase = "respond" => status'[active] \in {"responding", "deleted"}
    BY <1>1 DEF RowFollows
  <2> QED
    BY <1>2 DEF RowFollows, FlowMoves, Moves, FromStart, Failing, OfPhoto, OfAnswer, Unwanted, Stopping, RowBecomes, SameRow
<1>6. Waiters'
  <2> SUFFICES ASSUME NEW c \in Callers, caller[c].at = "luma"
      PROVE  /\ active # None /\ caller[c].request = active
             /\ \/ /\ flow'.phase \in {"capture", "timeout", "terminate"} /\ GivenUp(active)'
                   /\ flow.cancelled => child'[active] # "running"
                \/ flow'.phase = "done" /\ child'[active] # "running"
    BY <1>1 DEF Waiters
  <2>1. /\ active # None /\ caller[c].request = active
        /\ flow.phase \in {"capture", "timeout", "terminate"} /\ GivenUp(active) /\ ~Live(active)
        /\ flow.cancelled => child[active] # "running"
    BY <1>1, <1>2 DEF Waiters, GivenUp, Live
  <2>3. flow.phase # "spawn" => child' = child
    BY DEF FlowOnly
  <2>2. \/ flow'.phase \in {"capture", "timeout", "terminate"} /\ status'[active] = status[active]
        \/ flow'.phase = "done" /\ child'[active] # "running"
    BY <2>1, <2>3 DEF FlowMoves, Moves, FromStart, Failing, OfPhoto, OfAnswer, Unwanted, Stopping, SameRow
  <2> QED
    BY <1>1, <2>1, <2>2, <2>3 DEF GivenUp
<1> QED
  BY <1>4, <1>5, <1>6 DEF Course

LEMMA FlowKeepsRecord ==
  ASSUME TypeOK, Store, Course, Record, FlowOnly, FlowMoves
  PROVE  Record'
<1>1. /\ active' = active /\ about' = about /\ service' = service /\ service # "down"
      /\ flow.phase \notin {"none", "done"} /\ active \in Requests /\ status[active] # "unborn"
      /\ \A r \in Requests \ {active} :
           status'[r] = status[r] /\ messages'[r] = messages[r] /\ (r \in photos' <=> r \in photos)
  BY FlowIsActive DEF FlowOnly, Store
<1>2. Paired /\ Written /\ Offered /\ FlowShape /\ RowFollows
  BY DEF Course, Record
<1>3. flow.phase \in {"said", "answered", "ready", "saved"} =>
        status[active] \notin {"deleted", "cancelled", "interrupted"} /\ ~flow.cancelled
  BY <1>2 DEF FlowShape, MidCommit, Live
<1>4. flow.phase # "said" /\ messages[active] = {"user"} => status[active] = "interrupted" /\ ~Live(active)
  BY <1>1, <1>2 DEF Paired, Both, Live
<1>5. Paired'
  <2> SUFFICES ASSUME NEW r \in Requests
      PROVE  \/ messages'[r] \in {{}, Both}
             \/ /\ messages'[r] = {"user"}
                /\ \/ status'[r] = "interrupted"
                   \/ status'[r] = "thinking" /\ active = r /\ flow'.phase = "said"
    BY <1>1 DEF Paired
  <2>1. CASE r # active
    BY <1>1, <1>2, <2>1 DEF Paired
  <2>2. CASE r = active
    <3>1. CASE Moves("think", "said") /\ ~flow.cancelled /\ SameRow /\ Live(active)
               /\ messages'[active] = messages[active] \cup {"user"}
      BY <1>1, <1>2, <2>2, <3>1 DEF Moves, SameRow, RowFollows, Written, Live
    <3>2. CASE Moves("said", "answered") /\ messages'[active] = messages[active] \cup {"assistant"}
      BY <1>1, <1>2, <2>2, <3>2 DEF Moves, Written, Both
    <3>3. CASE messages' = messages /\ flow.phase # "said"
      BY <1>1, <1>2, <2>2, <3>3, NoneApart DEF Paired, Written
    <3>4. Moves("said", "answered") \/ flow.phase # "said"
      BY <1>3 DEF FlowMoves, Moves, FromStart, Failing, OfPhoto, OfAnswer, Unwanted, Stopping
    <3> QED
      BY <3>1, <3>2, <3>3, <3>4 DEF FlowMoves, Moves, FromStart, Failing, OfPhoto, OfAnswer, Unwanted, Stopping, SameData
  <2> QED
    BY <2>1, <2>2
<1>6. Written'
  <2>1. ASSUME NEW r \in Requests, status'[r] = "queued" PROVE messages'[r] = {}
    <3>1. CASE r # active
      BY <1>1, <1>2, <2>1, <3>1 DEF Written
    <3>2. CASE r = active
      <4>1. status[active] = "queued" /\ SameRow
        BY <2>1, <3>2 DEF FlowOnly, SameRow
      <4>2. messages[active] = {} /\ flow.phase # "said"
        BY <1>1, <1>2, <4>1 DEF Written
      <4>3. ~Moves("think", "said") \/ flow.cancelled
        BY <1>2, <4>1 DEF RowFollows, Moves
      <4> QED
        BY <3>2, <4>2, <4>3 DEF FlowMoves, Moves, FromStart, Failing, OfPhoto, OfAnswer, Unwanted, Stopping, SameData
    <3> QED
      BY <3>1, <3>2
  <2>2. flow'.phase \in {"start", "think"} => messages'[active] = {}
    BY <1>2 DEF Written, FlowMoves, Moves, FromStart, Failing, OfPhoto, OfAnswer, Unwanted, Stopping, SameData
  <2>3. /\ flow'.phase = "said" => messages'[active] = {"user"}
        /\ flow'.phase \in {"answered", "ready"} => messages'[active] = Both
    BY <1>2 DEF Written, Both, FlowMoves, Moves, FromStart, Failing, OfPhoto, OfAnswer, Unwanted, Stopping, SameData
  <2>4. flow'.phase = "saved" => active \in photos'
    BY DEF FlowMoves, Moves, FromStart, Failing, OfPhoto, OfAnswer, Unwanted, Stopping
  <2>5. messages'[active] = {"user"} => flow'.phase = "said"
    <3>1. CASE Moves("said", "answered") /\ messages'[active] = messages[active] \cup {"assistant"}
      BY <3>1
    <3>2. CASE messages' = messages /\ flow.phase # "said"
      BY <1>1, <1>2, <3>2, NoneApart DEF Written
    <3>3. CASE Moves("think", "said")
      BY <3>3 DEF Moves
    <3>4. Moves("said", "answered") \/ flow.phase # "said"
      BY <1>3 DEF FlowMoves, Moves, FromStart, Failing, OfPhoto, OfAnswer, Unwanted, Stopping
    <3> QED
      BY <3>1, <3>2, <3>3, <3>4 DEF FlowMoves, Moves, FromStart, Failing, OfPhoto, OfAnswer, Unwanted, Stopping, SameData
  <2> QED
    BY <1>1, <2>1, <2>2, <2>3, <2>4, <2>5 DEF Written
<1>7. Offered'
  <2> SUFFICES ASSUME NEW r \in Requests,
        status'[r] \in {"answer_ready", "responding", "completed", "completed_with_errors"}
      PROVE  IF about[r].kind = "message" THEN messages'[r] = Both ELSE r \in photos'
    BY <1>1 DEF Offered
  <2>1. CASE r # active
    BY <1>1, <1>2, <2>1 DEF Offered
  <2>2. CASE r = active /\ SameRow
    <3>1. IF about[r].kind = "message" THEN messages[r] = Both ELSE r \in photos
      BY <1>1, <1>2, <2>2 DEF Offered, SameRow
    <3>2. (~Moves("think", "said") /\ ~Moves("said", "answered")) \/ flow.cancelled
      BY <1>2, <2>2 DEF RowFollows, Moves, SameRow
    <3> QED
      BY <2>2, <3>1, <3>2 DEF FlowMoves, Moves, FromStart, Failing, OfPhoto, OfAnswer, Unwanted, Stopping, SameData, RowBecomes
  <2>3. CASE r = active /\ ~SameRow
    <3>1. CASE Moves("saved", "done") /\ photos' = photos
      BY <1>2, <2>3, <3>1 DEF Moves, Written, FlowShape, Kind
    <3>2. CASE (Moves("answered", "ready") \/ Moves("ready", "respond")) /\ messages' = messages
      BY <1>2, <2>3, <3>2 DEF Moves, Written, FlowShape, Kind
    <3>3. CASE Moves("respond", "done") /\ ~flow.cancelled /\ Live(active) /\ messages' = messages
      <4>1. status[active] = "responding" /\ Kind = "message"
        BY <1>2, <3>3 DEF Moves, RowFollows, FlowShape, Live
      <4> QED
        BY <1>1, <1>2, <2>3, <3>3, <4>1 DEF Offered, Kind
    <3> QED
      BY <2>3, <3>1, <3>2, <3>3 DEF FlowMoves, Moves, FromStart, Failing, OfPhoto, OfAnswer, Unwanted, Stopping, RowBecomes, SameRow
  <2> QED
    BY <2>1, <2>2, <2>3
<1> QED
  BY <1>5, <1>6, <1>7 DEF Record

-----------------------------------------------------------------------------
(* Steps of cancel and delete.                                             *)

\* A row stays, is cancelled, or is deleted with all that belongs to it.
Withdrawn(r) ==
  \/ status'[r] = status[r] /\ messages'[r] = messages[r] /\ (r \in photos' <=> r \in photos)
  \/ /\ status[r] \in Active /\ status'[r] = "cancelled"
     /\ messages'[r] = messages[r] /\ (r \in photos' <=> r \in photos)
  \/ status[r] \in Rows /\ status'[r] = "deleted" /\ messages'[r] = {} /\ r \notin photos'

\* What every step of cancel and delete does: the flow is told, or a photo
\* process waited for, when the row of the active request is cancelled.
Withdraws ==
  /\ service # "down" /\ ~MidCommit
  /\ UNCHANGED <<about, service, queue, active, child>>
  /\ \A r \in Requests : Withdrawn(r)
  /\ \A s \in Sessions :
       sessions'[s] = sessions[s] \/ \A r \in Requests : about[r].session = s => status'[r] \notin Rows
  /\ \/ flow' = flow
     \/ flow' = FlowTold /\ active # None /\ status[active] \in Active /\ status'[active] = "cancelled"
  /\ active # None /\ status'[active] # status[active] =>
       status'[active] = "deleted" \/ flow' = FlowTold \/ LumaWaits
  /\ \A c \in Callers : caller'[c].at = "file" => caller'[c] = caller[c]
  /\ \A c \in Callers : caller'[c].at = "luma" =>
       \/ caller'[c] = caller[c]
       \/ /\ LumaWaits /\ flow' = flow /\ active # None
          /\ caller'[c].request = active
          /\ status[active] \in Active /\ status'[active] = "cancelled"

LEMMA CancelledRow ==
  ASSUME StoreOK, NEW rs \in SUBSET Requests, \A r \in rs : status[r] \in Active
  PROVE  /\ CancelledRows(rs) \in [Requests -> Statuses]
         /\ \A r \in Requests : CancelledRows(rs)[r] = IF r \in rs THEN "cancelled" ELSE status[r]
         /\ \A r \in Requests : CancelledRows(rs)[r] \in Rows <=> status[r] \in Rows
BY DEF StoreOK, CancelledRows, Statuses, Rows, Active, Ended

\* The end of a cancel or a delete, whatever other rows it has cancelled.
LEMMA ConcludesStep ==
  ASSUME TypeOK, Rowed, service # "down", ~MidCommit, NEW c \in Callers, NEW h \in Handlers,
         NEW rs \in SUBSET Requests, \A r \in rs : status[r] \in Active, active \notin rs,
         Concludes(c, h, CancelledRows(rs)), UNCHANGED <<about, service, queue, active, flow, child>>
  PROVE  TypeOK' /\ Withdraws
<1> DEFINE rows == CancelledRows(rs)
<1>1. StoreOK /\ RunOK /\ CallersOK
  BY TypeParts
<1>2. /\ rows \in [Requests -> Statuses]
      /\ \A r \in Requests : rows[r] = IF r \in rs THEN "cancelled" ELSE status[r]
      /\ \A r \in Requests : rows[r] \in Rows <=> status[r] \in Rows
  BY <1>1, CancelledRow
<1>3. RunOK'
  BY <1>1 DEF RunOK
<1>4. active # None => active \in Requests
  BY <1>1 DEF RunOK
<1>5. CallersOK' /\ \A d \in Callers : caller'[d].at \in {"luma", "file"} => caller'[d] = caller[d]
  <2>1. CASE caller' = [caller EXCEPT ![c] = Idle]
    BY <1>1, <2>1, IdleHandler DEF CallersOK
  <2>2. CASE caller' = [caller EXCEPT ![c] = [h EXCEPT !.todo = {}, !.at = "join"]]
    <3>1. [h EXCEPT !.todo = {}, !.at = "join"] \in Handlers /\ [h EXCEPT !.todo = {}, !.at = "join"].at = "join"
      BY DEF Handlers
    <3> HIDE DEF rows
    <3> QED
      BY <1>1, <2>2, <3>1 DEF CallersOK
  <2> QED
    BY <2>1, <2>2 DEF Concludes
<1> HIDE DEF rows
<1>6. CASE Erase(h.session, rows)
  <2> DEFINE s == h.session
             gone == {r \in RowsOf(s) : sessions[s] = "live"}
  <2>1. /\ gone \subseteq Requests
        /\ \A r \in gone : status[r] \in Rows /\ about[r].session = s
        /\ \A r \in Requests : status[r] \in Rows /\ about[r].session = s => r \in gone
    BY DEF RowsOf, Rowed
  <2>2. /\ sessions' = [sessions EXCEPT ![s] = "deleted"]
        /\ status' = [r \in Requests |-> IF r \in gone THEN "deleted" ELSE rows[r]]
        /\ messages' = [r \in Requests |-> IF r \in gone THEN {} ELSE messages[r]]
        /\ photos' = photos \ gone
        /\ uploads' = IF sessions[s] = "live" THEN uploads \ {s} ELSE uploads
    BY <1>6 DEF Erase
  <2> HIDE DEF gone
  <2>3. StoreOK'
    <3>1. sessions' \in [Sessions -> {"unborn", "live", "deleted"}] /\ uploads' \subseteq Sessions /\ photos' \subseteq Requests
      BY <1>1, <2>2 DEF StoreOK
    <3>2. messages' \in [Requests -> SUBSET {"user", "assistant"}]
      BY <1>1, <2>2 DEF StoreOK
    <3>3. status' \in [Requests -> Statuses]
      BY <1>2, <2>2 DEF Statuses
    <3>4. \A r \in Requests : status'[r] \in Rows => status[r] \in Rows
      BY <1>2, <2>1, <2>2
    <3> QED
      BY <1>1, <3>1, <3>2, <3>3, <3>4 DEF StoreOK
  <2>4. ASSUME NEW r \in Requests PROVE Withdrawn(r)
    BY <1>2, <2>1, <2>2 DEF Withdrawn
  <2>5. ASSUME NEW t \in Sessions
        PROVE  sessions'[t] = sessions[t] \/ \A r \in Requests : about[r].session = t => status'[r] \notin Rows
    <3>1. CASE t # s
      BY <1>1, <2>2, <3>1 DEF StoreOK
    <3>2. CASE t = s
      <4>1. "deleted" \notin Rows
        BY DEF Rows, Active, Ended
      <4> QED
        BY <1>2, <2>1, <2>2, <3>2, <4>1
    <3> QED
      BY <3>1, <3>2
  <2>6. active # None /\ status'[active] # status[active] => status'[active] = "deleted"
    BY <1>2, <1>4, <2>2
  <2>7. Withdraws
    BY <1>5, <2>4, <2>5, <2>6 DEF Withdraws
  <2> QED
    BY <1>3, <1>5, <2>3, <2>7 DEF TypeOK, StoreOK, RunOK, CallersOK, Statuses
<1>7. CASE status' = rows /\ UNCHANGED <<sessions, messages, photos, uploads>>
  <2>1. StoreOK'
    BY <1>1, <1>2, <1>7 DEF StoreOK
  <2>2. Withdraws
    BY <1>2, <1>4, <1>5, <1>7 DEF Withdraws, Withdrawn
  <2> QED
    BY <1>3, <1>5, <2>1, <2>2 DEF TypeOK, StoreOK, RunOK, CallersOK, Statuses
<1> QED
  BY <1>6, <1>7 DEF Concludes, rows

LEMMA CancelStep ==
  ASSUME TypeOK, Rowed, service # "down", ~MidCommit, NEW c \in Callers, NEW h \in Handlers,
         NEW todo \in SUBSET Requests, CancelEach(c, h, todo),
         UNCHANGED <<about, service, queue, active, child>>
  PROVE  TypeOK' /\ Withdraws
<1> DEFINE asked == {r \in todo : status[r] \in Active}
<1>1. asked \in SUBSET Requests /\ \A r \in asked : status[r] \in Active
  OBVIOUS
<1>2. CASE active \notin asked
  BY <1>1, <1>2, ConcludesStep DEF CancelEach
<1>3. CASE active \in asked
  <2> DEFINE at == IF LumaWaits THEN "luma" ELSE "robot"
  <2>1. /\ flow' = IF LumaWaits THEN flow ELSE FlowTold
        /\ UNCHANGED <<sessions, messages, photos, uploads>>
    BY <1>3 DEF CancelEach
  <2>2. PICK before \in SUBSET (asked \ {active}) :
          /\ status' = CancelledRows(before \cup {active})
          /\ caller' = [caller EXCEPT ![c] =
               [h EXCEPT !.request = active, !.todo = asked \ (before \cup {active}), !.at = at]]
    BY <1>3 DEF CancelEach
  <2> DEFINE rs == before \cup {active}
             left == asked \ rs
             waiting == [h EXCEPT !.request = active, !.todo = left, !.at = at]
  <2>3. rs \in SUBSET Requests /\ (\A r \in rs : status[r] \in Active) /\ active \in rs /\ active \in Requests
    BY <1>1, <1>3
  <2>4. StoreOK /\ RunOK /\ CallersOK
    BY TypeParts
  <2>5. left \in SUBSET Requests /\ at \in {"idle", "luma", "robot", "join", "file"}
    BY <1>1
  <2> HIDE DEF left, at
  <2>6. waiting \in Handlers /\ waiting.request = active /\ waiting.at = at
    BY <2>3, <2>5 DEF Handlers
  <2> HIDE DEF waiting, rs
  <2>7. /\ status' \in [Requests -> Statuses]
        /\ \A r \in Requests : status'[r] = IF r \in rs THEN "cancelled" ELSE status[r]
        /\ \A r \in Requests : status'[r] \in Rows <=> status[r] \in Rows
    BY <2>2, <2>3, <2>4, CancelledRow DEF rs
  <2>8. caller' = [caller EXCEPT ![c] = waiting]
    BY <2>2 DEF waiting, left, rs
  <2>9. CallersOK' /\ \A d \in Callers : caller'[d] = IF d = c THEN waiting ELSE caller[d]
    BY <2>4, <2>6, <2>8 DEF CallersOK
  <2>10. StoreOK'
    BY <2>1, <2>4, <2>7 DEF StoreOK
  <2>11. RunOK'
    BY <2>1, <2>4, Told DEF RunOK
  <2>12. Withdraws
    <3>1. \A r \in Requests : Withdrawn(r)
      BY <2>1, <2>3, <2>7 DEF Withdrawn
    <3>2. active # None /\ status[active] \in Active /\ status'[active] = "cancelled"
      BY <2>3, <2>7, NoneApart
    <3>3. \A d \in Callers : caller'[d].at = "luma" =>
            caller'[d] = caller[d] \/ (LumaWaits /\ caller'[d].request = active)
      BY <2>6, <2>9 DEF at
    <3>4. \A d \in Callers : caller'[d].at = "file" => caller'[d] = caller[d]
      BY <2>6, <2>9 DEF at
    <3> QED
      BY <2>1, <3>1, <3>2, <3>3, <3>4 DEF Withdraws
  <2> QED
    BY <2>9, <2>10, <2>11, <2>12 DEF TypeOK, StoreOK, RunOK, CallersOK, Statuses
<1> QED
  BY <1>2, <1>3

\* The two handlers and the two ways on.
LEMMA WithdrawSteps ==
  ASSUME TypeOK, Rowed,
         \/ \E c \in Callers, r \in Requests : BeginCancel(c, r)
         \/ \E c \in Callers, s \in Sessions : BeginDelete(c, s)
         \/ \E c \in Callers : RobotStopped(c) \/ EndDelete(c)
  PROVE  TypeOK' /\ Withdraws
<1>1. ASSUME NEW c \in Callers, NEW r \in Requests, BeginCancel(c, r) PROVE TypeOK' /\ Withdraws
  <2>1. [Idle EXCEPT !.op = "cancel"] \in Handlers
    BY DEF Idle, Handlers
  <2> QED
    BY <1>1, <2>1, CancelStep DEF BeginCancel
<1>2. ASSUME NEW c \in Callers, NEW s \in Sessions, BeginDelete(c, s) PROVE TypeOK' /\ Withdraws
  <2> DEFINE join == IF active \in RowsOf(s) THEN active ELSE None
             h == [Idle EXCEPT !.op = "delete", !.session = s, !.join = join]
             todo == {r \in RowsOf(s) : status[r] \in Active}
  <2>1. join \in Requests \cup {None} /\ todo \in SUBSET Requests
    BY DEF RowsOf
  <2>2. CancelEach(c, h, todo)
    BY <1>2 DEF BeginDelete
  <2> HIDE DEF join, todo
  <2>3. h \in Handlers
    BY <2>1, OpRecord
  <2> HIDE DEF h
  <2> QED
    BY <1>2, <2>1, <2>2, <2>3, CancelStep DEF BeginDelete
<1>3. ASSUME NEW c \in Callers, RobotStopped(c) PROVE TypeOK' /\ Withdraws
  <2>1. caller[c] \in Handlers /\ caller[c].todo \in SUBSET Requests
    BY DEF TypeOK, Handlers
  <2> QED
    BY <1>3, <2>1, CancelStep DEF RobotStopped, Running
<1>4. ASSUME NEW c \in Callers, EndDelete(c) PROVE TypeOK' /\ Withdraws
  <2>1. caller[c] \in Handlers
    BY DEF TypeOK
  <2>2. CancelledRows({}) = status
    BY DEF CancelledRows, TypeOK
  <2>3. Concludes(c, caller[c], CancelledRows({}))
    BY <1>4, <2>2 DEF EndDelete
  <2> QED
    BY <1>4, <2>1, <2>3, ConcludesStep DEF EndDelete, Running
<1> QED
  BY <1>1, <1>2, <1>3, <1>4

LEMMA WithdrawsKeeps ==
  ASSUME TypeOK, Store, Course, Record, TypeOK', Withdraws
  PROVE  Store' /\ Course' /\ Record'
<1>1. StoreOK /\ RunOK /\ StoreOK' /\ RunOK'
  BY TypeParts DEF TypeOK, StoreOK, RunOK, Statuses
<1>2. /\ about' = about /\ service' = service /\ service # "down" /\ queue' = queue
      /\ active' = active /\ child' = child
      /\ active # None => active \in Requests
      /\ flow.phase # "none" => active \in Requests
      /\ \A r \in Requests : Withdrawn(r)
  BY <1>1 DEF Withdraws, RunOK
<1>3. /\ flow'.phase = flow.phase /\ flow.phase \notin {"saved", "said", "answered", "ready"}
      /\ flow'.cancelled /\ ~flow.cancelled /\ flow.phase \notin {"none", "done"} => status'[active] = "cancelled"
      /\ flow.cancelled => flow'.cancelled
  BY <1>1, Told, FlowRecord DEF Withdraws, MidCommit, FlowTold, Flows, RunOK
<1>4. Rows = {"queued", "capturing", "thinking", "answer_ready", "responding", "completed",
              "completed_with_errors", "failed", "cancelled", "interrupted"}
      /\ Active = {"queued", "capturing", "thinking", "answer_ready", "responding"}
  BY DEF Rows, Active, Ended
<1>5. Rowed /\ Known /\ Listed /\ Distinct /\ Reading /\ FlowShape /\ RowFollows /\ Waiters /\ Paired /\ Written /\ Offered
  BY DEF Store, Course, Record
<1>6. Rowed'
  <2>1. ASSUME NEW r \in Requests, messages'[r] # {} \/ r \in photos' PROVE status'[r] \in Rows
    BY <1>2, <1>4, <1>5, <2>1 DEF Withdrawn, Rowed
  <2>2. ASSUME NEW r \in Requests, status'[r] \in Rows PROVE sessions'[about[r].session] = "live"
    <3>1. status[r] \in Rows /\ sessions[about[r].session] = "live"
      BY <1>2, <1>4, <1>5, <2>2 DEF Withdrawn, Rowed
    <3>2. about[r].session \in Sessions
      BY <1>1, <3>1 DEF StoreOK, Abouts
    <3> QED
      BY <2>2, <3>1, <3>2 DEF Withdraws
  <2> QED
    BY <1>2, <2>1, <2>2 DEF Rowed
<1>7. Known'
  <2>1. \A i \in 1 .. Len(queue) : queue[i] \in Requests
    BY <1>1 DEF RunOK
  <2>2. \A r \in Requests : status[r] # "unborn" => status'[r] # "unborn"
    BY <1>2 DEF Withdrawn
  <2> QED
    BY <1>2, <1>5, <2>1, <2>2 DEF Known
<1>8. Listed'
  <2> SUFFICES ASSUME service = "up", NEW r \in Requests, status'[r] = "queued"
      PROVE  \/ \E i \in 1 .. Len(queue) : queue[i] = r
             \/ active = r /\ flow'.phase = "start" /\ ~flow'.cancelled
    BY <1>2 DEF Listed
  <2>1. status[r] = "queued"
    BY <1>2 DEF Withdrawn
  <2>2. CASE active = r /\ flow.phase = "start" /\ ~flow.cancelled
    BY <1>3, <2>2
  <2> QED
    BY <1>5, <2>1, <2>2 DEF Listed
<1>9. Distinct' /\ Reading'
  BY <1>2, <1>5 DEF Distinct, Reading, Withdraws
<1>10. FlowShape'
  <2>1. Kind' = Kind
    BY <1>2 DEF Kind
  <2>2. flow.cancelled /\ flow.phase \notin {"none", "done"} => GivenUp(active)'
    BY <1>2, <1>3, <1>5 DEF FlowShape, GivenUp, Withdrawn, Active
  <2>3. flow.phase = "none" => ~flow'.cancelled
    BY <1>1, <1>3, <1>5, Told DEF FlowShape, Withdraws
  <2>4. /\ MidCommit' <=> flow'.phase \in {"saved", "said", "answered", "ready"}
        /\ active' = active
    BY <1>2 DEF MidCommit
  <2>5. flow'.cancelled /\ flow.phase \notin {"none", "done"} => GivenUp(active)'
    BY <1>2, <1>3, <2>2 DEF GivenUp
  <2>6. ~MidCommit'
    BY <1>3, <2>4
  <2> QED
    BY <1>3, <1>5, <2>1, <2>3, <2>5, <2>6 DEF FlowShape
<1>11. RowFollows'
  <2> SUFFICES ASSUME ~flow'.cancelled
      PROVE  /\ flow.phase = "start" => status'[active] \in {"queued", "deleted"}
             /\ flow.phase = "spawn" => status'[active] \in {"capturing", "deleted"}
             /\ flow.phase \in {"capture", "timeout"} =>
                  status'[active] \in {"capturing", "cancelled", "deleted"}
             /\ flow.phase = "think" => status'[active] \in {"thinking", "deleted"}
             /\ flow.phase = "respond" => status'[active] \in {"responding", "deleted"}
    BY <1>2, <1>3 DEF RowFollows
  <2>1. ~flow.cancelled
    BY <1>3
  <2>3. CASE flow.phase \in {"capture", "timeout"}
    <3>1. active \in Requests
      BY <1>1, <2>3 DEF RunOK
    <3>2. Withdrawn(active)
      BY <1>2, <3>1
    <3> QED
      BY <1>5, <2>1, <2>3, <3>2 DEF RowFollows, Withdrawn
  <2>2. CASE flow.phase \in {"start", "spawn", "think", "respond"}
    <3>1. active # None
      BY <1>1, <2>2 DEF RunOK
    <3>2. ~LumaWaits
      BY <2>2 DEF LumaWaits
    <3>3. flow' # FlowTold
      BY <1>1, <2>2, Told
    <3>4. status'[active] = status[active] \/ status'[active] = "deleted"
      BY <3>1, <3>2, <3>3 DEF Withdraws
    <3> QED
      BY <1>5, <2>1, <2>2, <3>4 DEF RowFollows
  <2> QED
    BY <2>2, <2>3
<1>12. Waiters'
  <2> SUFFICES ASSUME NEW c \in Callers, caller'[c].at = "luma"
      PROVE  /\ active # None /\ caller'[c].request = active
             /\ \/ /\ flow.phase \in {"capture", "timeout", "terminate"} /\ GivenUp(active)'
                   /\ flow'.cancelled => child[active] # "running"
                \/ flow.phase = "done" /\ child[active] # "running"
    BY <1>2, <1>3 DEF Waiters
  <2>1. CASE caller'[c] = caller[c]
    <3>1. /\ active # None /\ caller[c].request = active
          /\ \/ /\ flow.phase \in {"capture", "timeout", "terminate"} /\ GivenUp(active)
                /\ flow.cancelled => child[active] # "running"
             \/ flow.phase = "done" /\ child[active] # "running"
      BY <1>5, <2>1 DEF Waiters
    <3>2. GivenUp(active) => GivenUp(active)' /\ flow' = flow
      BY <1>2, <1>4, <3>1 DEF GivenUp, Withdrawn, Withdraws
    <3> QED
      BY <2>1, <3>1, <3>2
  <2>2. CASE LumaWaits /\ flow' = flow /\ active # None /\ caller'[c].request = active
             /\ status[active] \in Active /\ status'[active] = "cancelled"
    <3>1. ~GivenUp(active)
      BY <1>4, <2>2 DEF GivenUp
    <3> QED
      BY <1>2, <1>5, <2>2, <3>1 DEF LumaWaits, FlowShape, GivenUp
  <2> QED
    BY <2>1, <2>2 DEF Withdraws
<1>13. Paired'
  <2> SUFFICES ASSUME NEW r \in Requests
      PROVE  \/ messages'[r] \in {{}, Both}
             \/ messages'[r] = {"user"} /\ status'[r] = "interrupted"
    BY DEF Paired
  <2>1. \/ messages[r] \in {{}, Both}
        \/ messages[r] = {"user"} /\ status[r] = "interrupted"
    BY <1>2, <1>3, <1>5 DEF Paired
  <2> QED
    BY <1>2, <1>4, <2>1 DEF Withdrawn
<1>14. Written'
  <2>1. ASSUME NEW r \in Requests, status'[r] = "queued" PROVE messages'[r] = {}
    BY <1>2, <1>5, <2>1 DEF Withdrawn, Written
  <2>2. active # None => messages'[active] \in {messages[active], {}}
    BY <1>2 DEF Withdrawn
  <2>3. flow.phase # "none" => active # None
    BY <1>1 DEF RunOK
  <2> QED
    BY <1>2, <1>3, <1>5, <2>1, <2>2, <2>3 DEF Written
<1>15. Offered'
  <2> SUFFICES ASSUME NEW r \in Requests,
        status'[r] \in {"answer_ready", "responding", "completed", "completed_with_errors"}
      PROVE  IF about[r].kind = "message" THEN messages'[r] = Both ELSE r \in photos'
    BY <1>2 DEF Offered
  <2> QED
    BY <1>2, <1>5 DEF Offered, Withdrawn
<1> QED
  BY <1>6, <1>7, <1>8, <1>9, <1>10, <1>11, <1>12, <1>13, <1>14, <1>15 DEF Store, Course, Record

-----------------------------------------------------------------------------
(* The other steps.                                                        *)

Kept == TypeOK' /\ Store' /\ Course' /\ Record'

\* Steps that touch no row, and whom a photo process has ended for.
Aside ==
  /\ UNCHANGED <<status, about, messages, photos, service, queue, active, flow>>
  /\ \A s \in Sessions : sessions'[s] \in {sessions[s], "live"}
  /\ \A r \in Requests : child'[r] = "running" => child[r] = "running"
  /\ \A c \in Callers : caller'[c].at = "luma" => caller'[c] = caller[c]
  /\ \A c \in Callers : caller'[c].at = "file" => caller'[c].session \in Sessions

LEMMA AsideKeeps ==
  ASSUME TypeOK, Store, Course, Record, TypeOK', Aside
  PROVE  Store' /\ Course' /\ Record'
<1>1. StoreOK /\ RunOK
  BY TypeParts
<1>2. Rowed'
  <2>1. ASSUME NEW r \in Requests, status[r] \in Rows PROVE sessions'[about[r].session] = "live"
    <3>1. about[r].session \in Sessions
      BY <1>1, <2>1 DEF StoreOK, Abouts
    <3> QED
      BY <2>1, <3>1 DEF Aside, Store, Rowed
  <2> QED
    BY <2>1 DEF Aside, Store, Rowed
<1>3. Known' /\ Listed' /\ Distinct' /\ Reading'
  BY DEF Aside, Store, Known, Listed, Distinct, Reading
<1>4. FlowShape' /\ RowFollows'
  BY DEF Aside, Course, FlowShape, RowFollows, Kind, MidCommit, Live, GivenUp
<1>5. Waiters'
  <2> SUFFICES ASSUME NEW c \in Callers, caller'[c].at = "luma"
      PROVE  /\ active # None /\ caller'[c].request = active
             /\ \/ /\ flow.phase \in {"capture", "timeout", "terminate"} /\ GivenUp(active)
                   /\ flow.cancelled => child'[active] # "running"
                \/ flow.phase = "done" /\ child'[active] # "running"
    BY DEF Aside, Waiters, GivenUp
  <2>1. caller'[c] = caller[c]
    BY DEF Aside
  <2>2. active # None => active \in Requests
    BY <1>1 DEF RunOK
  <2>3. active # None /\ child[active] # "running" => child'[active] # "running"
    BY <2>2 DEF Aside
  <2> QED
    BY <2>1, <2>3 DEF Course, Waiters
<1>6. Paired' /\ Written' /\ Offered'
  BY DEF Aside, Record, Paired, Written, Offered
<1> QED
  BY <1>2, <1>3, <1>4, <1>5, <1>6 DEF Store, Course, Record

LEMMA AsideSteps ==
  ASSUME TypeOK, Reading,
         \/ \E s \in Sessions : CreateSession(s)
         \/ \E c \in Callers, s \in Sessions : BeginUpload(c, s)
         \/ \E c \in Callers : EndUpload(c)
         \/ Photo
         \/ UNCHANGED vars
  PROVE  TypeOK' /\ Aside
<1>t. StoreOK /\ RunOK /\ CallersOK
  BY TypeParts
<1>p. StoreOK' /\ RunOK' /\ CallersOK' => TypeOK'
  BY DEF TypeOK, StoreOK, RunOK, CallersOK, Statuses
<1>1. ASSUME NEW s \in Sessions, CreateSession(s) PROVE TypeOK' /\ Aside
  <2>1. Aside
    BY <1>1, <1>t DEF CreateSession, Aside, StoreOK, Reading
  <2>2. StoreOK' /\ RunOK' /\ CallersOK'
    BY <1>1, <1>t DEF CreateSession, StoreOK, RunOK, CallersOK
  <2> QED
    BY <1>p, <2>1, <2>2
<1>2. ASSUME NEW c \in Callers, NEW s \in Sessions, BeginUpload(c, s) PROVE TypeOK' /\ Aside
  <2> DEFINE h == [Idle EXCEPT !.op = "upload", !.session = s, !.at = "file"]
  <2>1. h \in Handlers /\ h.at = "file" /\ h.session = s
    BY UploadRecord
  <2>2. caller' = [caller EXCEPT ![c] = h]
    BY <1>2 DEF BeginUpload
  <2> HIDE DEF h
  <2>3. /\ CallersOK'
        /\ \A d \in Callers : /\ caller'[d].at = "luma" => caller'[d] = caller[d]
                              /\ caller'[d].at = "file" => caller'[d].session \in Sessions
    BY <1>t, <2>1, <2>2 DEF CallersOK, Reading
  <2>4. StoreOK' /\ RunOK'
    BY <1>2, <1>t DEF BeginUpload, storeVars, StoreOK, RunOK
  <2>6. UNCHANGED <<sessions, status, about, messages, photos, service, queue, active, flow, child>>
    BY <1>2 DEF BeginUpload, storeVars
  <2>7. /\ \A d \in Callers : caller'[d].at = "luma" => caller'[d] = caller[d]
        /\ \A d \in Callers : caller'[d].at = "file" => caller'[d].session \in Sessions
    BY <2>3
  <2>5. Aside
    BY <2>6, <2>7 DEF Aside
  <2> QED
    BY <1>p, <2>3, <2>4, <2>5
<1>3. ASSUME NEW c \in Callers, EndUpload(c) PROVE TypeOK' /\ Aside
  <2>1. /\ CallersOK'
        /\ \A d \in Callers : /\ caller'[d].at = "luma" => caller'[d] = caller[d]
                              /\ caller'[d].at = "file" => caller'[d].session \in Sessions
    BY <1>3, <1>t, IdleHandler DEF EndUpload, CallersOK, Reading
  <2>5. UNCHANGED <<sessions, status, about, messages, photos, service, queue, active, flow, child>>
    BY <1>3 DEF EndUpload
  <2>6. /\ \A d \in Callers : caller'[d].at = "luma" => caller'[d] = caller[d]
        /\ \A d \in Callers : caller'[d].at = "file" => caller'[d].session \in Sessions
    BY <2>1
  <2>2. RunOK' /\ Aside
    BY <1>t, <2>5, <2>6 DEF RunOK, Aside
  <2>3. uploads' \subseteq Sessions
    <3>1. caller[c].session \in Sessions
      BY <1>3 DEF EndUpload, Reading
    <3> QED
      BY <1>3, <1>t, <3>1 DEF EndUpload, StoreOK
  <2>4. StoreOK'
    BY <1>3, <1>t, <2>3 DEF EndUpload, StoreOK
  <2> QED
    BY <1>p, <2>1, <2>2, <2>4
<1>4. ASSUME Photo PROVE TypeOK' /\ Aside
  <2>1. PICK r \in Requests, how \in {"ok", "bad"} : PhotoExits(r, how)
    BY <1>4 DEF Photo
  <2>2. StoreOK' /\ RunOK' /\ CallersOK'
    BY <2>1, <1>t DEF PhotoExits, storeVars, StoreOK, RunOK, CallersOK
  <2>3. Aside
    BY <2>1, <1>t DEF PhotoExits, storeVars, Aside, RunOK, Reading
  <2> QED
    BY <1>p, <2>2, <2>3
<1>5. ASSUME UNCHANGED vars PROVE TypeOK' /\ Aside
  <2>1. StoreOK' /\ RunOK' /\ CallersOK'
    BY <1>5, <1>t DEF vars, storeVars, StoreOK, RunOK, CallersOK
  <2> QED
    BY <1>5, <1>p, <2>1 DEF vars, storeVars, Aside, Reading
<1> QED
  BY <1>1, <1>2, <1>3, <1>4, <1>5

LEMMA SubmitKeeps ==
  ASSUME TypeOK, Store, Course, Record,
         NEW r \in Requests, NEW s \in Sessions, NEW c \in Clients, NEW k \in Kinds, Submit(r, s, c, k)
  PROVE  Kept
<1>t. StoreOK /\ RunOK /\ CallersOK
  BY TypeParts
<1> DEFINE n == Len(queue)
<1>1. /\ status' = [status EXCEPT ![r] = "queued"] /\ status[r] = "unborn"
      /\ about' = [about EXCEPT ![r] = [session |-> s, client |-> c, kind |-> k]]
      /\ queue' = Append(queue, r)
      /\ sessions[s] = "live" /\ service = "up"
      /\ UNCHANGED <<sessions, messages, photos, uploads, service, active, flow, child, caller>>
  BY DEF Submit, Enqueue
<1>2. /\ n \in Nat /\ queue' \in Seq(Requests) /\ Len(queue') = n + 1
      /\ \A i \in 1 .. n : queue'[i] = queue[i] /\ queue[i] \in Requests /\ queue[i] # r
      /\ queue'[n + 1] = r
  BY <1>t, <1>1 DEF RunOK, Store, Known
<1>3. /\ active # r
      /\ status'[r] = "queued" /\ \A q \in Requests \ {r} : status'[q] = status[q]
      /\ about'[r] = [session |-> s, client |-> c, kind |-> k]
      /\ \A q \in Requests \ {r} : about'[q] = about[q]
      /\ messages[r] = {} /\ r \notin photos
      /\ active # None => active \in Requests
  <2>1. messages[r] = {} /\ r \notin photos
    BY <1>1 DEF Store, Rowed, Rows, Active, Ended
  <2>2. active # r /\ (active # None => active \in Requests)
    BY <1>t, <1>1, NoneApart DEF Store, Known, RunOK
  <2> QED
    BY <1>t, <1>1, <2>1, <2>2 DEF StoreOK
<1>4. TypeOK'
  <2>1. [session |-> s, client |-> c, kind |-> k] \in Abouts
    BY DEF Abouts
  <2>2. StoreOK'
    BY <1>t, <1>1, <1>3, <2>1 DEF StoreOK, Statuses, Rows, Active
  <2>3. RunOK'
    BY <1>t, <1>1, <1>2 DEF RunOK
  <2> QED
    BY <1>t, <1>1, <2>2, <2>3 DEF TypeOK, StoreOK, RunOK, CallersOK, Statuses
<1> HIDE DEF n
<1>5. Rowed'
  BY <1>1, <1>3 DEF Store, Rowed, Rows, Active
<1>6. Known'
  <2>1. \A i \in 1 .. n + 1 : status'[queue'[i]] # "unborn"
    <3> TAKE i \in 1 .. n + 1
    <3>1. i \in 1 .. n \/ i = n + 1
      BY <1>2
    <3> QED
      BY <1>2, <1>3, <3>1 DEF Store, Known, n
  <2> QED
    BY <1>1, <1>2, <1>3, <2>1 DEF Store, Known
<1>7. Listed'
  <2> SUFFICES ASSUME NEW q \in Requests, status'[q] = "queued"
      PROVE  \/ \E i \in 1 .. n + 1 : queue'[i] = q
             \/ active = q /\ flow.phase = "start" /\ ~flow.cancelled
    BY <1>1, <1>2 DEF Listed
  <2>1. CASE q = r
    <3>1. n + 1 \in 1 .. n + 1
      BY <1>2
    <3> QED
      BY <1>2, <2>1, <3>1
  <2>2. CASE q # r /\ \E i \in 1 .. n : queue[i] = q
    BY <1>2, <2>2
  <2> QED
    BY <1>1, <1>3, <2>1, <2>2 DEF Store, Listed, n
<1>11. Reading'
  BY <1>1 DEF Store, Reading
<1>8. Distinct'
  <2> SUFFICES ASSUME NEW i \in 1 .. n + 1, NEW j \in 1 .. n + 1, queue'[i] = queue'[j]
      PROVE  i = j /\ queue'[i] # active
    BY <1>1, <1>2 DEF Distinct
  <2>1. (i \in 1 .. n \/ i = n + 1) /\ (j \in 1 .. n \/ j = n + 1)
    BY <1>2
  <2> QED
    BY <1>2, <1>3, <2>1 DEF Store, Distinct, n
<1>9. Course'
  <2>1. flow.phase # "none" => active \in Requests
    BY <1>t DEF RunOK
  <2>2. /\ active \in Requests => Kind' = Kind /\ status'[active] = status[active]
        /\ active' = active /\ flow' = flow /\ child' = child /\ caller' = caller
    BY <1>1, <1>3 DEF Kind
  <2>3. FlowShape'
    BY <2>1, <2>2 DEF Course, FlowShape, MidCommit, Live, GivenUp
  <2>4. RowFollows'
    BY <2>1, <2>2 DEF Course, RowFollows
  <2>5. Waiters'
    BY <1>3, <2>2 DEF Course, Waiters, GivenUp
  <2> QED
    BY <2>3, <2>4, <2>5 DEF Course
<1>10. Record'
  <2>1. Paired'
    BY <1>1, <1>3 DEF Record, Paired
  <2>2. Written'
    BY <1>1, <1>3 DEF Record, Written
  <2>3. Offered'
    BY <1>1, <1>3 DEF Record, Offered
  <2> QED
    BY <2>1, <2>2, <2>3 DEF Record
<1> QED
  BY <1>4, <1>5, <1>6, <1>7, <1>8, <1>9, <1>10, <1>11 DEF Kept, Store

\* The photo process has ended for all who waited for it.
LEMMA LumaCancelledKeeps ==
  ASSUME TypeOK, Store, Course, Record, NEW c \in Callers, LumaCancelled(c)
  PROVE  Kept
<1>t. StoreOK /\ RunOK /\ CallersOK
  BY TypeParts
<1>1. /\ service # "down" /\ ~MidCommit /\ caller[c].at = "luma" /\ child[caller[c].request] # "running"
      /\ flow' = FlowTold /\ caller' = [caller EXCEPT ![c].at = "robot"]
      /\ UNCHANGED <<sessions, status, about, messages, photos, uploads>>
      /\ UNCHANGED <<service, queue, active, child>>
  BY DEF LumaCancelled, Running, storeVars
<1>2. /\ active \in Requests /\ active # None /\ child[active] # "running"
      /\ \/ flow.phase \in {"capture", "timeout", "terminate"} /\ GivenUp(active)
         \/ flow.phase = "done"
  <2>1. active # None /\ caller[c].request = active
    BY <1>1 DEF Course, Waiters
  <2> QED
    BY <1>t, <1>1, <2>1 DEF Course, Waiters, RunOK
<1>3. /\ flow' \in Flows /\ flow'.phase = flow.phase
      /\ flow.phase \in {"capture", "timeout", "terminate"} => flow'.cancelled
      /\ flow.phase = "done" => flow' = flow
  BY <1>t, <1>1, <1>2, Told
<1>4. /\ CallersOK'
      /\ \A d \in Callers : caller'[d].at = "luma" => caller'[d] = caller[d]
      /\ \A d \in Callers : caller'[d].at = "file" => caller'[d] = caller[d]
  BY <1>t, <1>1 DEF CallersOK, Handlers
<1>5. TypeOK'
  <2>1. StoreOK'
    BY <1>t, <1>1 DEF StoreOK
  <2>2. RunOK'
    BY <1>t, <1>1, <1>3 DEF RunOK
  <2> QED
    BY <1>4, <2>1, <2>2 DEF TypeOK, StoreOK, RunOK, CallersOK, Statuses
<1>6. Rowed' /\ Known' /\ Distinct'
  BY <1>1 DEF Store, Rowed, Known, Distinct
<1>7. Listed' /\ Reading'
  BY <1>1, <1>2, <1>4 DEF Store, Listed, Reading
<1>8. FlowShape' /\ RowFollows'
  BY <1>1, <1>2, <1>3 DEF Course, FlowShape, RowFollows, Kind, MidCommit, Live, GivenUp
<1>9. Waiters'
  <2> SUFFICES ASSUME NEW d \in Callers, caller'[d].at = "luma"
      PROVE  /\ active # None /\ caller'[d].request = active
             /\ \/ /\ flow.phase \in {"capture", "timeout", "terminate"} /\ GivenUp(active)
                   /\ flow'.cancelled => child[active] # "running"
                \/ flow.phase = "done" /\ child[active] # "running"
    BY <1>1, <1>3 DEF Waiters, GivenUp
  <2>1. caller'[d] = caller[d]
    BY <1>4
  <2> QED
    BY <1>2, <2>1 DEF Course, Waiters
<1>10. Record'
  BY <1>1, <1>3 DEF Record, Paired, Written, Offered
<1> QED
  BY <1>5, <1>6, <1>7, <1>8, <1>9, <1>10 DEF Kept, Store, Course

-----------------------------------------------------------------------------
(* Steps of the runner and of the process.                                 *)

\* What SubSeq leaves of the queue.
LEMMA RestOfQueue ==
  ASSUME queue \in Seq(Requests), NEW i \in 1 .. Len(queue)
  PROVE  LET rest == SubSeq(queue, i + 1, Len(queue)) IN
         /\ rest \in Seq(Requests) /\ Len(rest) = Len(queue) - i
         /\ \A j \in 1 .. Len(rest) : j + i \in 1 .. Len(queue) /\ rest[j] = queue[j + i]
         /\ \A k \in 1 .. Len(queue) : k > i => k - i \in 1 .. Len(rest)
<1> DEFINE n    == Len(queue)
           rest == SubSeq(queue, i + 1, n)
<1>1. n \in Nat /\ i \in Nat /\ 1 <= i /\ i <= n
  OBVIOUS
<1>2. rest \in Seq(Requests) /\ Len(rest) = n - i
  BY <1>1
<1>3. ASSUME NEW j \in 1 .. Len(rest) PROVE j + i \in 1 .. n /\ rest[j] = queue[j + i]
  <2>1. j \in 1 .. n - i /\ j + i \in 1 .. n
    BY <1>1, <1>2
  <2>2. rest[j] = queue[(i + 1) + j - 1]
    BY <1>1, <1>2, <2>1
  <2>3. (i + 1) + j - 1 = j + i
    BY <1>1, <2>1
  <2> QED
    BY <2>1, <2>2, <2>3
<1>4. ASSUME NEW k \in 1 .. n, k > i PROVE k - i \in 1 .. Len(rest)
  BY <1>1, <1>2, <1>4
<1> QED
  BY <1>2, <1>3, <1>4

\* The runner, and what it finds on the queue when no flow runs.
LEMMA AdvancesKeeps ==
  ASSUME TypeOK, Store, Course, Record, service # "down", flow.phase \in {"none", "done"},
         \A c \in Callers : caller[c].at # "luma", RunnerAdvances,
         UNCHANGED <<storeVars, service, child, caller>>
  PROVE  Kept
<1>t. StoreOK /\ RunOK /\ CallersOK
  BY TypeParts
<1> DEFINE wanted == {i \in 1 .. Len(queue) : status[queue[i]] = "queued"}
<1>1. /\ UNCHANGED <<sessions, status, about, messages, photos, uploads>>
      /\ UNCHANGED <<service, child, caller>>
  BY DEF storeVars
<1>2. CASE wanted = {} /\ queue' = <<>> /\ active' = None /\ flow' = NoFlow
  <2>1. /\ flow' \in Flows /\ flow'.phase = "none" /\ ~flow'.cancelled
        /\ queue' \in Seq(Requests) /\ Len(queue') = 0
    BY <1>2, NewFlow
  <2>2. TypeOK'
    <3>1. StoreOK' /\ CallersOK'
      BY <1>t, <1>1 DEF StoreOK, CallersOK
    <3>2. RunOK'
      BY <1>t, <1>1, <1>2, <2>1 DEF RunOK
    <3> QED
      BY <3>1, <3>2 DEF TypeOK, StoreOK, RunOK, CallersOK, Statuses
  <2>3. Listed'
    BY <1>1, <1>2 DEF Store, Listed
  <2>4. Rowed' /\ Known' /\ Distinct' /\ Reading'
    BY <1>1, <1>2, <2>1 DEF Store, Rowed, Known, Distinct, Reading
  <2>5. FlowShape' /\ RowFollows'
    BY <2>1 DEF FlowShape, RowFollows, MidCommit
  <2>6. Waiters'
    BY <1>1 DEF Waiters
  <2>7. Record'
    BY <1>1, <1>2, <2>1 DEF Record, Paired, Written, Offered
  <2> QED
    BY <2>2, <2>3, <2>4, <2>5, <2>6, <2>7 DEF Kept, Store, Course
<1>3. ASSUME NEW i \in wanted, \A j \in wanted : i <= j,
             queue' = SubSeq(queue, i + 1, Len(queue)), active' = queue[i],
             flow' = [phase |-> "start", cancelled |-> FALSE]
      PROVE  Kept
  <2>1. /\ flow' \in Flows /\ flow'.phase = "start" /\ flow'.cancelled = FALSE
    BY <1>3, NewFlow
  <2>2. /\ queue' \in Seq(Requests) /\ Len(queue') = Len(queue) - i
        /\ \A j \in 1 .. Len(queue') : j + i \in 1 .. Len(queue) /\ queue'[j] = queue[j + i]
        /\ \A k \in 1 .. Len(queue) : k > i => k - i \in 1 .. Len(queue')
    BY <1>t, <1>3, RestOfQueue DEF RunOK
  <2>3. /\ i \in 1 .. Len(queue) /\ active' \in Requests /\ active' # None
        /\ Len(queue) \in Nat /\ i \in Nat /\ status[active'] = "queued"
    BY <1>t, <1>3, NoneApart DEF RunOK
  <2>4. TypeOK'
    <3>1. StoreOK' /\ CallersOK'
      BY <1>t, <1>1 DEF StoreOK, CallersOK
    <3>2. RunOK'
      BY <1>t, <1>1, <2>1, <2>2, <2>3 DEF RunOK
    <3> QED
      BY <3>1, <3>2 DEF TypeOK, StoreOK, RunOK, CallersOK, Statuses
  <2>5. Listed'
    <3> SUFFICES ASSUME service = "up", NEW r \in Requests, status[r] = "queued"
        PROVE  (\E j \in 1 .. Len(queue') : queue'[j] = r) \/ active' = r
      BY <1>1, <2>1 DEF Listed
    <3>1. PICK k \in 1 .. Len(queue) : queue[k] = r
      BY DEF Store, Listed
    <3>2. k \in wanted /\ i <= k /\ k \in Nat
      BY <1>3, <3>1
    <3>3. CASE k = i
      BY <1>3, <3>1, <3>3
    <3>4. CASE k > i
      <4>1. k - i \in 1 .. Len(queue') /\ (k - i) + i = k
        BY <2>2, <2>3, <3>2, <3>4
      <4> QED
        BY <2>2, <3>1, <4>1
    <3> QED
      BY <2>3, <3>2, <3>3, <3>4
  <2>6. Distinct'
    <3> SUFFICES ASSUME NEW j \in 1 .. Len(queue'), NEW k \in 1 .. Len(queue'), queue'[j] = queue'[k]
        PROVE  j = k /\ queue'[j] # active'
      BY DEF Distinct
    <3>1. /\ j + i \in 1 .. Len(queue) /\ k + i \in 1 .. Len(queue)
          /\ queue[j + i] = queue[k + i] /\ queue'[j] = queue[j + i]
      BY <2>2
    <3>2. j + i = k + i /\ (queue[j + i] = queue[i] => j + i = i)
      BY <2>3, <3>1 DEF Store, Distinct
    <3>3. j \in Nat /\ k \in Nat /\ j > 0
      BY <2>2, <2>3
    <3> QED
      BY <1>3, <2>3, <3>1, <3>2, <3>3
  <2>7. Known'
    BY <1>1, <2>2, <2>3 DEF Store, Known
  <2>8. Rowed' /\ Reading'
    BY <1>1 DEF Store, Rowed, Reading
  <2>9. FlowShape' /\ RowFollows'
    BY <1>1, <2>1, <2>3 DEF FlowShape, RowFollows, MidCommit
  <2>10. Waiters'
    BY <1>1 DEF Waiters
  <2>11. Record'
    <3>1. messages[active'] = {}
      BY <2>3 DEF Record, Written
    <3>2. Paired'
      BY <1>1 DEF Record, Paired
    <3>3. Written'
      BY <1>1, <2>1, <3>1 DEF Record, Written
    <3>4. Offered'
      BY <1>1 DEF Record, Offered
    <3> QED
      BY <3>2, <3>3, <3>4 DEF Record
  <2> QED
    BY <2>4, <2>5, <2>6, <2>7, <2>8, <2>9, <2>10, <2>11 DEF Kept, Store, Course
<1> QED
  BY <1>2, <1>3 DEF RunnerAdvances, NothingActive

LEMMA RunnerKeeps ==
  ASSUME TypeOK, Store, Course, Record, Runner
  PROVE  Kept
<1>t. RunOK
  BY TypeParts
<1>1. CASE RunnerTakes
  <2>1. /\ service # "down" /\ active = None /\ RunnerAdvances
        /\ UNCHANGED <<storeVars, service, child, caller>>
    BY <1>1 DEF RunnerTakes, Running
  <2>2. flow.phase = "none" /\ \A c \in Callers : caller[c].at # "luma"
    BY <1>t, <2>1 DEF RunOK, Course, Waiters
  <2> QED
    BY <2>1, <2>2, AdvancesKeeps
<1>2. CASE RunnerCollects
  <2>1. /\ service # "down" /\ flow.phase = "done" /\ HandlersFirst /\ RunnerAdvances
        /\ UNCHANGED <<storeVars, service, child, caller>>
    BY <1>2 DEF RunnerCollects, Running
  <2>2. \A c \in Callers : caller[c].at # "luma"
    BY <2>1 DEF Course, Waiters, HandlersFirst
  <2> QED
    BY <2>1, <2>2, AdvancesKeeps
<1> QED
  BY <1>1, <1>2 DEF Runner

\* interrupt_unfinished: whatever had not ended is interrupted.
LEMMA InterruptedRows ==
  ASSUME StoreOK, status' = Interrupted
  PROVE  /\ status' \in [Requests -> Statuses]
         /\ \A r \in Requests :
              /\ status'[r] = IF status[r] \in Active THEN "interrupted" ELSE status[r]
              /\ status'[r] \notin Active
              /\ status'[r] \in Rows <=> status[r] \in Rows
              /\ status[r] # "unborn" <=> status'[r] # "unborn"
BY DEF StoreOK, Interrupted, Statuses, Rows, Active, Ended

\* What the end of the queue and the start have in common: every row that had
\* not ended is interrupted, and the flow, if any, is told.
LEMMA InterruptKeeps ==
  ASSUME TypeOK, Store, Course, Record, ~MidCommit, \A c \in Callers : caller[c].at # "luma",
         status' = Interrupted, flow' = FlowTold, service' \in {"up", "stopping"},
         UNCHANGED <<sessions, about, messages, photos, uploads, queue, active, child, caller>>
  PROVE  Kept
<1>t. StoreOK /\ RunOK /\ CallersOK
  BY TypeParts
<1>1. /\ status' \in [Requests -> Statuses]
      /\ \A r \in Requests :
           /\ status'[r] = IF status[r] \in Active THEN "interrupted" ELSE status[r]
           /\ status'[r] \notin Active
           /\ status'[r] \in Rows <=> status[r] \in Rows
           /\ status[r] # "unborn" <=> status'[r] # "unborn"
  BY <1>t, InterruptedRows
<1>2. Active = {"queued", "capturing", "thinking", "answer_ready", "responding"}
  BY DEF Active
<1>3. /\ flow' \in Flows /\ flow'.phase = flow.phase
      /\ flow.phase \notin {"none", "done"} => flow'.cancelled
      /\ flow.phase \in {"none", "done"} => flow' = flow
  BY <1>t, Told
<1>4. /\ active # None => active \in Requests
      /\ flow.phase # "none" => active # None
  BY <1>t DEF RunOK
<1>5. TypeOK'
  <2>1. StoreOK'
    BY <1>t, <1>1 DEF StoreOK
  <2>2. RunOK' /\ CallersOK'
    BY <1>t, <1>3 DEF RunOK, CallersOK
  <2> QED
    BY <2>1, <2>2 DEF TypeOK, StoreOK, RunOK, CallersOK, Statuses
<1>6. Rowed' /\ Distinct' /\ Reading'
  BY <1>1 DEF Store, Rowed, Distinct, Reading
<1>7. Known'
  <2>1. \A i \in 1 .. Len(queue) : queue[i] \in Requests
    BY <1>t DEF RunOK
  <2> QED
    BY <1>1, <1>4, <2>1 DEF Store, Known
<1>8. Listed'
  BY <1>1, <1>2 DEF Listed
<1>9. flow'.cancelled /\ flow.phase # "done" => status'[active] \in {"deleted", "cancelled", "interrupted"}
  <2>1. CASE flow.cancelled
    <3>1. flow.phase # "none"
      BY <2>1 DEF Course, FlowShape
    <3> QED
      BY <1>1, <1>2, <1>4, <2>1, <3>1 DEF Course, FlowShape, GivenUp
  <2>2. CASE ~flow.cancelled /\ flow.phase \notin {"none", "done"}
    <3>1. flow.phase \in {"start", "spawn", "capture", "timeout", "think", "respond"}
      BY <1>t, <2>2 DEF RunOK, Flows, Phases, MidCommit, Course, FlowShape
    <3>2. status[active] \in {"queued", "capturing", "thinking", "responding", "cancelled", "deleted"}
      BY <2>2, <3>1 DEF Course, RowFollows
    <3> QED
      BY <1>1, <1>2, <1>4, <2>2, <3>2
  <2>3. CASE ~flow.cancelled /\ flow.phase \in {"none", "done"}
    BY <1>3, <2>3
  <2> QED
    BY <2>1, <2>2, <2>3
<1>10. FlowShape'
  BY <1>3, <1>9 DEF Course, FlowShape, MidCommit, Kind, GivenUp
<1>11. RowFollows'
  BY <1>3 DEF RowFollows
<1>12. Waiters'
  BY DEF Waiters
<1>13. Paired'
  <2> SUFFICES ASSUME NEW r \in Requests
      PROVE  messages[r] \in {{}, Both} \/ (messages[r] = {"user"} /\ status'[r] = "interrupted")
    BY DEF Paired
  <2> QED
    BY <1>1, <1>2 DEF Record, Paired
<1>14. Written' /\ Offered'
  BY <1>1, <1>2, <1>3, <1>4 DEF Record, Written, Offered
<1> QED
  BY <1>5, <1>6, <1>7, <1>8, <1>10, <1>11, <1>12, <1>13, <1>14 DEF Kept, Store, Course, Record

LEMMA ProcessKeeps ==
  ASSUME TypeOK, Store, Course, Record, Process
  PROVE  Kept
<1>t. StoreOK /\ RunOK /\ CallersOK
  BY TypeParts
<1>1. CASE Start
  <2>1. /\ service = "down" /\ service' = "up" /\ status' = Interrupted /\ flow' = flow
        /\ UNCHANGED <<sessions, about, messages, photos, uploads, queue, active, child, caller>>
    BY <1>1 DEF Start, Reconciled
  <2>2. flow.phase = "none" /\ ~MidCommit /\ flow' = FlowTold
    BY <1>t, <2>1 DEF Store, Known, RunOK, MidCommit, FlowTold
  <2>3. \A c \in Callers : caller[c].at # "luma"
    BY <2>1 DEF Store, Known, Course, Waiters
  <2> QED
    BY <2>1, <2>2, <2>3, InterruptKeeps
<1>2. CASE BeginStop
  <2>1. /\ ~MidCommit /\ service' = "stopping" /\ status' = Interrupted /\ flow' = FlowTold
        /\ UNCHANGED <<sessions, about, messages, photos, uploads, queue, active, child, caller>>
    BY <1>2 DEF BeginStop
  <2>2. \A c \in Callers : caller[c].at # "luma"
    BY <1>2, IdleHandler DEF BeginStop
  <2> QED
    BY <2>1, <2>2, InterruptKeeps
<1>3. CASE EndStop
  <2>1. /\ active = None /\ queue = <<>> /\ service' = "down"
        /\ UNCHANGED <<sessions, status, about, messages, photos, uploads>>
        /\ UNCHANGED <<queue, active, flow, child, caller>>
    BY <1>3 DEF EndStop, storeVars
  <2>2. TypeOK'
    BY <1>t, <2>1 DEF TypeOK, StoreOK, RunOK, CallersOK, Statuses
  <2>3. Store'
    BY <2>1 DEF Store, Rowed, Known, Listed, Distinct, Reading
  <2>4. Course'
    BY <2>1 DEF Course, FlowShape, RowFollows, Waiters, Kind, MidCommit, Live, GivenUp
  <2>5. Record'
    BY <2>1 DEF Record, Paired, Written, Offered
  <2> QED
    BY <2>2, <2>3, <2>4, <2>5 DEF Kept
<1>4. CASE Crash
  <2>1. /\ service' = "down" /\ queue' = <<>> /\ active' = None /\ flow' = NoFlow
        /\ UNCHANGED <<sessions, status, about, messages, photos, uploads>>
        /\ child' = [r \in Requests |-> "none"] /\ caller' = [c \in Callers |-> Idle]
    BY <1>4 DEF Crash, storeVars
  <2>2. /\ flow' \in Flows /\ flow'.phase = "none" /\ ~flow'.cancelled
        /\ queue' \in Seq(Requests) /\ Len(queue') = 0
        /\ \A c \in Callers : caller'[c] = Idle /\ caller'[c].at = "idle"
    BY <2>1, NewFlow, IdleHandler
  <2>3. TypeOK'
    <3>1. StoreOK'
      BY <1>t, <2>1 DEF StoreOK
    <3>2. RunOK'
      BY <1>t, <2>1, <2>2 DEF RunOK
    <3>3. CallersOK'
      BY <2>1, IdleHandler DEF CallersOK
    <3> QED
      BY <3>1, <3>2, <3>3 DEF TypeOK, StoreOK, RunOK, CallersOK, Statuses
  <2>4. Store'
    BY <2>1, <2>2 DEF Store, Rowed, Known, Listed, Distinct, Reading
  <2>5. Course'
    BY <2>1, <2>2 DEF Course, FlowShape, RowFollows, Waiters, MidCommit
  <2>6. Record'
    BY <2>1, <2>2 DEF Record, Paired, Written, Offered
  <2> QED
    BY <2>3, <2>4, <2>5, <2>6 DEF Kept
<1> QED
  BY <1>1, <1>2, <1>3, <1>4 DEF Process

-----------------------------------------------------------------------------
(* The whole bridge.                                                       *)

\* A bridge that never ran.
LEMMA InitOrderly == Init => Orderly
<1> SUFFICES ASSUME Init
    PROVE  Orderly
  OBVIOUS
<1>1. /\ \A r \in Requests : status[r] = "unborn" /\ messages[r] = {} /\ r \notin photos
      /\ service = "down" /\ queue = <<>> /\ active = None /\ flow = NoFlow
      /\ flow.phase = "none" /\ ~flow.cancelled
      /\ \A c \in Callers : caller[c].at = "idle"
  BY NewFlow, IdleHandler DEF Init
<1>2. TypeOK
  <2>1. StoreOK
    BY DEF Init, StoreOK, Statuses, Rows, Active, Ended
  <2>2. RunOK
    BY <1>1, NewFlow DEF Init, RunOK
  <2>3. CallersOK
    BY IdleHandler DEF Init, CallersOK
  <2> QED
    BY <2>1, <2>2, <2>3, TypeParts
<1>3. Store
  BY <1>1 DEF Store, Rowed, Known, Listed, Distinct, Reading, Rows, Active, Ended
<1>4. Course
  BY <1>1 DEF Course, FlowShape, RowFollows, Waiters, MidCommit
<1>5. Record
  BY <1>1 DEF Record, Paired, Written, Offered
<1> QED
  BY <1>2, <1>3, <1>4, <1>5 DEF Orderly

\* What Next does, step by step.
LEMMA NextCases ==
  ASSUME Orderly, [Next]_vars
  PROVE  \/ TypeOK' /\ FlowOnly /\ FlowMoves
         \/ TypeOK' /\ Withdraws
         \/ TypeOK' /\ Aside
         \/ \E r \in Requests, s \in Sessions, c \in Clients, k \in Kinds : Submit(r, s, c, k)
         \/ \E c \in Callers : LumaCancelled(c)
         \/ Runner \/ Process
<1>1. TypeOK /\ Known /\ Rowed /\ Reading /\ FlowShape
  BY DEF Orderly, Store, Course
<1>2. Flow => TypeOK' /\ FlowOnly /\ FlowMoves
  BY <1>1, FlowStep, FlowTable
<1>3. ASSUME \/ \E c \in Callers, r \in Requests : BeginCancel(c, r)
             \/ \E c \in Callers, s \in Sessions : BeginDelete(c, s)
             \/ \E c \in Callers : RobotStopped(c) \/ EndDelete(c)
      PROVE  TypeOK' /\ Withdraws
  BY <1>1, <1>3, WithdrawSteps
<1>4. ASSUME \/ \E s \in Sessions : CreateSession(s)
             \/ \E c \in Callers, s \in Sessions : BeginUpload(c, s)
             \/ \E c \in Callers : EndUpload(c)
             \/ Photo
             \/ UNCHANGED vars
      PROVE  TypeOK' /\ Aside
  BY <1>1, <1>4, AsideSteps
<1> QED
  BY <1>2, <1>3, <1>4 DEF Next, Handler, Resume

LEMMA NextOrderly == Orderly /\ [Next]_vars => Orderly'
<1> SUFFICES ASSUME Orderly, [Next]_vars
    PROVE  Orderly'
  OBVIOUS
<1>1. TypeOK /\ Store /\ Course /\ Record /\ Known /\ FlowShape
  BY DEF Orderly, Store, Course
<1>2. CASE TypeOK' /\ FlowOnly /\ FlowMoves
  BY <1>1, <1>2, FlowKeepsStore, FlowKeepsCourse, FlowKeepsRecord DEF Orderly
<1>3. CASE TypeOK' /\ Withdraws
  BY <1>1, <1>3, WithdrawsKeeps DEF Orderly
<1>4. CASE TypeOK' /\ Aside
  BY <1>1, <1>4, AsideKeeps DEF Orderly
<1>5. CASE \E r \in Requests, s \in Sessions, c \in Clients, k \in Kinds : Submit(r, s, c, k)
  BY <1>1, <1>5, SubmitKeeps DEF Orderly, Kept
<1>6. CASE \E c \in Callers : LumaCancelled(c)
  BY <1>1, <1>6, LumaCancelledKeeps DEF Orderly, Kept
<1>7. CASE Runner
  BY <1>1, <1>7, RunnerKeeps DEF Orderly, Kept
<1>8. CASE Process
  BY <1>1, <1>8, ProcessKeeps DEF Orderly, Kept
<1> QED
  BY <1>2, <1>3, <1>4, <1>5, <1>6, <1>7, <1>8, NextCases

\* Rows, queue, flow and handlers agree after every step: what the four
\* theorems below are read off.
THEOREM OrderlyAlways == Spec => []Orderly
<1>1. Init => Orderly
  BY InitOrderly
<1>2. Orderly /\ [Next]_vars => Orderly'
  BY NextOrderly
<1> QED
  BY <1>1, <1>2, PTL DEF Spec

\* No request is stored as queued and forgotten, or listed twice, and none is
\* left over from a deleted session.
THEOREM RowsAccountedAlways == Spec => []RowsAccounted
<1>1. Orderly => RowsAccounted
  <2> SUFFICES ASSUME Orderly
      PROVE  RowsAccounted
    OBVIOUS
  <2>1. Rowed /\ Listed /\ Distinct
    BY DEF Orderly, Store
  <2>2. QueuedHasEntry
    BY <2>1 DEF Listed, Distinct, QueuedHasEntry
  <2>3. NoOrphanRows
    BY <2>1 DEF Rowed, NoOrphanRows
  <2> QED
    BY <2>2, <2>3 DEF RowsAccounted
<1> QED
  BY <1>1, OrderlyAlways, PTL

\* An answer on offer is in the history with its question; half an exchange
\* is left only by a crash.
THEOREM AnswerRecordedAlways == Spec => []AnswerRecorded
<1>1. Orderly => AnswerRecorded
  <2> SUFFICES ASSUME Orderly, NEW r \in Requests
      PROVE  /\ status[r] \in {"answer_ready", "responding", "completed", "completed_with_errors"} =>
                  IF about[r].kind = "message" THEN messages[r] = {"user", "assistant"} ELSE r \in photos
             /\ messages[r] # {} /\ status[r] \in {"queued", "thinking", "failed", "cancelled"} =>
                  messages[r] = {"user", "assistant"} \/ (active = r /\ MidCommit) \/ service = "down"
    BY DEF AnswerRecorded
  <2> QED
    BY DEF Orderly, Record, Paired, Offered, Both, MidCommit
<1> QED
  BY <1>1, OrderlyAlways, PTL

\* Only the flow of a request that was given up is told to stop, although
\* cancel reads _active_task after it has waited for the photo process.
THEOREM InterruptedForCauseAlways == Spec => []InterruptedForCause
<1>1. Orderly => InterruptedForCause
  BY DEF Orderly, Course, FlowShape, GivenUp, InterruptedForCause
<1> QED
  BY <1>1, OrderlyAlways, PTL

-----------------------------------------------------------------------------
(* What was given up or has ended.                                         *)

\* The two action properties, as formulas about one step.
LateWrite(r) ==
  \/ messages'[r] \ messages[r] # {}
  \/ r \in photos' \ photos
  \/ active = r /\ flow'.phase = "respond" /\ flow.phase # "respond"
Rewritten(r) ==
  about[r].kind = "message" /\ status[r] \in Ended /\ status'[r] \notin {status[r], "deleted"}

\* The flow writes what it has just found wanted, and rows that had not ended.
LEMMA FlowFinal ==
  ASSUME Orderly, FlowOnly, FlowMoves, NEW r \in Requests
  PROVE  /\ LateWrite(r) => status[r] \notin {"deleted", "cancelled", "interrupted"}
         /\ ~Rewritten(r)
<1>1. FlowShape /\ RowFollows
  BY DEF Orderly, Course
<1>2. r # active => /\ status'[r] = status[r] /\ messages'[r] = messages[r]
                    /\ r \in photos' <=> r \in photos
  BY DEF FlowOnly
<1>3. LateWrite(r) => status[r] \notin {"deleted", "cancelled", "interrupted"}
  <2> SUFFICES ASSUME LateWrite(r)
      PROVE  status[r] \notin {"deleted", "cancelled", "interrupted"}
    OBVIOUS
  <2>1. r = active
    BY <1>2 DEF LateWrite
  <2>2. CASE messages'[active] # messages[active] \/ ~(active \in photos' <=> active \in photos)
    BY <2>1, <2>2 DEF FlowOnly, Live
  <2>3. CASE flow'.phase = "respond" /\ flow.phase # "respond"
    <3>1. flow.phase = "ready"
      BY <2>3 DEF FlowMoves, FromStart, Failing, OfPhoto, OfAnswer, Unwanted, Stopping, Moves
    <3> QED
      BY <1>1, <2>1, <3>1 DEF FlowShape, MidCommit, Live
  <2> QED
    BY <2>1, <2>2, <2>3 DEF LateWrite
<1>4. ~Rewritten(r)
  <2> SUFFICES ASSUME r = active, about[active].kind = "message", status[active] \in Ended
      PROVE  status'[active] = status[active]
    BY <1>2 DEF Rewritten
  <2>1. status[active] \in {"completed", "completed_with_errors", "failed", "cancelled", "interrupted"}
    BY DEF Ended
  <2>2. Kind = "message"
    BY DEF Kind
  <2>3. flow.phase \notin {"spawn", "capture", "timeout", "terminate", "saved"}
    BY <1>1, <2>2 DEF FlowShape
  <2>4. ~flow.cancelled => flow.phase \notin {"start", "think", "said", "answered", "ready", "respond"}
    BY <1>1, <2>1 DEF RowFollows
  <2> QED
    BY <2>3, <2>4 DEF FlowMoves, FromStart, Failing, OfPhoto, OfAnswer, Unwanted, Stopping, Moves, SameRow
<1> QED
  BY <1>3, <1>4

\* Cancel and delete write nothing, and cancel only what had not ended.
LEMMA WithdrawsFinal ==
  ASSUME Orderly, Withdraws, NEW r \in Requests
  PROVE  ~LateWrite(r) /\ ~Rewritten(r)
<1>1. Active \cap Ended = {}
  BY DEF Active, Ended
<1>2. flow'.phase = flow.phase
  BY Told, TypeParts DEF Orderly, Withdraws
<1>3. Withdrawn(r)
  BY DEF Withdraws
<1> QED
  BY <1>1, <1>2, <1>3 DEF Withdrawn, LateWrite, Rewritten

\* The other steps write no message and no photo, and start no answer.
LEMMA OthersFinal ==
  ASSUME Orderly, messages' = messages, photos' = photos,
         flow'.phase = "respond" => flow.phase = "respond",
         NEW r \in Requests, status[r] \in Ended => status'[r] = status[r]
  PROVE  ~LateWrite(r) /\ ~Rewritten(r)
BY DEF LateWrite, Rewritten

LEMMA StepFinal ==
  ASSUME Orderly, [Next]_vars, NEW r \in Requests
  PROVE  /\ LateWrite(r) => status[r] \notin {"deleted", "cancelled", "interrupted"}
         /\ ~Rewritten(r)
<1>t. StoreOK /\ RunOK
  BY TypeParts DEF Orderly
<1>e. "unborn" \notin Ended /\ Active \cap Ended = {}
  BY DEF Active, Ended
<1>1. CASE FlowOnly /\ FlowMoves
  BY <1>1, FlowFinal
<1>2. CASE Withdraws
  BY <1>2, WithdrawsFinal
<1>3. CASE Aside
  BY <1>3, OthersFinal DEF Aside
<1>4. ASSUME NEW q \in Requests, NEW s \in Sessions, NEW c \in Clients, NEW k \in Kinds, Submit(q, s, c, k)
      PROVE  ~LateWrite(r) /\ ~Rewritten(r)
  <2>1. /\ messages' = messages /\ photos' = photos /\ flow' = flow
        /\ status' = [status EXCEPT ![q] = "queued"] /\ status[q] = "unborn"
    BY <1>4 DEF Submit
  <2>2. status[r] \in Ended => status'[r] = status[r]
    BY <1>t, <1>e, <2>1 DEF StoreOK
  <2> QED
    BY <2>1, <2>2, OthersFinal
<1>5. ASSUME NEW c \in Callers, LumaCancelled(c)
      PROVE  ~LateWrite(r) /\ ~Rewritten(r)
  <2>1. messages' = messages /\ photos' = photos /\ status' = status /\ flow' = FlowTold
    BY <1>5 DEF LumaCancelled, storeVars
  <2>2. flow'.phase = flow.phase
    BY <1>t, <2>1, Told
  <2> QED
    BY <2>1, <2>2, OthersFinal
<1>6. CASE Runner
  <2>1. messages' = messages /\ photos' = photos /\ status' = status
    BY <1>6 DEF Runner, RunnerTakes, RunnerCollects, storeVars
  <2>2. flow'.phase # "respond"
    BY <1>6, NewFlow DEF Runner, RunnerTakes, RunnerCollects, RunnerAdvances, NothingActive
  <2> QED
    BY <2>1, <2>2, OthersFinal
<1>7. CASE Process
  <2>1. /\ messages' = messages /\ photos' = photos
        /\ flow' \in {flow, FlowTold, NoFlow} /\ (status' = status \/ status' = Interrupted)
    BY <1>7 DEF Process, Start, BeginStop, EndStop, Crash, storeVars, Reconciled
  <2>2. flow'.phase = "respond" => flow.phase = "respond"
    BY <1>t, <2>1, Told, NewFlow
  <2>3. status[r] \in Ended => status'[r] = status[r]
    BY <1>t, <1>e, <2>1, InterruptedRows
  <2> QED
    BY <2>1, <2>2, <2>3, OthersFinal
<1> QED
  BY <1>1, <1>2, <1>3, <1>4, <1>5, <1>6, <1>7, NextCases

\* A request that was given up, or whose session is gone, writes nothing any
\* more and does not make the robot speak; how a message request ended is not
\* rewritten.
THEOREM GivenUpIsFinalAlways == Spec => GivenUpIsFinal
<1>1. Orderly /\ [Next]_vars =>
        [\A r \in Requests :
           ( \/ messages'[r] \ messages[r] # {}
             \/ r \in photos' \ photos
             \/ active = r /\ flow'.phase = "respond" /\ flow.phase # "respond" )
             => status[r] \notin {"deleted", "cancelled", "interrupted"}]_vars
  BY StepFinal DEF LateWrite
<1>2. Orderly /\ [Next]_vars =>
        [\A r \in Requests :
           about[r].kind = "message" /\ status[r] \in Ended => status'[r] \in {status[r], "deleted"}]_vars
  BY StepFinal DEF Rewritten
<1>3. Spec => NoLateWrites
  BY <1>1, OrderlyAlways, PTL DEF Spec, NoLateWrites
<1>4. Spec => EndedStays
  BY <1>2, OrderlyAlways, PTL DEF Spec, EndedStays
<1> QED
  BY <1>3, <1>4, PTL DEF GivenUpIsFinal

=============================================================================
