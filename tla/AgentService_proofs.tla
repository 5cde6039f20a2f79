------------------------ MODULE AgentService_proofs ------------------------
(***************************************************************************)
(* The safety of the local agent's jobs for any number of jobs, sessions   *)
(* and handlers.                                                           *)
(***************************************************************************)
EXTENDS AgentService, FiniteSetTheorems, TLAPS

Expressing == {"told", "ready", "tts", "connect", "post", "follow", "release",
               "unwind", "upload", "play", "speak", "hush"}
Recorded == {"completed", "partial"}

\* The types of the variables the argument needs.
Shape ==
  /\ status \in [Jobs -> {"unborn", "queued"} \cup Working \cup Ended]
  /\ effect \in [Jobs -> {"none", "running", "unknown"} \cup Recorded]
  /\ active \in Jobs \cup {None} /\ flow \in Flows
  /\ active = None <=> flow.phase = "none"
  /\ service = "down" => active = None

\* A job no turn has touched has no effect and no answer.
UntouchedFresh ==
  \A j \in Jobs : status[j] \in {"unborn", "queued"} => effect[j] = "none" /\ j \notin answered

TurnTouches ==
  /\ active # None => status[active] # "unborn"
  /\ flow.phase \notin {"none", "start", "done"} => status[active] # "queued"

\* Only the turn between its claim and its record has an effect under way.
RunningIsActive ==
  \A j \in Jobs : service # "down" /\ effect[j] = "running" =>
    j = active /\ flow.phase \in Expressing \cup {"claimed"}

TurnAnswered == flow.phase \in Expressing \cup {"expressed"} => active \in answered

TurnRecorded == flow.phase = "expressed" => effect[active] \in Recorded

EffectFollows ==
  /\ UntouchedFresh /\ TurnTouches /\ RunningIsActive
  /\ TurnAnswered /\ TurnRecorded /\ NotReplayed /\ CompletedTold

\* An interrupt not yet delivered is on its way to a turn.
HitAwaits == flow.hit => flow.phase \notin {"none", "done"}

\* An outcome written before the turn has left is the one it will leave with.
CancelPending ==
  flow.cancelled => flow.hit \/ flow.phase \in {"none", "unwind", "stop", "done"}

OutcomeAgreed ==
  flow.phase \notin {"none", "stop", "done"} /\ status[active] \in Ended =>
    status[active] = "cancelled" /\ flow.cancelled

IInv == Shape /\ EffectFollows /\ HitAwaits /\ CancelPending /\ OutcomeAgreed

-----------------------------------------------------------------------------
(* The inductive step                                                      *)

\* A turn that leaves settles its effect, and its outcome is its own.
LEMMA LeavingKeeps ==
  ASSUME IInv, NEW outcome \in {"cancelled", "failed"}, Leaves(outcome),
         flow.phase \notin {"none", "start", "done"},
         UNCHANGED <<answered, service, active>>
  PROVE  IInv'
<1> USE DEF IInv, Shape, EffectFollows, UntouchedFresh, TurnTouches, RunningIsActive,
            TurnAnswered, TurnRecorded, NotReplayed, CompletedTold, HitAwaits,
            CancelPending, OutcomeAgreed, Flows, Phases, Expressing, Recorded, Working, Ended, tables
<1>1. Shape'
  <2>1. active \in Jobs
    BY AgentAssumption
  <2>2. \A e \in {"none", "running", "unknown"} \cup Recorded :
          (IF e = "running" THEN "unknown" ELSE e) \in {"none", "running", "unknown"} \cup Recorded
    OBVIOUS
  <2>3. effect' \in [Jobs -> {"none", "running", "unknown"} \cup Recorded]
    BY <2>1, <2>2 DEF Leaves, Settled
  <2>4. status' \in [Jobs -> {"unborn", "queued"} \cup Working \cup Ended]
    BY <2>1 DEF Leaves
  <2> QED
    BY <2>3, <2>4 DEF Leaves
<1>2. \A j \in Jobs : effect'[j] = IF j = active /\ effect[j] = "running" THEN "unknown" ELSE effect[j]
  BY DEF Leaves, Settled
<1>3. \A j \in Jobs : status'[j] = IF j = active THEN outcome ELSE status[j]
  BY DEF Leaves
<1>4. flow'.phase = "stop"
  BY DEF Leaves
<1>5. UntouchedFresh' /\ TurnTouches' /\ RunningIsActive'
  BY <1>2, <1>3, <1>4
<1>6. TurnAnswered' /\ TurnRecorded' /\ NotReplayed' /\ HitAwaits' /\ CancelPending' /\ OutcomeAgreed'
  BY <1>4 DEF Leaves
<1>7. CompletedTold'
  BY <1>2, <1>3
<1> QED
  BY <1>1, <1>5, <1>6, <1>7

LEMMA TurnKeeps == IInv /\ Turn => IInv'
<1> SUFFICES ASSUME IInv, Turn PROVE IInv'
  OBVIOUS
<1> USE DEF IInv, Shape, EffectFollows, UntouchedFresh, TurnTouches, RunningIsActive,
            TurnAnswered, TurnRecorded, NotReplayed, CompletedTold, HitAwaits,
            CancelPending, OutcomeAgreed, Flows, Phases, Expressing, Recorded, Working, Ended, tables
<1>1. CASE TurnStarts
  BY <1>1, AgentAssumption DEF TurnStarts, At, Goes
<1>2. CASE PhotoTaken
  BY <1>2, AgentAssumption DEF PhotoTaken, At, Goes
<1>3. CASE Observed
  BY <1>3, AgentAssumption DEF Observed, At, Goes
<1>4. CASE Decided
  BY <1>4, AgentAssumption DEF Decided, At, Goes
<1>5. CASE Responds
  BY <1>5, AgentAssumption DEF Responds, Claim, At, Goes
<1>6. CASE AnswerStored
  BY <1>6, AgentAssumption DEF AnswerStored, At, Goes
<1>7. CASE Expresses
  BY <1>7, AgentAssumption DEF Expresses, At, Goes
<1>8. CASE RobotNotReady
  BY <1>8, AgentAssumption DEF RobotNotReady, EffectRecorded, At, Goes
<1>9. CASE RobotReady
  BY <1>9, AgentAssumption DEF RobotReady, At, Goes
<1>10. CASE NoMotion
  BY <1>10, AgentAssumption DEF NoMotion, AfterMotion, EffectRecorded, At, Goes
<1>11. CASE Connected
  BY <1>11, AgentAssumption DEF Connected, At, Goes
<1>12. CASE MovePosted
  BY <1>12, AgentAssumption DEF MovePosted, At, Goes
<1>13. CASE MoveRefused
  BY <1>13, AgentAssumption DEF MoveRefused, AfterMotion, EffectRecorded, At, Goes
<1>14. CASE SegmentEnds
  BY <1>14, AgentAssumption DEF SegmentEnds, AfterMotion, EffectRecorded, At, Goes
<1>15. CASE SegmentLost
  BY <1>15, AgentAssumption DEF SegmentLost, At, Goes
<1>16. CASE SegmentReleased
  BY <1>16, AgentAssumption DEF SegmentReleased, AfterMotion, EffectRecorded, At, Goes
<1>17. CASE Uploaded
  BY <1>17, AgentAssumption DEF Uploaded, At, Goes
<1>18. CASE UploadFails
  BY <1>18, AgentAssumption DEF UploadFails, At, Goes
<1>19. CASE PlayAccepted
  BY <1>19, AgentAssumption DEF PlayAccepted, At, Goes
<1>20. CASE PlayFails
  BY <1>20, AgentAssumption DEF PlayFails, At, Goes
<1>21. CASE SpeechOver
  BY <1>21, AgentAssumption DEF SpeechOver, EffectRecorded, At, Goes
<1>22. CASE SpeechFailed
  BY <1>22, AgentAssumption DEF SpeechFailed, EffectRecorded, At, Goes
<1>23. CASE Completes
  BY <1>23, AgentAssumption DEF Completes, At, Goes
<1>24. CASE SpeechPrepared
  <2>1. /\ flow'.phase = "connect" /\ flow' \in Flows /\ flow.phase = "tts"
       /\ flow'.hit = flow.hit /\ flow'.cancelled = flow.cancelled /\ ~flow.hit
    BY <1>24 DEF SpeechPrepared, At, Goes
  <2>2. UNCHANGED <<status, effect, answered, service, active>>
    BY <1>24 DEF SpeechPrepared, At
  <2> QED
    BY <2>1, <2>2, AgentAssumption
<1>25. CASE TurnFails
  BY <1>25, LeavingKeeps DEF TurnFails, At
<1> QED
  BY <1>1, <1>2, <1>3, <1>4, <1>5, <1>6, <1>7, <1>8, <1>9, <1>10, <1>11,
     <1>12, <1>13, <1>14, <1>15, <1>16, <1>17, <1>18, <1>19, <1>20, <1>21,
     <1>22, <1>23, <1>24, <1>25 DEF Turn

LEMMA OutcomeType == Outcome \in {"cancelled", "failed"}
  BY DEF Outcome

LEMMA InterruptionKeeps == IInv /\ Interruption => IInv'
<1> SUFFICES ASSUME IInv, Interruption PROVE IInv'
  OBVIOUS
<1> USE DEF IInv, Shape, EffectFollows, UntouchedFresh, TurnTouches, RunningIsActive,
            TurnAnswered, TurnRecorded, NotReplayed, CompletedTold, HitAwaits,
            CancelPending, OutcomeAgreed, Flows, Phases, Expressing, Recorded, Working, Ended, tables
<1>1. CASE NeverRuns
  BY <1>1 DEF NeverRuns
<1>2. CASE MoveInterrupted
  BY <1>2 DEF MoveInterrupted
<1>3. CASE Unwound
  BY <1>3, LeavingKeeps, OutcomeType DEF Unwound, At
<1>4. CASE TurnInterrupted
  BY <1>4, LeavingKeeps, OutcomeType DEF TurnInterrupted, Interrupted, Checked
<1>5. CASE TurnStopped
  BY <1>5 DEF TurnStopped, At, Goes
<1>6. CASE StopInterrupted
  BY <1>6 DEF StopInterrupted
<1> QED
  BY <1>1, <1>2, <1>3, <1>4, <1>5, <1>6 DEF Interruption

\* A handler may cancel a job that is not over.
LEMMA CancelJobKeeps ==
  ASSUME IInv, NEW c \in Callers, NEW j \in Jobs, status[j] # "unborn", CancelJob(c, j),
         UNCHANGED <<effect, answered, service, active>>
  PROVE  IInv'
<1> USE DEF IInv, Shape, EffectFollows, UntouchedFresh, TurnTouches, RunningIsActive,
            TurnAnswered, TurnRecorded, NotReplayed, CompletedTold, HitAwaits,
            CancelPending, OutcomeAgreed, Flows, Phases, Expressing, Recorded, Working, Ended, tables
<1>1. CASE status[j] \in Ended
  BY <1>1 DEF CancelJob
<1>2. CASE status[j] \notin Ended /\ active = j
  <2>1. \A i \in Jobs : status'[i] = IF i = j THEN "cancelled" ELSE status[i]
    BY <1>2 DEF CancelJob
  <2>2. status' \in [Jobs -> {"unborn", "queued"} \cup Working \cup Ended]
    BY <1>2 DEF CancelJob
  <2>3. flow' \in Flows /\ flow'.phase = flow.phase
    BY <1>2 DEF CancelJob, Told
  <2>4. HitAwaits' /\ CancelPending' /\ OutcomeAgreed'
    BY <1>2, <2>1, <2>3 DEF CancelJob, Told
  <2> QED
    BY <1>2, <2>1, <2>2, <2>3, <2>4
<1>3. CASE status[j] \notin Ended /\ active # j
  BY <1>3 DEF CancelJob
<1> QED
  BY <1>1, <1>2, <1>3

LEMMA HandlersKeep ==
  ASSUME IInv, NEW c \in Callers, Handling(c) \/ StopHeard(c) \/ Resuming(c)
  PROVE  IInv'
<1> USE DEF IInv, Shape, EffectFollows, UntouchedFresh, TurnTouches, RunningIsActive,
            TurnAnswered, TurnRecorded, NotReplayed, CompletedTold, HitAwaits,
            CancelPending, OutcomeAgreed, Flows, Phases, Expressing, Recorded, Working, Ended, tables
<1>1. ASSUME NEW j \in Jobs, Cancel(c, j) PROVE IInv'
  BY <1>1, CancelJobKeeps DEF Cancel
<1>2. ASSUME NEW s \in Sessions, NEW value \in BOOLEAN, SetQuiet(c, s, value) PROVE IInv'
  <2>1. CASE value /\ Disturbs(s)
    BY <1>2, <2>1, CancelJobKeeps DEF SetQuiet, Disturbs
  <2>2. CASE ~(value /\ Disturbs(s))
    BY <1>2, <2>2 DEF SetQuiet
  <2> QED
    BY <2>1, <2>2
<1>3. ASSUME StopHeard(c) \/ Resuming(c) PROVE IInv'
  BY <1>3 DEF StopHeard, Resuming, TurnIsOver, StopConfirmed, StopUnknown
<1> QED
  BY <1>1, <1>2, <1>3 DEF Handling

LEMMA WorkerKeeps == IInv /\ Worker => IInv'
<1> SUFFICES ASSUME IInv, Worker PROVE IInv'
  OBVIOUS
<1> USE DEF IInv, Shape, EffectFollows, UntouchedFresh, TurnTouches, RunningIsActive,
            TurnAnswered, TurnRecorded, NotReplayed, CompletedTold, HitAwaits,
            CancelPending, OutcomeAgreed, Flows, Phases, Expressing, Recorded, Working, Ended, tables
<1>1. /\ UNCHANGED <<status, effect, answered, service>> /\ WorkerAdvances
      /\ flow.phase \in {"none", "done"} /\ service # "down"
  BY DEF Worker, WorkerTakes, WorkerCollects, Serving
<1>2. CASE NothingActive
  BY <1>1, <1>2, AgentAssumption DEF NothingActive, NoFlow
<1>3. CASE \E j \in Queued : active' = j /\ flow' = [NoFlow EXCEPT !.phase = "start"]
  <2>1. PICK j \in Queued : active' = j /\ flow' = [NoFlow EXCEPT !.phase = "start"]
    BY <1>3
  <2>2. j \in Jobs /\ status[j] = "queued"
    BY DEF Queued
  <2> QED
    BY <1>1, <2>1, <2>2, AgentAssumption DEF NoFlow
<1> QED
  BY <1>1, <1>2, <1>3 DEF WorkerAdvances

LEMMA ProcessKeeps == IInv /\ (Start \/ BeginClose \/ EndClose \/ Crash \/ SoundEnds) => IInv'
<1> SUFFICES ASSUME IInv, Start \/ BeginClose \/ EndClose \/ Crash \/ SoundEnds PROVE IInv'
  OBVIOUS
<1> USE DEF IInv, Shape, EffectFollows, UntouchedFresh, TurnTouches, RunningIsActive,
            TurnAnswered, TurnRecorded, NotReplayed, CompletedTold, HitAwaits,
            CancelPending, OutcomeAgreed, Flows, Phases, Expressing, Recorded, Working, Ended, tables
<1>1. CASE Start
  <2>1. active = None /\ flow.phase = "none"
    BY <1>1 DEF Start
  <2>2. Shape'
    BY <1>1, <2>1 DEF Start, Recovered
  <2>3. EffectFollows'
    BY <1>1, <2>1 DEF Start, Recovered
  <2> QED
    BY <1>1, <2>1, <2>2, <2>3 DEF Start
<1>2. CASE BeginClose
  <2>1. /\ flow' \in Flows /\ flow'.phase = flow.phase /\ service # "down"
        /\ UNCHANGED <<status, effect, answered, active>> /\ service' = "closing"
    BY <1>2 DEF BeginClose, Serving, Told
  <2>2. HitAwaits' /\ CancelPending' /\ OutcomeAgreed'
    BY <1>2, <2>1 DEF BeginClose, Told
  <2> QED
    BY <2>1, <2>2
<1>3. CASE EndClose \/ Crash
  <2>1. MemoryLost
    BY <1>3 DEF EndClose, Crash
  <2> QED
    BY <2>1, AgentAssumption DEF MemoryLost, NothingActive, NoFlow
<1>4. CASE SoundEnds
  BY <1>4 DEF SoundEnds
<1> QED
  BY <1>1, <1>2, <1>3, <1>4

LEMMA InitHolds == Init => IInv
  BY AgentAssumption DEF Init, IInv, Shape, EffectFollows, UntouchedFresh, TurnTouches,
     RunningIsActive, TurnAnswered, TurnRecorded, NotReplayed, CompletedTold, HitAwaits,
     CancelPending, OutcomeAgreed, Flows, Phases, NoFlow, Expressing, Recorded, Working, Ended

LEMMA NextKeeps == IInv /\ [Next]_vars => IInv'
<1> SUFFICES ASSUME IInv, [Next]_vars PROVE IInv'
  OBVIOUS
<1> USE DEF IInv, Shape, EffectFollows, UntouchedFresh, TurnTouches, RunningIsActive,
            TurnAnswered, TurnRecorded, NotReplayed, CompletedTold, HitAwaits,
            CancelPending, OutcomeAgreed, Flows, Phases, Expressing, Recorded, Working, Ended, tables
<1>1. ASSUME NEW j \in Jobs, NEW s \in Sessions, NEW k \in Kinds, Submit(j, s, k) PROVE IInv'
  BY <1>1 DEF Submit
<1>2. CASE Expires
  BY <1>2 DEF Expires, MidCommit
<1>3. CASE UNCHANGED vars
  BY <1>3 DEF vars
<1> QED
  BY <1>1, <1>2, <1>3, HandlersKeep, WorkerKeeps, TurnKeeps, InterruptionKeeps, ProcessKeeps
     DEF Next

\* The inductive invariant holds of every behaviour.
THEOREM InvariantAlways == Spec => []IInv
  BY InitHolds, NextKeeps, PTL DEF Spec

\* NotReplayed: no expression is repeated, for any number of jobs and restarts.
THEOREM NotReplayedAlways == Spec => []NotReplayed
<1>1. IInv => NotReplayed
  BY DEF IInv, EffectFollows
<1> QED
  BY <1>1, InvariantAlways, PTL

\* EffectSettled: when a turn is over its effect is not shown as under way.
THEOREM EffectSettledAlways == Spec => []EffectSettled
<1>1. IInv => EffectSettled
  BY DEF IInv, EffectFollows, RunningIsActive, EffectSettled
<1> QED
  BY <1>1, InvariantAlways, PTL

\* CompletedTold: completed jobs have answered and recorded their effect.
THEOREM CompletedToldAlways == Spec => []CompletedTold
<1>1. IInv => CompletedTold
  BY DEF IInv, EffectFollows
<1> QED
  BY <1>1, InvariantAlways, PTL

-----------------------------------------------------------------------------
(* Outcomes                                                                *)

Final == \A j \in Jobs : status[j] \in Ended => status'[j] = status[j]


\* What is true of the active job's status when its turn goes on.
LEMMA NotOver ==
  ASSUME IInv, NEW phase, At(phase), flow.phase \notin {"none", "unwind", "stop", "done"}
  PROVE  status[active] \notin Ended
  BY DEF IInv, At, CancelPending, OutcomeAgreed

LEMMA TurnFinal == IInv /\ Turn => Final
<1> SUFFICES ASSUME IInv, Turn, NEW j \in Jobs, status[j] \in Ended
             PROVE  status'[j] = status[j]
  BY DEF Final
<1>1. status[active] \notin Ended
  BY NotOver DEF Turn, TurnStarts, PhotoTaken, Observed, Decided, Responds, AnswerStored,
     Expresses, RobotNotReady, RobotReady, SpeechPrepared, NoMotion, Connected, MovePosted,
     MoveRefused, SegmentEnds, SegmentLost, SegmentReleased, Uploaded, UploadFails,
     PlayAccepted, PlayFails, SpeechOver, SpeechFailed, Completes, TurnFails, At
<1>2. j # active => status'[j] = status[j]
  BY DEF IInv, Shape, Turn, TurnStarts, PhotoTaken, Observed, Decided, Responds, AnswerStored,
     Expresses, RobotNotReady, RobotReady, SpeechPrepared, NoMotion, Connected, MovePosted,
     MoveRefused, SegmentEnds, SegmentLost, SegmentReleased, Uploaded, UploadFails,
     PlayAccepted, PlayFails, SpeechOver, SpeechFailed, Completes, TurnFails, Leaves, tables
<1> QED
  BY <1>1, <1>2

LEMMA InterruptionFinal == IInv /\ Interruption => Final
<1> SUFFICES ASSUME IInv, Interruption, NEW j \in Jobs, status[j] \in Ended
             PROVE  status'[j] = status[j]
  BY DEF Final
<1> USE DEF IInv, Shape
<1>1. CASE NeverRuns \/ MoveInterrupted \/ TurnStopped \/ StopInterrupted
  BY <1>1 DEF NeverRuns, MoveInterrupted, TurnStopped, StopInterrupted, tables
<1>2. CASE Unwound \/ TurnInterrupted
  <2>1. status' = [status EXCEPT ![active] = Outcome]
    BY <1>2 DEF Unwound, TurnInterrupted, Leaves
  <2>2. flow.phase \notin {"none", "stop", "done"}
    BY <1>2 DEF Unwound, TurnInterrupted, At, Interrupted, Checked, HitAwaits
  <2>3. status[active] \in Ended => status[active] = "cancelled" /\ Outcome = "cancelled"
    BY <2>2 DEF OutcomeAgreed, Outcome
  <2> QED
    BY <2>1, <2>3
<1> QED
  BY <1>1, <1>2 DEF Interruption

LEMMA HandlersFinal ==
  ASSUME IInv, NEW c \in Callers, Handling(c) \/ StopHeard(c) \/ Resuming(c)
  PROVE  Final
<1>1. ASSUME NEW j \in Jobs, CancelJob(c, j) PROVE Final
  BY <1>1 DEF CancelJob, Final, IInv, Shape
<1>2. ASSUME NEW j \in Jobs, Cancel(c, j) PROVE Final
  BY <1>1, <1>2 DEF Cancel
<1>3. ASSUME NEW s \in Sessions, NEW value \in BOOLEAN, SetQuiet(c, s, value) PROVE Final
  <2>1. CASE value /\ Disturbs(s)
    BY <1>1, <1>3, <2>1 DEF SetQuiet, Disturbs, IInv, Shape
  <2>2. CASE ~(value /\ Disturbs(s))
    BY <1>3, <2>2 DEF SetQuiet, Final
  <2> QED
    BY <2>1, <2>2
<1>4. ASSUME StopHeard(c) \/ Resuming(c) PROVE Final
  BY <1>4 DEF StopHeard, Resuming, TurnIsOver, StopConfirmed, StopUnknown, tables, Final
<1> QED
  BY <1>2, <1>3, <1>4 DEF Handling

LEMMA NextFinal == IInv /\ [Next]_vars => Final
<1> SUFFICES ASSUME IInv, [Next]_vars PROVE Final
  OBVIOUS
<1>1. ASSUME NEW j \in Jobs, NEW s \in Sessions, NEW k \in Kinds, Submit(j, s, k) PROVE Final
  BY <1>1 DEF Submit, Final, Ended, IInv, Shape
<1>2. CASE Start
  BY <1>2 DEF Start, Recovered, Final, Working, Ended
<1>3. CASE Worker \/ Expires \/ BeginClose \/ EndClose \/ Crash \/ SoundEnds \/ UNCHANGED vars
  BY <1>3 DEF Worker, WorkerTakes, WorkerCollects, Expires, BeginClose, EndClose, Crash,
     MemoryLost, SoundEnds, vars, tables, Final
<1> QED
  BY <1>1, <1>2, <1>3, TurnFinal, InterruptionFinal, HandlersFinal DEF Next

\* OutcomeFinal: an outcome is never replaced by another.
THEOREM OutcomeFinalAlways == Spec => OutcomeFinal
<1>1. IInv /\ [Next]_vars => [\A j \in Jobs : status[j] \in Ended => status'[j] = status[j]]_vars
  BY NextFinal DEF Final
<1> QED
  BY <1>1, InvariantAlways, PTL DEF Spec, OutcomeFinal

-----------------------------------------------------------------------------
(* Quiet mode                                                              *)

\* Where a turn may still go on to move or to speak without asking again
\* whether its session is quiet.
Expressive == {"ready", "tts", "connect", "post", "follow", "upload", "play"}

\* Such a turn is interrupted when its session becomes quiet.
QuietHits ==
  flow.phase \in Expressive /\ about[active].session \in quiet => flow.hit

Hushed ==
  /\ about \in [Jobs -> Abouts \cup {NoRow}]
  /\ QuietHits

\* A turn in one of these phases comes from one that was not yet hit, or was
\* told that its session is not quiet.
LEMMA TurnHushed == IInv /\ Hushed /\ Turn => Hushed'
<1> SUFFICES ASSUME IInv, Hushed, Turn PROVE Hushed'
  OBVIOUS
<1> USE DEF IInv, Shape, Hushed, QuietHits, Flows, Phases, Expressive, tables
<1>1. UNCHANGED <<about, active>>
  BY DEF Turn, TurnStarts, PhotoTaken, Observed, Decided, Responds, AnswerStored,
     Expresses, RobotNotReady, RobotReady, SpeechPrepared, NoMotion, Connected, MovePosted,
     MoveRefused, SegmentEnds, SegmentLost, SegmentReleased, Uploaded, UploadFails,
     PlayAccepted, PlayFails, SpeechOver, SpeechFailed, Completes, TurnFails, At
<1>2. CASE TurnStarts \/ PhotoTaken \/ Observed \/ Decided \/ Responds \/ AnswerStored
  BY <1>1, <1>2 DEF TurnStarts, PhotoTaken, Observed, Decided, Responds, Claim, AnswerStored, At, Goes
<1>3. CASE Expresses
  BY <1>1, <1>3 DEF Expresses, MayExpress, At, Goes
<1>4. CASE RobotNotReady \/ SpeechOver \/ SpeechFailed \/ Completes \/ SegmentLost \/ UploadFails \/ PlayFails
  BY <1>1, <1>4 DEF RobotNotReady, SpeechOver, SpeechFailed, Completes, SegmentLost,
     UploadFails, PlayFails, EffectRecorded, Goes
<1>5. CASE RobotReady
  BY <1>1, <1>5 DEF RobotReady, At, Goes
<1>6. CASE SpeechPrepared
  BY <1>1, <1>6 DEF SpeechPrepared, At, Goes
<1>7. CASE NoMotion \/ MoveRefused \/ SegmentReleased
  BY <1>1, <1>7 DEF NoMotion, MoveRefused, SegmentReleased, AfterMotion, MayExpress,
     EffectRecorded, Goes
<1>8. CASE SegmentEnds
  BY <1>1, <1>8 DEF SegmentEnds, AfterMotion, MayExpress, EffectRecorded, At, Goes
<1>9. CASE Connected \/ MovePosted \/ Uploaded \/ PlayAccepted
  BY <1>1, <1>9 DEF Connected, MovePosted, Uploaded, PlayAccepted, At, Goes
<1>10. CASE TurnFails
  BY <1>1, <1>10 DEF TurnFails, Leaves
<1> QED
  BY <1>2, <1>3, <1>4, <1>5, <1>6, <1>7, <1>8, <1>9, <1>10 DEF Turn

\* A session that becomes quiet interrupts its turn, or finds it interrupted.
LEMMA SetQuietHushed ==
  ASSUME IInv, Hushed, NEW c \in Callers, NEW s \in Sessions, NEW value \in BOOLEAN,
         SetQuiet(c, s, value)
  PROVE  Hushed'
<1> USE DEF IInv, Shape, Hushed, QuietHits, Flows, Phases, Expressive, tables
<1>1. UNCHANGED <<about, active>>
  BY DEF SetQuiet
<1>2. CASE value /\ Disturbs(s)
  <2>1. CancelJob(c, active)
    BY <1>2 DEF SetQuiet
  <2>2. CASE status[active] \in Ended
    BY <1>1, <2>1, <2>2 DEF CancelJob, CancelPending, OutcomeAgreed
  <2>3. CASE status[active] \notin Ended
    BY <1>1, <2>1, <2>3 DEF CancelJob, Told
  <2> QED
    BY <2>2, <2>3
<1>3. CASE ~(value /\ Disturbs(s))
  <2>1. UNCHANGED flow
    BY <1>3 DEF SetQuiet
  <2>2. flow.phase \in Expressive /\ about[active].session \in quiet' => about[active].session \in quiet
    BY <1>3 DEF SetQuiet, Disturbs
  <2> QED
    BY <1>1, <2>1, <2>2
<1> QED
  BY <1>2, <1>3

LEMMA NextHushed == IInv /\ Hushed /\ [Next]_vars => Hushed'
<1> SUFFICES ASSUME IInv, Hushed, [Next]_vars PROVE Hushed'
  OBVIOUS
<1> USE DEF IInv, Shape, Hushed, QuietHits, Flows, Phases, Expressive, tables
<1>1. ASSUME NEW j \in Jobs, NEW s \in Sessions, NEW k \in Kinds, Submit(j, s, k) PROVE Hushed'
  <2>1. [session |-> s, kind |-> k] \in Abouts
    BY DEF Abouts
  <2>2. flow.phase \in Expressive => active \in Jobs /\ active # j
    BY <1>1 DEF Submit, EffectFollows, TurnTouches
  <2> QED
    BY <1>1, <2>1, <2>2 DEF Submit
<1>2. ASSUME NEW c \in Callers, Handling(c) \/ StopHeard(c) \/ Resuming(c) PROVE Hushed'
  <2>1. ASSUME NEW j \in Jobs, Cancel(c, j) PROVE Hushed'
    BY <2>1 DEF Cancel, CancelJob, Told
  <2>2. CASE StopHeard(c) \/ Resuming(c)
    BY <2>2 DEF StopHeard, Resuming, TurnIsOver, StopConfirmed, StopUnknown
  <2> QED
    BY <1>2, <2>1, <2>2, SetQuietHushed DEF Handling
<1>3. CASE Worker
  BY <1>3 DEF Worker, WorkerTakes, WorkerCollects, WorkerAdvances, NothingActive, NoFlow
<1>4. CASE Expires
  BY <1>4 DEF Expires
<1>5. CASE Interruption
  <2>1. UNCHANGED about
    BY <1>5 DEF Interruption, NeverRuns, MoveInterrupted, Unwound, TurnInterrupted,
       TurnStopped, StopInterrupted, At
  <2>2. flow'.phase \in {"done", "unwind", "stop"}
    BY <1>5 DEF Interruption, NeverRuns, MoveInterrupted, Unwound, TurnInterrupted,
       TurnStopped, StopInterrupted, Leaves, Goes
  <2> QED
    BY <2>1, <2>2
<1>6. CASE Start \/ SoundEnds \/ UNCHANGED vars
  BY <1>6 DEF Start, SoundEnds, vars
<1>7. CASE BeginClose
  BY <1>7 DEF BeginClose, Told
<1>8. CASE EndClose \/ Crash
  BY <1>8 DEF EndClose, Crash, MemoryLost, NothingActive, NoFlow
<1> QED
  BY <1>1, <1>2, <1>3, <1>4, <1>5, <1>6, <1>7, <1>8, TurnHushed DEF Next

LEMMA InitHushed == Init => Hushed
  BY DEF Init, Hushed, QuietHits, NoFlow, Expressive

LEMMA HushedAlways == Spec => []Hushed
  BY InitHushed, NextHushed, InvariantAlways, PTL DEF Spec

\* What is posted or played for a session.
Silent ==
  flow'.phase \in {"post", "follow", "play", "speak"} /\ flow.phase # flow'.phase
    => about[active].session \notin quiet

LEMMA NextSilent == IInv /\ Hushed /\ [Next]_vars => Silent
<1> SUFFICES ASSUME IInv, Hushed, [Next]_vars, flow'.phase \in {"post", "follow", "play", "speak"},
                    flow.phase # flow'.phase
             PROVE  about[active].session \notin quiet
  BY DEF Silent
<1> USE DEF IInv, Shape, Flows, tables
<1>1. CASE Turn
  <2>1. Connected \/ MovePosted \/ Uploaded \/ PlayAccepted
    BY <1>1 DEF Turn, TurnStarts, PhotoTaken, Observed, Decided, Responds, Claim, AnswerStored,
     Expresses, RobotNotReady, RobotReady, SpeechPrepared, NoMotion, AfterMotion, MoveRefused,
     SegmentEnds, SegmentLost, SegmentReleased, UploadFails, EffectRecorded,
     PlayFails, SpeechOver, SpeechFailed, Completes, TurnFails, Leaves, Goes
  <2>2. flow.phase \in Expressive /\ ~flow.hit
    BY <2>1 DEF Connected, MovePosted, Uploaded, PlayAccepted, At, Expressive
  <2> QED
    BY <2>2 DEF Hushed, QuietHits
<1>2. CASE Interruption
  BY <1>2 DEF Interruption, NeverRuns, MoveInterrupted, Unwound, TurnInterrupted,
     TurnStopped, StopInterrupted, Leaves, Goes
<1>3. CASE Worker
  BY <1>3 DEF Worker, WorkerTakes, WorkerCollects, WorkerAdvances, NothingActive, NoFlow
<1>4. ASSUME NEW c \in Callers, Handling(c) \/ StopHeard(c) \/ Resuming(c) PROVE flow'.phase = flow.phase
  BY <1>4 DEF Handling, Cancel, SetQuiet, CancelJob, Told, StopHeard, Resuming,
     TurnIsOver, StopConfirmed, StopUnknown
<1>5. CASE Expires \/ BeginClose
  BY <1>5 DEF Expires, BeginClose, Told
<1>6. CASE EndClose \/ Crash
  BY <1>6 DEF EndClose, Crash, MemoryLost, NothingActive, NoFlow
<1>7. ASSUME NEW j \in Jobs, NEW s \in Sessions, NEW k \in Kinds, Submit(j, s, k) PROVE UNCHANGED flow
  BY <1>7 DEF Submit
<1>8. CASE Start \/ SoundEnds \/ UNCHANGED vars
  BY <1>8 DEF Start, SoundEnds, vars
<1> QED
  BY <1>1, <1>2, <1>3, <1>4, <1>5, <1>6, <1>7, <1>8 DEF Next

\* SilentWhenQuiet: no move is posted and no speech played for a session in
\* quiet mode, whatever a handler interrupted while it was prepared.
THEOREM SilenceAlways == Spec => SilentWhenQuiet
<1>1. IInv /\ Hushed /\ [Next]_vars =>
        [flow'.phase \in {"post", "follow", "play", "speak"} /\ flow.phase # flow'.phase
           => about[active].session \notin quiet]_vars
  BY NextSilent DEF Silent
<1> QED
  BY <1>1, InvariantAlways, HushedAlways, PTL DEF Spec, SilentWhenQuiet

-----------------------------------------------------------------------------
(* Types, and the bound on the queue                                       *)

\* What TypeOK says beyond Shape and Hushed.
Typed ==
  /\ answered \subseteq Jobs /\ quiet \subseteq Sessions
  /\ service \in {"down", "up", "closing"}
  /\ audioActive \in BOOLEAN
  /\ caller \in [Callers -> Handlers]
  /\ sound \in Jobs \cup {None}
  /\ \A j \in Jobs : status[j] # "unborn" => about[j] \in Abouts
  /\ Cardinality(Queued) <= MaxPending

LEMMA QueuedFinite == IsFiniteSet(Queued)
  BY FS_Subset, AgentAssumption DEF Queued

\* A step that queues no job keeps the bound.
LEMMA QueueShrinks ==
  ASSUME Typed, Queued' \subseteq Queued
  PROVE  Cardinality(Queued') <= MaxPending
<1>1. IsFiniteSet(Queued') /\ Cardinality(Queued') <= Cardinality(Queued)
  BY QueuedFinite, FS_Subset
<1>2. Cardinality(Queued) \in Nat /\ Cardinality(Queued') \in Nat
  BY <1>1, QueuedFinite, FS_CardinalityType
<1> QED
  BY <1>1, <1>2, AgentAssumption DEF Typed

\* A job is only submitted while there is room for it.
LEMMA SubmitTyped ==
  ASSUME IInv, Hushed, Typed, NEW j \in Jobs, NEW s \in Sessions, NEW k \in Kinds, Submit(j, s, k)
  PROVE  Typed'
<1>1. Queued' = Queued \cup {j} /\ j \notin Queued
  BY DEF Submit, Queued, IInv, Shape
<1>2. Cardinality(Queued') = Cardinality(Queued) + 1
  BY <1>1, QueuedFinite, FS_AddElement
<1>3. Cardinality(Queued) \in Nat
  BY QueuedFinite, FS_CardinalityType
<1>4. Cardinality(Queued') <= MaxPending
  BY <1>2, <1>3, AgentAssumption DEF Submit, HasRoom
<1>5. \A i \in Jobs : status'[i] # "unborn" => about'[i] \in Abouts
  <2>1. [session |-> s, kind |-> k] \in Abouts
    BY DEF Abouts
  <2> QED
    BY <2>1 DEF Submit, Typed, IInv, Shape, Hushed
<1> QED
  BY <1>4, <1>5 DEF Submit, Typed

\* Outside of Submit a job is neither born nor queued.
LEMMA NothingQueued ==
  ASSUME Typed, UNCHANGED about,
         \A j \in Jobs : status'[j] \in {"unborn", "queued"} => status'[j] = status[j],
         \A j \in Jobs : status[j] = "unborn" => status'[j] = "unborn"
  PROVE  /\ \A j \in Jobs : status'[j] # "unborn" => about'[j] \in Abouts
         /\ Cardinality(Queued') <= MaxPending
<1>1. Queued' \subseteq Queued
  BY DEF Queued
<1> QED
  BY <1>1, QueueShrinks DEF Typed

LEMMA TurnTyped == IInv /\ Typed /\ (Turn \/ Interruption) => Typed'
<1> SUFFICES ASSUME IInv, Typed, Turn \/ Interruption PROVE Typed'
  OBVIOUS
<1> USE DEF IInv, Shape, Flows, tables
<1>1. UNCHANGED <<about, service, active, caller>>
  BY DEF Turn, TurnStarts, PhotoTaken, Observed, Decided, Responds, AnswerStored,
     Expresses, RobotNotReady, RobotReady, SpeechPrepared, NoMotion, Connected, MovePosted,
     MoveRefused, SegmentEnds, SegmentLost, SegmentReleased, Uploaded, UploadFails,
     PlayAccepted, PlayFails, SpeechOver, SpeechFailed, Completes, TurnFails, At,
     Interruption, NeverRuns, MoveInterrupted, Unwound, TurnInterrupted, TurnStopped, StopInterrupted
<1>2. active # None => active \in Jobs /\ status[active] # "unborn"
  BY DEF EffectFollows, TurnTouches
<1>3. flow.phase # "none" => active # None
  OBVIOUS
<1>4. \E st \in Working \cup Ended :
        \/ UNCHANGED status
        \/ status' = [status EXCEPT ![active] = st] /\ flow.phase # "none"
  <2>1. CASE Turn
    BY <2>1 DEF Turn, TurnStarts, PhotoTaken, Observed, Decided, Responds, AnswerStored,
     Expresses, RobotNotReady, RobotReady, SpeechPrepared, NoMotion, Connected, MovePosted,
     MoveRefused, SegmentEnds, SegmentLost, SegmentReleased, Uploaded, UploadFails,
     PlayAccepted, PlayFails, SpeechOver, SpeechFailed, Completes, TurnFails, Leaves, At,
     Working, Ended
  <2>2. CASE NeverRuns \/ MoveInterrupted \/ TurnStopped \/ StopInterrupted
    BY <2>2 DEF NeverRuns, MoveInterrupted, TurnStopped, StopInterrupted, Working
  <2>3. CASE Unwound \/ TurnInterrupted
    BY <2>3, OutcomeType DEF Unwound, TurnInterrupted, Leaves, At, Interrupted, Checked, HitAwaits, Ended
  <2> QED
    BY <2>1, <2>2, <2>3 DEF Interruption
<1>5. /\ \A j \in Jobs : status'[j] \in {"unborn", "queued"} => status'[j] = status[j]
      /\ \A j \in Jobs : status[j] = "unborn" => status'[j] = "unborn"
  BY <1>2, <1>3, <1>4 DEF Working, Ended
<1>6. answered' \subseteq Jobs
  <2>1. answered' = answered \/ (answered' = answered \cup {active} /\ flow.phase = "claimed")
    BY DEF Turn, TurnStarts, PhotoTaken, Observed, Decided, Responds, AnswerStored,
     Expresses, RobotNotReady, RobotReady, SpeechPrepared, NoMotion, Connected, MovePosted,
     MoveRefused, SegmentEnds, SegmentLost, SegmentReleased, Uploaded, UploadFails,
     PlayAccepted, PlayFails, SpeechOver, SpeechFailed, Completes, TurnFails, At,
     Interruption, NeverRuns, MoveInterrupted, Unwound, TurnInterrupted, TurnStopped, StopInterrupted
  <2> QED
    BY <1>2, <1>3, <2>1 DEF Typed
<1>7. quiet' \subseteq Sessions
  <2>1. \/ quiet' = quiet
        \/ /\ quiet' \in {quiet \cup {about[active].session}, quiet \ {about[active].session}}
           /\ flow.phase = "decide"
    BY DEF Turn, TurnStarts, PhotoTaken, Observed, Decided, Responds, AnswerStored,
     Expresses, RobotNotReady, RobotReady, SpeechPrepared, NoMotion, Connected, MovePosted,
     MoveRefused, SegmentEnds, SegmentLost, SegmentReleased, Uploaded, UploadFails,
     PlayAccepted, PlayFails, SpeechOver, SpeechFailed, Completes, TurnFails, At,
     Interruption, NeverRuns, MoveInterrupted, Unwound, TurnInterrupted, TurnStopped, StopInterrupted
  <2>2. flow.phase = "decide" => about[active].session \in Sessions
    BY <1>2, <1>3 DEF Typed, Abouts
  <2> QED
    BY <2>1, <2>2 DEF Typed
<1>8. audioActive' \in BOOLEAN /\ sound' \in Jobs \cup {None}
  BY DEF Typed, Turn, TurnStarts, PhotoTaken, Observed, Decided, Responds, AnswerStored,
     Expresses, RobotNotReady, RobotReady, SpeechPrepared, NoMotion, Connected, MovePosted,
     MoveRefused, SegmentEnds, SegmentLost, SegmentReleased, Uploaded, UploadFails,
     PlayAccepted, PlayFails, SpeechOver, SpeechFailed, Stops, Completes, TurnFails,
     Interruption, NeverRuns, MoveInterrupted, Unwound, TurnInterrupted, TurnStopped, StopInterrupted
<1> QED
  BY <1>1, <1>5, <1>6, <1>7, <1>8, NothingQueued DEF Typed

LEMMA CancelJobTyped ==
  ASSUME IInv, Typed, NEW c \in Callers, NEW j \in Jobs, status[j] # "unborn", CancelJob(c, j),
         UNCHANGED about
  PROVE  /\ caller' \in [Callers -> Handlers]
         /\ \A i \in Jobs : status'[i] # "unborn" => about'[i] \in Abouts
         /\ Cardinality(Queued') <= MaxPending
<1>1. caller' \in [Callers -> Handlers]
  <2>1. [Idle EXCEPT !.job = j, !.at = "turn"] \in Handlers
    BY DEF Idle, Handlers
  <2> QED
    BY <2>1 DEF CancelJob, Typed
<1>2. /\ \A i \in Jobs : status'[i] \in {"unborn", "queued"} => status'[i] = status[i]
      /\ \A i \in Jobs : status[i] = "unborn" => status'[i] = "unborn"
  BY DEF CancelJob, IInv, Shape
<1> QED
  BY <1>1, <1>2, NothingQueued

LEMMA HandlersTyped ==
  ASSUME IInv, Typed, NEW c \in Callers, Handling(c) \/ StopHeard(c) \/ Resuming(c)
  PROVE  Typed'
<1> USE DEF tables
<1>1. ASSUME NEW j \in Jobs, Cancel(c, j) PROVE Typed'
  <2>1. status[j] # "unborn" /\ CancelJob(c, j)
        /\ UNCHANGED <<about, answered, quiet, service, audioActive, sound>>
    BY <1>1 DEF Cancel
  <2> QED
    BY <2>1, CancelJobTyped DEF Typed
<1>2. ASSUME NEW s \in Sessions, NEW value \in BOOLEAN, SetQuiet(c, s, value) PROVE Typed'
  <2>1. UNCHANGED <<about, answered, service, audioActive, sound>> /\ quiet' \subseteq Sessions
    BY <1>2 DEF SetQuiet, Typed
  <2>2. CASE value /\ Disturbs(s)
    <3>1. active \in Jobs /\ status[active] # "unborn" /\ CancelJob(c, active)
      BY <1>2, <2>2 DEF SetQuiet, Disturbs, IInv, Shape, EffectFollows, TurnTouches
    <3> QED
      BY <2>1, <3>1, CancelJobTyped DEF Typed
  <2>3. CASE ~(value /\ Disturbs(s))
    <3>1. UNCHANGED <<status, caller>>
      BY <1>2, <2>3 DEF SetQuiet
    <3> QED
      BY <2>1, <3>1 DEF Typed, Queued
  <2> QED
    BY <2>2, <2>3
<1>3. ASSUME StopHeard(c) \/ Resuming(c) PROVE Typed'
  <2>1. UNCHANGED <<status, about, answered, quiet, service>>
    BY <1>3 DEF StopHeard, Resuming, TurnIsOver, StopConfirmed, StopUnknown
  <2>2. audioActive' \in BOOLEAN /\ sound' \in Jobs \cup {None}
    BY <1>3 DEF StopHeard, Resuming, TurnIsOver, StopConfirmed, StopUnknown, Typed
  <2>3. caller' \in [Callers -> Handlers]
    <3>1. Idle \in Handlers
      BY DEF Idle, Handlers
    <3>2. /\ [caller[c] EXCEPT !.at = "stop"] \in Handlers
          /\ [caller[c] EXCEPT !.heard = TRUE] \in Handlers
      BY DEF Typed, Handlers
    <3>3. \E h \in Handlers : caller' = [caller EXCEPT ![c] = h]
      <4>1. CASE StopHeard(c)
        BY <3>2, <4>1 DEF StopHeard
      <4>2. CASE TurnIsOver(c)
        BY <3>1, <3>2, <4>2 DEF TurnIsOver
      <4>3. CASE StopConfirmed(c) \/ StopUnknown(c)
        BY <3>1, <4>3 DEF StopConfirmed, StopUnknown
      <4> QED
        BY <1>3, <4>1, <4>2, <4>3 DEF Resuming
    <3> QED
      BY <3>3 DEF Typed
  <2> QED
    BY <2>1, <2>2, <2>3 DEF Typed, Queued
<1> QED
  BY <1>1, <1>2, <1>3 DEF Handling

LEMMA NextTyped == IInv /\ Hushed /\ Typed /\ [Next]_vars => Typed'
<1> SUFFICES ASSUME IInv, Hushed, Typed, [Next]_vars PROVE Typed'
  OBVIOUS
<1> USE DEF tables
<1>1. CASE Worker
  BY <1>1 DEF Worker, WorkerTakes, WorkerCollects, Typed, Queued
<1>2. CASE Expires \/ BeginClose \/ SoundEnds \/ UNCHANGED vars
  <2>1. /\ UNCHANGED <<status, about, answered, quiet, audioActive, caller>>
        /\ service' \in {service, "closing"} /\ sound' \in {sound, None}
    BY <1>2 DEF Expires, BeginClose, SoundEnds, vars
  <2> QED
    BY <2>1 DEF Typed, Queued
<1>3. CASE Start
  <2>1. /\ UNCHANGED <<about, answered, quiet, audioActive, caller, sound>> /\ service' = "up"
        /\ status' = Recovered
    BY <1>3 DEF Start
  <2>2. /\ \A j \in Jobs : status'[j] \in {"unborn", "queued"} => status'[j] = status[j]
        /\ \A j \in Jobs : status[j] = "unborn" => status'[j] = "unborn"
    BY <2>1 DEF Recovered, Working
  <2> QED
    BY <2>1, <2>2, NothingQueued DEF Typed
<1>4. CASE EndClose \/ Crash
  <2>1. /\ UNCHANGED <<status, about, answered, quiet>> /\ service' = "down"
        /\ audioActive' = FALSE /\ caller' = [c \in Callers |-> Idle]
    BY <1>4 DEF EndClose, Crash, MemoryLost
  <2>2. sound' \in {sound, None}
    BY <1>4 DEF EndClose, Crash
  <2>3. caller' \in [Callers -> Handlers]
    BY <2>1 DEF Idle, Handlers
  <2> QED
    BY <2>1, <2>2, <2>3 DEF Typed, Queued
<1> QED
  BY <1>1, <1>2, <1>3, <1>4, SubmitTyped, HandlersTyped, TurnTyped DEF Next

LEMMA InitTyped == Init => Typed
<1> SUFFICES ASSUME Init PROVE Typed
  OBVIOUS
<1>1. Queued = {}
  BY DEF Init, Queued
<1>2. Cardinality(Queued) = 0
  BY <1>1, FS_EmptySet
<1>3. caller \in [Callers -> Handlers]
  BY DEF Init, Idle, Handlers
<1>4. \A j \in Jobs : status[j] = "unborn"
  BY DEF Init
<1>5. Cardinality(Queued) <= MaxPending
  BY <1>2, AgentAssumption
<1>6. /\ answered = {} /\ quiet = {} /\ service = "down"
      /\ audioActive = FALSE /\ sound = None
  BY DEF Init
<1> QED
  BY <1>3, <1>4, <1>5, <1>6 DEF Typed

\* TypeOK: among others, never more jobs are queued than max_pending allows.
THEOREM TypeCorrect == Spec => []TypeOK
<1>1. Spec => []Typed
  BY InitTyped, NextTyped, InvariantAlways, HushedAlways, PTL DEF Spec
<1>2. IInv /\ Hushed /\ Typed => TypeOK
  BY DEF IInv, Shape, Hushed, Typed, TypeOK, Recorded
<1> QED
  BY <1>1, <1>2, InvariantAlways, HushedAlways, PTL

=============================================================================
