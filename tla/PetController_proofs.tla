------------------------ MODULE PetController_proofs ------------------------
(***************************************************************************)
(* Proofs about the interaction controller, for all sets of decisions,     *)
(* sessions, turns and kinds of events.                                    *)
(***************************************************************************)
EXTENDS PetController, TLAPS

\* Types, with a record for every decision.
Typed ==
  /\ context \in Contexts \cup {None} /\ retired \subseteq Sessions
  /\ connected \in BOOLEAN /\ final \in BOOLEAN /\ busy \in BOOLEAN
  /\ stopped \in BOOLEAN /\ resting \in BOOLEAN /\ closed \in BOOLEAN
  /\ broken \in BOOLEAN /\ shut \in BOOLEAN /\ undone \in BOOLEAN
  /\ state \in {"resting", "responding", "other"}
  /\ active \in Decisions \cup {None} /\ output \in Decisions \cup {None}
  /\ baseline \in Baselines \cup {None}
  /\ decision \in [Decisions -> Record]
  /\ lock \in Locks \cup {None}
  /\ lease \in {"off", "held", "leaving"}
  /\ awaited \subseteq Decisions /\ holder \in Decisions \cup {"free", "lock", "close"}

\* A turn that has been answered: an earlier one of the session that is
\* heard, one of a session that was left, or the present one after its final.
Past(turn) ==
  /\ context # None /\ (turn = context => final)
  /\ IF turn.session = context.session THEN turn.epoch <= context.epoch
                                       ELSE turn.session \in retired

\* What a decision's record says of itself.
Coherent(r) ==
  /\ r.phase \in {"none", "start"} => r.receipt = "waiting"
  /\ r.kind \in Spoken => r.by = "voice"
  /\ r.motion = "held" => r.kind = "look_up"
  /\ r.by = "voice" => r.turn # None /\ Past(r.turn)

Answered == \A d \in Decisions : Coherent(decision[d])

\* Only a session that was not left is heard, and a spoken decision is active
\* only in the turn it answers.
Listening ==
  /\ connected => context # None /\ context.session \notin retired
  /\ active # None /\ decision[active].by = "voice" =>
       connected /\ decision[active].turn = context

\* Nothing is active after a stop, and a decision that has the lock has asked
\* the executor for nothing yet.
Stilled ==
  /\ stopped \/ closed => active = None /\ output = None
  /\ lock # None /\ lock.stage = "halted" => lock.op = "execute" /\ (undone \/ awaited = {})
  /\ lock # None /\ lock.op = "execute" =>
       /\ lock.d \in Decisions
       /\ decision[lock.d].phase = "start" /\ decision[lock.d].by # "visual"

\* A sound is waited for by the active decision or by one that is done, and
\* what is shown as responding has one of the two, unless it is being cleared.
Sounding ==
  /\ output # None =>
       /\ decision[output].phase \notin {"none", "start", "interrupted"}
       /\ decision[output].receipt # "over"
       /\ active = output \/ decision[output].phase = "done"
  /\ state = "responding" =>
       active # None \/ output # None \/ (lock # None /\ lock.op = "cleared")

Composed ==
  /\ Typed /\ Answered /\ OnePerTurn /\ Listening /\ BaselineCurrent
  /\ Stilled /\ StoppedIsStill /\ Sounding /\ RestShown

-----------------------------------------------------------------------------
(* Records of decisions                                                    *)

\* What a step may make of a record: who asked and for which turn are kept,
\* the receipt does not go back, and only a look up comes to a held pose.
Follows(r, s) ==
  /\ s.by = r.by /\ s.turn = r.turn /\ s.kind \in {r.kind, None}
  /\ s.motion = "held" => s.kind = "look_up"
  /\ s.phase \in {"none", "start"} => s.receipt = "waiting"
  /\ Order(s.receipt) >= Order(r.receipt)

\* What a new decision is.
Made(d) ==
  /\ decision[d] = NoDecision /\ decision'[d].receipt = "waiting" /\ decision'[d].motion = "none"
  /\ \/ decision'[d].by = "voice" /\ decision'[d].turn = context /\ context' = context
        /\ context # None /\ ~final /\ final'
     \/ decision'[d].by # "voice" /\ decision'[d].kind \notin Spoken

LEMMA NoDecisionFacts ==
  /\ NoDecision \in Record
  /\ NoDecision.kind = None /\ NoDecision.by = "body" /\ NoDecision.turn = None
  /\ NoDecision.phase = "none" /\ NoDecision.fresh = FALSE /\ NoDecision.motion = "none"
  /\ NoDecision.voice = "none" /\ NoDecision.receipt = "waiting"
BY DEF NoDecision, Record, Phases

LEMMA OverFacts ==
  ASSUME NEW r \in Record, NEW how \in Phases \ {"none", "start"}
  PROVE  /\ Over(r, how) \in Record
         /\ Over(r, how).phase = how /\ Over(r, how).receipt = r.receipt
         /\ Over(r, how).by = r.by /\ Over(r, how).turn = r.turn
         /\ Over(r, how).kind = None /\ Over(r, how).motion = "none"
         /\ Follows(r, Over(r, how))
         /\ \A b \in BOOLEAN :
              LET s == [Over(r, how) EXCEPT !.fresh = b]
              IN /\ s \in Record /\ Follows(r, s)
                 /\ s.phase = how /\ s.receipt = r.receipt /\ s.by = r.by /\ s.turn = r.turn
<1>1. /\ Over(r, how) \in Record
      /\ Over(r, how).phase = how /\ Over(r, how).receipt = r.receipt
      /\ Over(r, how).by = r.by /\ Over(r, how).turn = r.turn
      /\ Over(r, how).kind = None /\ Over(r, how).motion = "none"
  <2> DEFINE n == NoDecision
  <2>1. n \in Record
    BY NoDecisionFacts
  <2>2. [n EXCEPT !.by = r.by, !.turn = r.turn, !.phase = how, !.receipt = r.receipt] \in Record
    <3> HIDE DEF n
    <3> QED
      BY <2>1 DEF Record
  <2>3. Over(r, how).phase = how /\ Over(r, how).receipt = r.receipt
    BY DEF Over, NoDecision
  <2>4. Over(r, how).by = r.by /\ Over(r, how).turn = r.turn
    BY DEF Over, NoDecision
  <2>5. Over(r, how).kind = None /\ Over(r, how).motion = "none"
    BY DEF Over, NoDecision
  <2> QED
    BY <2>2, <2>3, <2>4, <2>5 DEF Over
<1>2. Order(r.receipt) \in Nat
  BY DEF Order
<1>3. Follows(r, Over(r, how))
  BY <1>1, <1>2 DEF Follows
<1>4. ASSUME NEW b \in BOOLEAN
      PROVE  LET s == [Over(r, how) EXCEPT !.fresh = b]
             IN /\ s \in Record /\ Follows(r, s)
                /\ s.phase = how /\ s.receipt = r.receipt /\ s.by = r.by /\ s.turn = r.turn
  <2> DEFINE s == [Over(r, how) EXCEPT !.fresh = b]
  <2>1. /\ s \in Record /\ s.phase = how /\ s.receipt = r.receipt /\ s.by = r.by /\ s.turn = r.turn
        /\ s.kind = None /\ s.motion = "none"
    BY <1>1 DEF Record
  <2>2. Follows(r, s)
    BY <2>1, <1>2 DEF Follows
  <2> QED
    BY <2>1, <2>2
<1> QED
  BY <1>1, <1>3, <1>4

\* One record changes.
LEMMA BecomesOne ==
  ASSUME decision \in [Decisions -> Record], NEW d \in Decisions, NEW r \in Record, Becomes(d, r)
  PROVE  /\ decision' \in [Decisions -> Record] /\ decision'[d] = r
         /\ \A e \in Decisions \ {d} : decision'[e] = decision[e]
BY DEF Becomes

\* What was active or sounding is given up.
LEMMA InvalidatedFacts ==
  ASSUME decision \in [Decisions -> Record]
  PROVE  /\ Invalidated \in [Decisions -> Record]
         /\ \A d \in Decisions : Follows(decision[d], Invalidated[d]) \/ Invalidated[d] = decision[d]
         /\ \A d \in Decisions : decision[d] = NoDecision => Invalidated[d].receipt = "waiting"
<1>1. "interrupted" \in Phases \ {"none", "start"}
  BY DEF Phases
<1>2. \A d \in Decisions : decision[d] \in Record
  OBVIOUS
<1>3. \A d \in Decisions : Over(decision[d], "interrupted") \in Record
                           /\ Follows(decision[d], Over(decision[d], "interrupted"))
                           /\ Over(decision[d], "interrupted").receipt = decision[d].receipt
  BY <1>1, <1>2, OverFacts
<1> QED
  BY <1>2, <1>3, NoDecisionFacts DEF Invalidated
LEMMA FollowsItself ==
  ASSUME NEW r \in Record, Coherent(r)
  PROVE  Follows(r, r)
BY DEF Follows, Coherent, Order

\* A task's step on its own record, or none at all.
LEMMA OneFollows ==
  ASSUME Typed, Answered, NEW d \in Decisions, NEW r \in Record, Becomes(d, r),
         Follows(decision[d], r)
  PROVE  /\ decision' \in [Decisions -> Record]
         /\ \A e \in Decisions : Follows(decision[e], decision'[e])
<1>1. /\ decision' \in [Decisions -> Record] /\ decision'[d] = r
      /\ \A e \in Decisions \ {d} : decision'[e] = decision[e]
  BY BecomesOne DEF Typed
<1> QED
  BY <1>1, FollowsItself DEF Typed, Answered

LEMMA InvalidatedFollows ==
  ASSUME Typed, Answered
  PROVE  /\ Invalidated \in [Decisions -> Record]
         /\ \A e \in Decisions : Follows(decision[e], Invalidated[e])
BY InvalidatedFacts, FollowsItself DEF Typed, Answered

\* The fields a step of a task changes.
LEMMA TaskRecord ==
  ASSUME NEW r \in Record, NEW phase \in Phases \ {"none", "start"},
         NEW motion \in {"none", "waiting", "ok", "held", "bad"},
         NEW voice \in {"none", "queued", "rejected"},
         motion = "held" => r.kind = "look_up"
  PROVE  LET s == [r EXCEPT !.phase = phase, !.motion = motion, !.voice = voice]
         IN /\ s \in Record /\ Follows(r, s) /\ s.phase = phase /\ s.motion = motion
            /\ s.by = r.by /\ s.receipt = r.receipt /\ s.turn = r.turn
<1> DEFINE s == [r EXCEPT !.phase = phase, !.motion = motion, !.voice = voice]
<1>1. /\ s \in Record /\ s.phase = phase /\ s.motion = motion /\ s.kind = r.kind
      /\ s.by = r.by /\ s.receipt = r.receipt /\ s.turn = r.turn
  BY DEF Record
<1>2. Follows(r, s)
  BY <1>1 DEF Follows, Order
<1> QED
  BY <1>1, <1>2
-----------------------------------------------------------------------------
(* Steps of a task that disturb nothing but its own record                 *)

Ended == {"done", "interrupted"}
Unbegun == {"none", "start"}

\* The record keeps its receipt, and its phase or at least the sort of it.
OwnRecord(d) ==
  /\ decision' \in [Decisions -> Record]
  /\ \A e \in Decisions : Follows(decision[e], decision'[e])
  /\ \A e \in Decisions : decision'[e].receipt = decision[e].receipt
  /\ \A e \in Decisions \ {d} : decision'[e] = decision[e]
  /\ decision'[d].phase # decision[d].phase =>
       {decision[d].phase, decision'[d].phase} \cap (Ended \cup Unbegun) = {}

TaskStep(d) ==
  /\ OwnRecord(d) /\ awaited' \subseteq awaited /\ undone' \in BOOLEAN /\ (undone => undone')
  /\ holder' \in Decisions \cup {"free", "lock", "close"}
  /\ broken' = broken /\ shut' \in BOOLEAN
  /\ UNCHANGED <<voiceVars, modeVars, state, ownerVars, baseline, lock, lease>>

LEMMA OwnRecordBecomes ==
  ASSUME Typed, Answered, NEW d \in Decisions, NEW r \in Record, Becomes(d, r),
         r.by = decision[d].by, r.turn = decision[d].turn, r.kind = decision[d].kind,
         r.receipt = decision[d].receipt,
         r.motion = "held" => r.kind = "look_up",
         r.phase # decision[d].phase =>
           {decision[d].phase, r.phase} \cap (Ended \cup Unbegun) = {}
  PROVE  OwnRecord(d)
<1>1. decision[d] \in Record /\ Coherent(decision[d])
  BY DEF Typed, Answered
<1>2. r.phase \in Unbegun => r.receipt = "waiting"
  BY <1>1 DEF Coherent, Unbegun
<1>3. Order(r.receipt) = Order(decision[d].receipt) /\ Order(r.receipt) \in Nat
  BY DEF Order
<1>4. Follows(decision[d], r)
  BY <1>2, <1>3 DEF Follows, Unbegun
<1>5. /\ decision' \in [Decisions -> Record] /\ decision'[d] = r
      /\ \A e \in Decisions \ {d} : decision'[e] = decision[e]
  BY BecomesOne DEF Typed
<1>6. \A e \in Decisions : Follows(decision[e], decision'[e])
  BY <1>4, OneFollows
<1> QED
  BY <1>5, <1>6 DEF OwnRecord

LEMMA UnchangedRecord ==
  ASSUME Typed, Answered, NEW d \in Decisions, decision' = decision
  PROVE  OwnRecord(d)
BY FollowsItself DEF Typed, Answered, OwnRecord

\* What the executor does to us when we hold or release it.
LEMMA MotionFacts ==
  ASSUME undone \in BOOLEAN
  PROVE  /\ \A who, turn, last : Motion!Hold(who, turn, last) =>
              /\ awaited' \subseteq awaited /\ holder = "free" /\ holder' = who /\ broken' = broken
              /\ shut' \in BOOLEAN /\ undone' \in BOOLEAN /\ (undone => undone')
         /\ \A who : Motion!Release(who) =>
              /\ (undone \/ awaited = {}) /\ awaited' \subseteq awaited /\ holder' = "free"
              /\ broken' = broken /\ shut' = shut /\ undone' = undone
         /\ Motion!Work =>
              /\ awaited' \subseteq awaited /\ holder' = holder /\ broken' \in {broken, TRUE}
              /\ shut' = shut /\ undone' \in BOOLEAN /\ (undone => undone')
         /\ \A id : Motion!Accept(id, "ours") =>
              /\ awaited' = awaited \cup {id} /\ holder' = holder /\ broken' = broken
              /\ shut' = shut /\ undone' = undone
<1>1. undone' \in {undone, TRUE} => undone' \in BOOLEAN /\ (undone => undone')
  <2>1. CASE undone = TRUE
    BY <2>1
  <2>2. CASE undone = FALSE
    BY <2>2
  <2> QED
    BY <2>1, <2>2
<1>2. ASSUME NEW who, NEW turn, NEW last, Motion!Hold(who, turn, last)
      PROVE  /\ awaited' \subseteq awaited /\ holder = "free" /\ holder' = who /\ broken' = broken
             /\ shut' \in BOOLEAN /\ undone' \in {undone, TRUE}
  BY <1>2 DEF Motion!Hold
<1>3. Motion!Work =>
        /\ awaited' \subseteq awaited /\ holder' = holder /\ broken' \in {broken, TRUE}
        /\ shut' = shut /\ undone' \in {undone, TRUE}
  BY DEF Motion!Work
<1>4. ASSUME NEW who, Motion!Release(who)
      PROVE  /\ (undone \/ awaited = {}) /\ awaited' \subseteq awaited /\ holder' = "free"
             /\ broken' = broken /\ shut' = shut /\ undone' = undone
  BY <1>4 DEF Motion!Release
<1>5. ASSUME NEW id, Motion!Accept(id, "ours")
      PROVE  /\ awaited' = awaited \cup {id} /\ holder' = holder /\ broken' = broken
             /\ shut' = shut /\ undone' = undone
  BY <1>5 DEF Motion!Accept
<1>6. \A who, turn, last : Motion!Hold(who, turn, last) =>
        /\ awaited' \subseteq awaited /\ holder = "free" /\ holder' = who /\ broken' = broken
        /\ shut' \in BOOLEAN /\ undone' \in BOOLEAN /\ (undone => undone')
  <2> SUFFICES ASSUME NEW who, NEW turn, NEW last, Motion!Hold(who, turn, last)
               PROVE  /\ awaited' \subseteq awaited /\ holder = "free" /\ holder' = who
                      /\ broken' = broken /\ shut' \in BOOLEAN
                      /\ undone' \in BOOLEAN /\ (undone => undone')
    OBVIOUS
  <2>1. undone' \in BOOLEAN /\ (undone => undone')
    BY <1>1, <1>2
  <2> QED
    BY <1>2, <2>1
<1>7. Motion!Work =>
        /\ awaited' \subseteq awaited /\ holder' = holder /\ broken' \in {broken, TRUE}
        /\ shut' = shut /\ undone' \in BOOLEAN /\ (undone => undone')
  BY <1>1, <1>3
<1>8. \A who : Motion!Release(who) =>
        /\ (undone \/ awaited = {}) /\ awaited' \subseteq awaited /\ holder' = "free"
        /\ broken' = broken /\ shut' = shut /\ undone' = undone
  BY <1>4
<1>9. \A id : Motion!Accept(id, "ours") =>
        /\ awaited' = awaited \cup {id} /\ holder' = holder /\ broken' = broken
        /\ shut' = shut /\ undone' = undone
  BY <1>5
<1> QED
  BY <1>6, <1>7, <1>8, <1>9

LEMMA TaskSteps ==
  ASSUME Typed, Answered, NEW d \in Decisions,
         \/ \E answer \in {"queued", "rejected"} : decision[d].by # "visual" /\ VoiceAnswers(d, answer)
         \/ decision[d].by # "visual" /\ VoiceRaises(d)
         \/ \E result \in {"ok", "held", "bad"} : WaitReturns(d, result)
         \/ WaitTimesOut(d) \/ LateAsks(d) \/ LateHalted(d)
         \/ \E answer \in {"queued", "rejected", "none"} : SmileAnswered(d, answer)
         \/ Expires(d)
  PROVE  TaskStep(d)
<1> DEFINE o == decision[d]
<1>1. o \in Record /\ Coherent(o) /\ decision \in [Decisions -> Record]
  BY DEF Typed, Answered
<1>2. holder \in Decisions \cup {"free", "lock", "close"} /\ shut \in BOOLEAN /\ undone \in BOOLEAN
  BY DEF Typed
<1>a. ASSUME NEW answer \in {"queued", "rejected"}, VoiceAnswers(d, answer) PROVE TaskStep(d)
  <2> DEFINE r == [o EXCEPT !.voice = answer,
                            !.phase = IF decision[d].motion = "waiting" THEN "moving" ELSE "closing"]
  <2>1. /\ r \in Record /\ r.by = o.by /\ r.turn = o.turn /\ r.kind = o.kind
        /\ r.receipt = o.receipt /\ r.motion = o.motion /\ r.phase \in {"moving", "closing"}
    BY <1>1 DEF Record, Phases
  <2>2. Becomes(d, r) /\ o.phase = "speaking"
    BY <1>a DEF VoiceAnswers, At
  <2> HIDE DEF r
  <2>3. OwnRecord(d)
    BY <2>1, <2>2, <1>1, OwnRecordBecomes DEF Coherent, Ended, Unbegun
  <2> QED
    BY <1>a, <2>3, <1>2 DEF VoiceAnswers, TaskStep, motionVars
<1>b. CASE VoiceRaises(d)
  <2> DEFINE r == [o EXCEPT !.phase = "failing"]
  <2>1. /\ r \in Record /\ r.by = o.by /\ r.turn = o.turn /\ r.kind = o.kind
        /\ r.receipt = o.receipt /\ r.motion = o.motion /\ r.phase = "failing"
    BY <1>1 DEF Record, Phases
  <2>2. Becomes(d, r) /\ o.phase = "speaking"
    BY <1>b DEF VoiceRaises, At
  <2> HIDE DEF r
  <2>3. OwnRecord(d)
    BY <2>1, <2>2, <1>1, OwnRecordBecomes DEF Coherent, Ended, Unbegun
  <2> QED
    BY <1>b, <2>3, <1>2 DEF VoiceRaises, TaskStep, motionVars
<1>c. ASSUME NEW result \in {"ok", "held", "bad"}, WaitReturns(d, result) PROVE TaskStep(d)
  <2> DEFINE r == [o EXCEPT !.motion = result, !.phase = "closing"]
  <2>1. /\ r \in Record /\ r.by = o.by /\ r.turn = o.turn /\ r.kind = o.kind
        /\ r.receipt = o.receipt /\ r.motion = result /\ r.phase = "closing"
    BY <1>1 DEF Record, Phases
  <2>2. Becomes(d, r) /\ o.phase = "moving" /\ (result = "held" => o.kind = "look_up")
    BY <1>c DEF WaitReturns, At
  <2> HIDE DEF r
  <2>3. OwnRecord(d)
    BY <2>1, <2>2, OwnRecordBecomes DEF Ended, Unbegun
  <2> QED
    BY <1>c, <2>3, <1>2 DEF WaitReturns, TaskStep, motionVars
<1>d. CASE WaitTimesOut(d)
  <2> DEFINE r == [o EXCEPT !.phase = "late"]
  <2>1. /\ r \in Record /\ r.by = o.by /\ r.turn = o.turn /\ r.kind = o.kind
        /\ r.receipt = o.receipt /\ r.motion = o.motion /\ r.phase = "late"
    BY <1>1 DEF Record, Phases
  <2>2. Becomes(d, r) /\ o.phase = "moving"
    BY <1>d DEF WaitTimesOut, At
  <2> HIDE DEF r
  <2>3. OwnRecord(d)
    BY <2>1, <2>2, <1>1, OwnRecordBecomes DEF Coherent, Ended, Unbegun
  <2> QED
    BY <1>d, <2>3, <1>2 DEF WaitTimesOut, TaskStep, motionVars
<1>e. CASE LateAsks(d)
  <2> DEFINE r == [o EXCEPT !.phase = "halting"]
  <2>1. /\ r \in Record /\ r.by = o.by /\ r.turn = o.turn /\ r.kind = o.kind
        /\ r.receipt = o.receipt /\ r.motion = o.motion /\ r.phase = "halting"
    BY <1>1 DEF Record, Phases
  <2>2. Becomes(d, r) /\ o.phase = "late" /\ Motion!Hold(d, token, FALSE)
    BY <1>e DEF LateAsks, Takes, At
  <2> HIDE DEF r
  <2>3. OwnRecord(d)
    BY <2>1, <2>2, <1>1, OwnRecordBecomes DEF Coherent, Ended, Unbegun
  <2>4. /\ awaited' \subseteq awaited /\ undone' \in BOOLEAN /\ (undone => undone')
        /\ holder' = d /\ broken' = broken /\ shut' \in BOOLEAN
    BY <2>2, <1>2, MotionFacts
  <2> QED
    BY <1>e, <2>3, <2>4 DEF LateAsks, Takes, TaskStep
<1>f. CASE LateHalted(d)
  <2> DEFINE r == [o EXCEPT !.motion = "bad", !.phase = "closing"]
  <2>1. /\ r \in Record /\ r.by = o.by /\ r.turn = o.turn /\ r.kind = o.kind
        /\ r.receipt = o.receipt /\ r.motion = "bad" /\ r.phase = "closing"
    BY <1>1 DEF Record, Phases
  <2>2. (Becomes(d, r) /\ o.phase = "halting") \/ decision' = decision
    BY <1>f DEF LateHalted, At
  <2> HIDE DEF r
  <2>3. OwnRecord(d)
    BY <2>1, <2>2, OwnRecordBecomes, UnchangedRecord DEF Ended, Unbegun
  <2>4. /\ awaited' \subseteq awaited /\ undone' \in BOOLEAN /\ (undone => undone')
        /\ holder' = "free" /\ broken' = broken /\ shut' \in BOOLEAN
    BY <1>f, <1>2, MotionFacts DEF LateHalted
  <2> QED
    BY <1>f, <2>3, <2>4 DEF LateHalted, TaskStep
<1>g. ASSUME NEW answer \in {"queued", "rejected", "none"}, SmileAnswered(d, answer) PROVE TaskStep(d)
  <2> DEFINE r == [o EXCEPT !.phase = "closing", !.voice = answer]
  <2>1. /\ r \in Record /\ r.by = o.by /\ r.turn = o.turn /\ r.kind = o.kind
        /\ r.receipt = o.receipt /\ r.motion = o.motion /\ r.phase = "closing"
    BY <1>1 DEF Record, Phases
  <2>2. Becomes(d, r) /\ o.phase = "speaking"
    BY <1>g DEF SmileAnswered, At
  <2> HIDE DEF r
  <2>3. OwnRecord(d)
    BY <2>1, <2>2, <1>1, OwnRecordBecomes DEF Coherent, Ended, Unbegun
  <2> QED
    BY <1>g, <2>3, <1>2 DEF SmileAnswered, TaskStep, motionVars
<1>h. CASE Expires(d)
  <2> DEFINE r == [o EXCEPT !.fresh = FALSE]
  <2>1. /\ r \in Record /\ r.by = o.by /\ r.turn = o.turn /\ r.kind = o.kind
        /\ r.receipt = o.receipt /\ r.motion = o.motion /\ r.phase = o.phase
    BY <1>1 DEF Record, Phases
  <2>2. Becomes(d, r)
    BY <1>h DEF Expires
  <2> HIDE DEF r
  <2>3. OwnRecord(d)
    BY <2>1, <2>2, <1>1, OwnRecordBecomes DEF Coherent
  <2> QED
    BY <1>h, <2>3, <1>2 DEF Expires, TaskStep, motionVars
<1> QED
  BY <1>a, <1>b, <1>c, <1>d, <1>e, <1>f, <1>g, <1>h
-----------------------------------------------------------------------------
(* Turns                                                                   *)

PastKept == \A turn \in Contexts : Past(turn) => Past(turn)'

LEMMA ContextFacts ==
  /\ None \notin Decisions /\ None \notin Contexts /\ None \notin Spoken
  /\ \A turn \in Contexts : turn.session \in Sessions /\ turn.epoch \in Nat
  /\ \A s, e : [session |-> s, epoch |-> e].session = s /\ [session |-> s, epoch |-> e].epoch = e
  /\ \A t, u \in Contexts : t.session = u.session /\ t.epoch = u.epoch => t = u
BY ControllerAssumption DEF AllKinds, Spoken

\* Within a turn a final that came stays, and what was left stays left.
LEMMA SameContext ==
  ASSUME context' = context, final => final', retired \subseteq retired'
  PROVE  PastKept
BY DEF PastKept, Past

\* Every turn is answered by one decision: the records follow each other, but
\* for at most one that is new.
LEMMA RecordsKept ==
  ASSUME Typed, Answered, OnePerTurn, PastKept, decision' \in [Decisions -> Record],
         NEW d \in Decisions,
         \A e \in Decisions \ {d} : Follows(decision[e], decision'[e]),
         Follows(decision[d], decision'[d]) \/ Made(d)
  PROVE  Answered' /\ OnePerTurn'
<1>1. ASSUME NEW e \in Decisions, Follows(decision[e], decision'[e])
      PROVE  Coherent(decision[e])'
  <2> DEFINE r == decision[e]  s == decision'[e]
  <2>1. r.by = "voice" => r.turn # None /\ Past(r.turn) /\ r.turn \in Contexts
    BY DEF Answered, Coherent, Typed, Record
  <2>2. r.kind \in Spoken => r.by = "voice"
    BY DEF Answered, Coherent
  <2>3. /\ s.by = r.by /\ s.turn = r.turn /\ s.kind \in {r.kind, None}
        /\ s.motion = "held" => s.kind = "look_up"
        /\ s.phase \in {"none", "start"} => s.receipt = "waiting"
    BY <1>1 DEF Follows
  <2>4. s.by = "voice" => s.turn # None /\ Past(decision[e].turn)'
    BY <2>1, <2>3 DEF PastKept, Past
  <2> HIDE DEF r, s
  <2>5. /\ s.phase \in {"none", "start"} => s.receipt = "waiting"
        /\ s.kind \in Spoken => s.by = "voice"
        /\ s.motion = "held" => s.kind = "look_up"
    BY <2>2, <2>3, ContextFacts
  <2> USE DEF s
  <2> QED
    BY <2>4, <2>5 DEF Coherent
<1>2. ASSUME Made(d) PROVE Coherent(decision[d])'
  <2>1. CASE decision'[d].by = "voice"
    <3>1. /\ decision'[d].turn = context /\ context' = context /\ context # None /\ final'
          /\ decision'[d].receipt = "waiting" /\ decision'[d].motion = "none"
      BY <1>2, <2>1 DEF Made
    <3>2. context \in Contexts /\ context.epoch \in Nat
      BY <3>1, ContextFacts DEF Typed
    <3> QED
      BY <2>1, <3>1, <3>2 DEF Coherent, Past
  <2>2. CASE decision'[d].by # "voice"
    BY <1>2, <2>2 DEF Made, Coherent
  <2> QED
    BY <2>1, <2>2
<1>3. Answered'
  BY <1>1, <1>2 DEF Answered
<1>4. ASSUME NEW e \in Decisions, NEW f \in Decisions, e # f,
             decision'[e].by = "voice", decision'[f].by = "voice",
             decision'[e].turn = decision'[f].turn, f # d, Follows(decision[f], decision'[f])
      PROVE  FALSE
  <2>1. decision[f].by = "voice" /\ decision'[f].turn = decision[f].turn
    BY <1>4 DEF Follows
  <2>2. Past(decision[f].turn)
    BY <2>1 DEF Answered, Coherent
  <2>3. CASE Follows(decision[e], decision'[e])
    BY <1>4, <2>1, <2>3 DEF Follows, OnePerTurn
  <2>4. CASE e = d /\ Made(d)
    BY <1>4, <2>1, <2>2, <2>4 DEF Made, Past
  <2> QED
    BY <2>3, <2>4
<1>5. OnePerTurn'
  BY <1>4 DEF OnePerTurn
<1> QED
  BY <1>3, <1>5

LEMMA AllFollow ==
  ASSUME Typed, Answered, OnePerTurn, PastKept, decision' \in [Decisions -> Record],
         \A e \in Decisions : Follows(decision[e], decision'[e])
  PROVE  Answered' /\ OnePerTurn'
<1>1. CASE Decisions = {}
  BY <1>1 DEF Answered, OnePerTurn
<1>2. CASE Decisions # {}
  BY <1>2, RecordsKept
<1> QED
  BY <1>1, <1>2
\* No receipt goes back.
Advances == \A d \in Decisions : Order(decision'[d].receipt) >= Order(decision[d].receipt)

LEMMA RecordsUnchanged ==
  ASSUME Typed, Answered, decision' = decision
  PROVE  /\ decision' \in [Decisions -> Record]
         /\ \A e \in Decisions : Follows(decision[e], decision'[e])
BY FollowsItself DEF Typed, Answered

LEMMA TaskStepKeeps ==
  ASSUME Composed, NEW d \in Decisions, TaskStep(d)
  PROVE  Composed' /\ Advances
<1>1. /\ Typed /\ Answered /\ OnePerTurn /\ Listening /\ BaselineCurrent
      /\ Stilled /\ StoppedIsStill /\ Sounding /\ RestShown
  BY DEF Composed
<1>2. /\ context' = context /\ connected' = connected /\ retired' = retired /\ final' = final
      /\ busy' = busy /\ stopped' = stopped /\ resting' = resting /\ closed' = closed
      /\ state' = state /\ active' = active /\ output' = output /\ baseline' = baseline
      /\ lock' = lock /\ lease' = lease /\ broken' = broken /\ shut' \in BOOLEAN
      /\ awaited' \subseteq awaited /\ undone' \in BOOLEAN /\ (undone => undone')
      /\ holder' \in Decisions \cup {"free", "lock", "close"}
  BY DEF TaskStep, voiceVars, modeVars, ownerVars
<1>3. /\ decision' \in [Decisions -> Record]
      /\ \A e \in Decisions : Follows(decision[e], decision'[e])
      /\ \A e \in Decisions : decision'[e].receipt = decision[e].receipt
      /\ \A e \in Decisions : decision'[e].by = decision[e].by /\ decision'[e].turn = decision[e].turn
  BY DEF TaskStep, OwnRecord, Follows
<1>4. \A e \in Decisions :
        \/ decision'[e].phase = decision[e].phase
        \/ {decision[e].phase, decision'[e].phase} \cap (Ended \cup Unbegun) = {}
  BY DEF TaskStep, OwnRecord
<1>5. Typed'
  BY <1>1, <1>2, <1>3 DEF Typed
<1>6. Answered' /\ OnePerTurn'
  BY <1>1, <1>2, <1>3, SameContext, AllFollow
<1>7. Listening' /\ BaselineCurrent' /\ RestShown'
  BY <1>1, <1>2, <1>3 DEF Typed, Listening, BaselineCurrent, RestShown
<1>8. Stilled' /\ StoppedIsStill'
  <2>1. lock # None /\ lock.op = "execute" =>
          decision'[lock.d].phase = "start" /\ decision'[lock.d].by # "visual"
    BY <1>1, <1>3, <1>4 DEF Stilled, Unbegun
  <2> QED
    BY <1>1, <1>2, <2>1 DEF Stilled, StoppedIsStill, Unlocked
<1>9. Sounding'
  <2>1. ASSUME output # None
        PROVE  /\ decision'[output].phase \notin {"none", "start", "interrupted"}
               /\ decision'[output].receipt # "over"
               /\ active = output \/ decision'[output].phase = "done"
    <3>1. output \in Decisions
      BY <1>1, <2>1 DEF Typed
    <3> QED
      BY <1>1, <1>3, <1>4, <2>1, <3>1 DEF Sounding, Ended, Unbegun
  <2> QED
    BY <1>1, <1>2, <2>1 DEF Sounding
<1> QED
  BY <1>3, <1>5, <1>6, <1>7, <1>8, <1>9 DEF Composed, Follows, Advances

-----------------------------------------------------------------------------
(* Steps that change no record and make nothing active                     *)

Aside ==
  /\ UNCHANGED <<context, retired, decision, active, output, closed>> /\ Typed'
  /\ connected' = connected \/ (connected' /\ context # None /\ context.session \notin retired)
  /\ final => final'
  /\ baseline' \in {baseline, None}
  /\ stopped' => stopped
  /\ resting' => resting /\ stopped' = stopped
  /\ state' = state \/ (state' = "other" /\ (state # "resting" \/ ~resting))
  /\ lock # None /\ lock.op = "cleared" /\ state' = "responding" => lock' # None /\ lock'.op = "cleared"
  /\ lock' = lock \/ (lock # None /\ lock' = None)
       \/ (lock # None /\ lock' # None /\ lock'.op = lock.op /\ lock'.d = lock.d
           /\ (lock'.stage = "halted" => lock'.op = "execute"))
  /\ lock' = lock \/ (lock' # None /\ lock'.stage = "halts") \/ undone' \/ awaited' = {}
  /\ awaited' \subseteq awaited /\ (undone => undone')

LEMMA AsideKeeps ==
  ASSUME Composed, Aside
  PROVE  Composed' /\ Advances
<1>1. /\ Typed /\ Answered /\ OnePerTurn /\ Listening /\ BaselineCurrent
      /\ Stilled /\ StoppedIsStill /\ Sounding /\ RestShown
  BY DEF Composed
<1>2. /\ context' = context /\ decision' = decision /\ active' = active /\ output' = output
      /\ closed' = closed /\ retired' = retired /\ Typed'
  BY DEF Aside
<1>3. Answered' /\ OnePerTurn'
  <2>1. PastKept
    BY <1>2, SameContext DEF Aside
  <2> QED
    BY <1>1, <1>2, <2>1, RecordsUnchanged, AllFollow
<1>4. Listening'
  <2>1. connected' => context # None /\ context.session \notin retired
    BY <1>1 DEF Aside, Listening
  <2>2. active # None /\ decision[active].by = "voice" => connected' /\ decision[active].turn = context
    BY <1>1 DEF Aside, Listening
  <2> QED
    BY <1>2, <2>1, <2>2 DEF Listening
<1>5. BaselineCurrent'
  <2>1. baseline' # None => baseline' = baseline
    BY DEF Aside
  <2>2. connected => connected'
    BY <1>1 DEF Aside, Typed
  <2> QED
    BY <1>1, <1>2, <2>1, <2>2 DEF BaselineCurrent
<1>6. Stilled'
  <2>1. stopped' \/ closed' => active' = None /\ output' = None
    BY <1>1, <1>2 DEF Aside, Stilled
  <2>2. lock' # None /\ lock'.stage = "halted" => lock'.op = "execute" /\ (undone' \/ awaited' = {})
    BY <1>1 DEF Aside, Stilled
  <2>3. lock' # None => lock # None /\ lock'.op = lock.op /\ lock'.d = lock.d
    BY DEF Aside
  <2>4. lock' # None /\ lock'.op = "execute" =>
          /\ lock'.d \in Decisions
          /\ decision[lock'.d].phase = "start" /\ decision[lock'.d].by # "visual"
    BY <1>1, <2>3 DEF Stilled
  <2> QED
    BY <1>2, <2>1, <2>2, <2>4 DEF Stilled
<1>7. StoppedIsStill'
  <2>1. CASE lock' = lock
    BY <1>1, <1>2, <2>1 DEF StoppedIsStill, Unlocked, Aside
  <2>2. CASE lock' # lock
    BY <2>2 DEF StoppedIsStill, Unlocked, Aside
  <2> QED
    BY <2>1, <2>2
<1>8. Sounding'
  <2>1. state' = "responding" => state = "responding"
    BY DEF Aside
  <2>2. state' = "responding" => active # None \/ output # None \/ (lock' # None /\ lock'.op = "cleared")
    BY <1>1, <2>1 DEF Aside, Sounding
  <2> QED
    BY <1>1, <1>2, <2>2 DEF Sounding
<1>9. RestShown'
  BY <1>1, <1>2 DEF RestShown, Aside
<1>10. Advances
  BY <1>1, <1>2, RecordsUnchanged DEF Advances, Follows
<1> QED
  BY <1>2, <1>3, <1>4, <1>5, <1>6, <1>7, <1>8, <1>9, <1>10 DEF Composed

LEMMA StagedLock ==
  ASSUME lock \in Locks, NEW stage \in {"asks", "halts", "halted"}
  PROVE  LET l == [lock EXCEPT !.stage = stage]
         IN l \in Locks /\ l # None /\ l.op = lock.op /\ l.d = lock.d /\ l.stage = stage
<1> DEFINE l == [lock EXCEPT !.stage = stage]
<1>1. l \in Locks /\ l.op = lock.op /\ l.d = lock.d /\ l.stage = stage
  BY DEF Locks
<1> QED
  BY <1>1, NoneApart

LEMMA AsideSteps ==
  ASSUME Composed,
         \/ AsksMotion \/ MotionHalted \/ BusyEnds \/ LeaseEnds \/ ClosesMotion \/ MotionClosed
         \/ MotionWorks
         \/ \E c \in Contexts, reason \in Reasons : RepeatTurn(c.session, c.epoch, reason)
         \/ \E kind \in Kinds : Suppress(kind)
         \/ DisconnectProactive /\ UNCHANGED <<state, ownerVars, decision>>
  PROVE  Aside
<1>1. /\ Typed /\ Answered /\ OnePerTurn /\ Listening /\ BaselineCurrent
      /\ Stilled /\ StoppedIsStill /\ Sounding /\ RestShown
  BY DEF Composed
<1>2. lock # None => lock \in Locks
  BY <1>1 DEF Typed
<1>a. CASE AsksMotion
  <2>1. /\ lock # None /\ lock.stage = "asks" /\ lock \in Locks
        /\ awaited' \subseteq awaited /\ undone' \in BOOLEAN /\ (undone => undone')
        /\ holder' = "lock" /\ broken' = broken /\ shut' \in BOOLEAN
    BY <1>1, <1>2, <1>a, MotionFacts DEF AsksMotion, Takes, Typed
  <2>2. /\ lock' \in Locks /\ lock' # None /\ lock'.op = lock.op /\ lock'.d = lock.d
        /\ lock'.stage = "halts"
    BY <1>a, <2>1, StagedLock DEF AsksMotion, Takes
  <2>3. Typed'
    BY <1>1, <1>a, <2>1, <2>2 DEF AsksMotion, Takes, Typed, voiceVars, modeVars, ownerVars
  <2> QED
    BY <1>a, <2>1, <2>2, <2>3 DEF AsksMotion, Takes, Aside, voiceVars, modeVars, ownerVars
<1>b. CASE MotionHalted
  <2>1. /\ lock # None /\ lock.stage = "halts" /\ lock \in Locks
        /\ undone' = undone /\ (undone \/ awaited = {}) /\ awaited' \subseteq awaited
        /\ holder' = "free" /\ broken' = broken /\ shut' = shut
    BY <1>1, <1>2, <1>b, MotionFacts DEF MotionHalted, Typed
  <2>2. \/ lock.op # "execute" /\ lock' = None
        \/ /\ lock.op = "execute"
           /\ lock' \in Locks /\ lock' # None /\ lock'.op = lock.op /\ lock'.d = lock.d
           /\ lock'.stage = "halted"
    BY <1>b, <2>1, StagedLock DEF MotionHalted
  <2>3. baseline' \in {baseline, None} /\ lease' \in {"off", "held", "leaving"}
    BY <1>1, <1>b DEF MotionHalted, KeptByStop, Typed
  <2>4. /\ state' = state \/ (state' = "other" /\ state # "resting")
        /\ lock.op = "cleared" => state' # "responding"
    BY <1>b DEF MotionHalted
  <2>5. Typed'
    BY <1>1, <1>b, <2>1, <2>2, <2>3, <2>4 DEF MotionHalted, Typed, voiceVars, modeVars, ownerVars
  <2>6. /\ UNCHANGED <<context, retired, decision, active, output, closed>>
        /\ connected' = connected /\ final' = final /\ stopped' = stopped /\ resting' = resting
    BY <1>b DEF MotionHalted, voiceVars, modeVars, ownerVars
  <2> QED
    BY <2>1, <2>2, <2>3, <2>4, <2>5, <2>6 DEF Aside
<1>c. CASE BusyEnds \/ LeaseEnds \/ (DisconnectProactive /\ UNCHANGED <<state, ownerVars, decision>>)
  <2>1. /\ UNCHANGED <<context, retired, decision, active, output, closed>>
        /\ connected' = connected /\ final' = final /\ stopped' = stopped /\ resting' = resting
        /\ state' = state /\ baseline' = baseline /\ lock' = lock /\ awaited' = awaited /\ undone' = undone
        /\ holder' = holder /\ broken' = broken /\ shut' = shut
        /\ busy' \in BOOLEAN /\ lease' \in {"off", "held", "leaving"}
    BY <1>1, <1>c DEF BusyEnds, LeaseEnds, DisconnectProactive, voiceVars, modeVars, ownerVars, motionVars, Typed
  <2> QED
    BY <1>1, <2>1 DEF Aside, Typed
<1>d. CASE ClosesMotion \/ MotionClosed \/ MotionWorks
  <2>1. /\ UNCHANGED <<context, retired, decision, active, output, closed>>
        /\ connected' = connected /\ final' = final /\ stopped' = stopped /\ resting' = resting
        /\ state' = state /\ baseline' = baseline /\ lock' = lock
        /\ busy' = busy /\ lease' \in {"off", "held", "leaving"}
    BY <1>1, <1>d DEF ClosesMotion, Takes, MotionClosed, MotionWorks, voiceVars, modeVars, ownerVars, Typed
  <2>2. /\ awaited' \subseteq awaited /\ undone' \in BOOLEAN /\ (undone => undone')
        /\ holder' \in Decisions \cup {"free", "lock", "close"}
        /\ broken' \in BOOLEAN /\ shut' \in BOOLEAN
    BY <1>1, <1>d, MotionFacts DEF ClosesMotion, Takes, MotionClosed, MotionWorks, Typed
  <2> QED
    BY <1>1, <2>1, <2>2 DEF Aside, Typed
<1>e. ASSUME NEW c \in Contexts, NEW reason \in Reasons, RepeatTurn(c.session, c.epoch, reason)
      PROVE  Aside
  <2>1. /\ UNCHANGED <<context, retired, decision, active, output, closed>>
        /\ connected' = TRUE /\ final' = final /\ stopped' = stopped /\ resting' = resting
        /\ baseline' = baseline /\ lock' = lock /\ awaited' = awaited /\ undone' = undone
        /\ holder' = holder /\ broken' = broken /\ shut' = shut /\ lease' = lease
    BY <1>e DEF RepeatTurn, modeVars, ownerVars, motionVars
  <2>2. busy' \in BOOLEAN /\ (state' = state \/ (state' = "other" /\ ~resting))
    BY <1>1, <1>e DEF RepeatTurn, Typed
  <2>3. context # None /\ context.session \notin retired
    <3>1. context = [session |-> c.session, epoch |-> c.epoch] /\ c.session \notin retired
      BY <1>e DEF RepeatTurn, SameTurn, Stale
    <3>2. context = c
      BY <3>1, ControllerAssumption
    <3> QED
      BY <3>1, <3>2, ContextFacts
  <2>4. connected' \in BOOLEAN /\ connected'
    BY <2>1
  <2>5. Typed'
    BY <1>1, <2>1, <2>2, <2>4 DEF Typed
  <2>6. state' = "responding" => state' = state
    BY <2>2
  <2>7. /\ stopped' => stopped
        /\ resting' => resting /\ stopped' = stopped
        /\ final => final'
    BY <2>1
  <2> QED
    BY <2>1, <2>2, <2>3, <2>4, <2>5, <2>6, <2>7 DEF Aside
<1>f. ASSUME NEW kind \in Kinds, Suppress(kind) PROVE Aside
  <2>1. /\ UNCHANGED <<context, retired, decision, active, output, closed>>
        /\ connected' = connected /\ lock' = lock /\ awaited' = awaited /\ undone' = undone /\ state' = state
        /\ holder' = holder /\ broken' = broken /\ shut' = shut /\ lease' = lease /\ busy' = busy
        /\ final' = (final \/ kind \in Spoken)
    BY <1>f DEF Suppress, Receives, Rouses, modeVars, ownerVars, motionVars
  <2>2. /\ stopped' \in BOOLEAN /\ resting' \in BOOLEAN
        /\ stopped' => stopped
        /\ resting' => resting /\ stopped' = stopped
    <3>1. CASE UNCHANGED modeVars
      BY <1>1, <3>1 DEF modeVars, Typed
    <3>2. CASE Rouses(kind)
      BY <1>1, <3>2 DEF Rouses, Typed
    <3> QED
      BY <1>f, <3>1, <3>2 DEF Suppress, modeVars
  <2>3. baseline' \in {baseline, None}
    BY <1>f DEF Suppress
  <2> QED
    BY <1>1, <2>1, <2>2, <2>3 DEF Aside, Typed
<1> QED
  BY <1>a, <1>b, <1>c, <1>d, <1>e, <1>f
-----------------------------------------------------------------------------
(* Steps that give up what is active and what sounds                       *)

GivesUp ==
  /\ Unlocked /\ Invalidate /\ Typed' /\ PastKept /\ RestShown'
  /\ connected' => context' # None /\ context'.session \notin retired'
  /\ baseline' # None => connected' /\ baseline'.session = context'.session
  /\ \/ lock' # None /\ lock'.stage = "asks" /\ lock'.op # "execute"
     \/ lock' = None /\ UNCHANGED <<stopped, closed, awaited, undone>>
  /\ state' = "responding" => lock' # None /\ lock'.op = "cleared"

LEMMA GivesUpKeeps ==
  ASSUME Composed, GivesUp
  PROVE  Composed' /\ Advances
<1>1. /\ Typed /\ Answered /\ OnePerTurn /\ Listening /\ BaselineCurrent
      /\ Stilled /\ StoppedIsStill /\ Sounding /\ RestShown
  BY DEF Composed
<1>2. decision' = Invalidated /\ active' = None /\ output' = None
  BY DEF GivesUp, Invalidate
<1>3. Answered' /\ OnePerTurn'
  BY <1>1, <1>2, InvalidatedFollows, AllFollow DEF GivesUp
<1>4. Listening'
  BY <1>2 DEF Listening, GivesUp
<1>5. BaselineCurrent'
  BY DEF BaselineCurrent, GivesUp
<1>6. Stilled'
  BY <1>2 DEF Stilled, GivesUp
<1>7. StoppedIsStill'
  BY <1>1 DEF StoppedIsStill, Unlocked, GivesUp
<1>8. Sounding'
  BY <1>2 DEF Sounding, GivesUp
<1>9. Advances
  BY <1>1, <1>2, InvalidatedFollows DEF Advances, Follows
<1> QED
  BY <1>3, <1>4, <1>5, <1>6, <1>7, <1>8, <1>9 DEF Composed, GivesUp

LEMMA AwaitsFacts ==
  ASSUME NEW op \in Handlers, NEW d \in Decisions \cup {None}, Awaits(op, d)
  PROVE  lock' \in Locks /\ lock' # None /\ lock'.op = op /\ lock'.d = d /\ lock'.stage = "asks"
<1> DEFINE l == [op |-> op, d |-> d, stage |-> "asks"]
<1>1. l \in Locks /\ l.op = op /\ l.d = d /\ l.stage = "asks"
  BY DEF Locks
<1>2. l # None
  BY <1>1, NoneApart
<1> QED
  BY <1>1, <1>2 DEF Awaits

\* Past turns stay past when a new one begins ...
LEMMA NewContext ==
  ASSUME Typed, Listening, NEW c \in Contexts, ~Stale(c.session, c.epoch), context # c,
         context' = c, final' = FALSE,
         retired' = retired \cup (IF context # None /\ context.session # c.session
                                  THEN {context.session} ELSE {})
  PROVE  PastKept /\ c.session \notin retired'
<1>1. c.session \notin retired
  BY DEF Stale
<1>2. c.session \notin retired'
  BY <1>1
<1>3. ASSUME NEW turn \in Contexts, Past(turn) PROVE Past(turn)'
  <2>1. context # None /\ context \in Contexts
    BY <1>3 DEF Past, Typed
  <2>2. /\ turn.session \in Sessions /\ turn.epoch \in Nat /\ c.epoch \in Nat /\ context.epoch \in Nat
    BY <2>1, ContextFacts
  <2>3. turn # c
    <3>1. CASE turn.session = context.session
      <4>1. turn.epoch <= context.epoch
        BY <1>3, <3>1 DEF Past
      <4>2. SUFFICES ASSUME turn = c PROVE FALSE
        OBVIOUS
      <4>3. ~(c.epoch < context.epoch)
        BY <2>1, <3>1, <4>2 DEF Stale
      <4>4. c.epoch = context.epoch
        BY <2>2, <4>1, <4>2, <4>3
      <4> QED
        BY <2>1, <3>1, <4>2, <4>4, ContextFacts
    <3>2. CASE turn.session # context.session
      BY <1>1, <1>3, <3>2 DEF Past
    <3> QED
      BY <3>1, <3>2
  <2>4. CASE turn.session = c.session
    <3>1. turn.session = context.session /\ turn.epoch <= context.epoch
      BY <1>1, <1>3, <2>4 DEF Past
    <3>2. ~(c.epoch < context.epoch)
      BY <2>1, <2>4, <3>1 DEF Stale
    <3>3. turn.epoch <= c.epoch
      BY <2>2, <3>1, <3>2
    <3> QED
      BY <2>3, <2>4, <3>3, ContextFacts DEF Past
  <2>5. CASE turn.session # c.session
    <3>1. turn.session \in retired'
      BY <1>3, <2>1, <2>5 DEF Past
    <3> QED
      BY <2>3, <2>5, <3>1, ContextFacts DEF Past
  <2> QED
    BY <2>4, <2>5
<1> QED
  BY <1>2, <1>3 DEF PastKept

LEMMA GivesUpSteps ==
  ASSUME Composed,
         \/ \E c \in Contexts, reason \in Reasons : VoiceTurn(c.session, c.epoch, reason)
         \/ DisconnectVoice \/ (\E spoken, rests \in BOOLEAN : Stop(spoken, rests))
         \/ PresenceCleared \/ Close
         \/ DisconnectProactive /\ Invalidate /\ state' = Quiet
  PROVE  GivesUp
<1>1. /\ Typed /\ Answered /\ OnePerTurn /\ Listening /\ BaselineCurrent
      /\ Stilled /\ StoppedIsStill /\ Sounding /\ RestShown
  BY DEF Composed
<1>2. /\ Invalidated \in [Decisions -> Record]
      /\ (IF context = None THEN {} ELSE {context.session}) \subseteq Sessions
  BY <1>1, InvalidatedFollows, ContextFacts DEF Typed
<1>3. Quiet \in {"resting", "other"} /\ (Quiet = "resting" <=> resting)
  BY <1>1 DEF Quiet, Typed
<1>a. ASSUME NEW c \in Contexts, NEW reason \in Reasons, VoiceTurn(c.session, c.epoch, reason)
      PROVE  GivesUp
  <2>1. /\ Unlocked /\ Invalidate /\ decision' = Invalidated /\ active' = None /\ output' = None
        /\ ~closed /\ ~Stale(c.session, c.epoch)
        /\ retired' = retired \cup (IF context # None /\ context.session # c.session
                                    THEN {context.session} ELSE {})
        /\ baseline' = BaselineFor(c.session)
        /\ final' = FALSE /\ connected' = TRUE /\ busy' = (reason = "speech_started")
        /\ stopped' = (resting \/ reason = "interrupt") /\ state' = Quiet
        /\ Awaits("turn", None)
        /\ resting' = resting /\ closed' = closed /\ lease' = lease
        /\ awaited' = awaited /\ undone' = undone /\ holder' = holder /\ broken' = broken /\ shut' = shut
    BY <1>a DEF VoiceTurn, Invalidate, motionVars
  <2>2. context' = c /\ context # c
    BY <1>a, ControllerAssumption DEF VoiceTurn, SameTurn
  <2>3. PastKept /\ c.session \notin retired'
    BY <1>1, <2>1, <2>2, NewContext
  <2>4. lock' \in Locks /\ lock' # None /\ lock'.op = "turn" /\ lock'.stage = "asks"
    BY <2>1, AwaitsFacts DEF Handlers
  <2>5. baseline' \in Baselines \cup {None} /\ (baseline' # None => baseline'.session = c.session)
    BY <1>1, <2>1 DEF BaselineFor, BaselineCurrent, Listening, Typed
  <2>6. retired' \subseteq Sessions
    BY <1>1, <1>2, <2>1 DEF Typed
  <2>7. /\ connected' \in BOOLEAN /\ final' \in BOOLEAN /\ busy' \in BOOLEAN
        /\ stopped' \in BOOLEAN
    BY <1>1, <2>1 DEF Typed
  <2>8. Typed'
    BY <1>1, <1>2, <1>3, <2>1, <2>2, <2>4, <2>5, <2>6, <2>7 DEF Typed
  <2>9. RestShown'
    BY <1>1, <1>3, <2>1 DEF RestShown, Typed
  <2>10. context' # None /\ context'.session \notin retired'
    BY <2>2, <2>3, ContextFacts
  <2> QED
    BY <1>3, <2>1, <2>2, <2>3, <2>4, <2>5, <2>8, <2>9, <2>10 DEF GivesUp
<1>b. CASE DisconnectVoice
  <2>1. /\ Unlocked /\ Invalidate /\ decision' = Invalidated /\ active' = None /\ output' = None
        /\ connected' = FALSE /\ baseline' = None /\ busy' = FALSE
        /\ retired' = retired \cup (IF context = None THEN {} ELSE {context.session})
        /\ state' = Quiet /\ Awaits("disconnect", None)
        /\ context' = context /\ final' = final /\ stopped' = stopped /\ resting' = resting
        /\ closed' = closed /\ lease' = lease
        /\ awaited' = awaited /\ undone' = undone /\ holder' = holder /\ broken' = broken /\ shut' = shut
    BY <1>b DEF DisconnectVoice, Invalidate, modeVars, motionVars
  <2>2. PastKept
    BY <2>1, SameContext
  <2>3. lock' \in Locks /\ lock' # None /\ lock'.op = "disconnect" /\ lock'.stage = "asks"
    BY <2>1, AwaitsFacts DEF Handlers
  <2>4. Typed'
    BY <1>1, <1>2, <1>3, <2>1, <2>3 DEF Typed
  <2>5. RestShown'
    BY <1>1, <1>3, <2>1 DEF RestShown, Typed
  <2> QED
    BY <1>3, <2>1, <2>2, <2>3, <2>4, <2>5 DEF GivesUp
<1>c. ASSUME NEW spoken \in BOOLEAN, NEW rests \in BOOLEAN, Stop(spoken, rests) PROVE GivesUp
  <2>1. /\ Unlocked /\ Invalidate /\ decision' = Invalidated /\ active' = None /\ output' = None
        /\ context' = context /\ connected' = connected /\ retired' = retired
        /\ stopped' = TRUE /\ resting' = (resting \/ rests)
        /\ state' = IF resting' THEN "resting" ELSE "other"
        /\ Awaits("stop", None)
        /\ busy' = busy /\ closed' = closed /\ baseline' = baseline /\ lease' = lease
        /\ awaited' = awaited /\ undone' = undone /\ holder' = holder /\ broken' = broken /\ shut' = shut
    BY <1>c DEF Stop, Receives, Invalidate, motionVars
  <2>2. final' = (final \/ spoken)
    BY <1>c DEF Stop, Receives
  <2>3. PastKept
    BY <2>1, <2>2, SameContext
  <2>4. lock' \in Locks /\ lock' # None /\ lock'.op = "stop" /\ lock'.stage = "asks"
    BY <2>1, AwaitsFacts DEF Handlers
  <2>5. final' \in BOOLEAN /\ resting' \in BOOLEAN /\ stopped' \in BOOLEAN
    BY <1>1, <2>1, <2>2 DEF Typed
  <2>6. Typed'
    BY <1>1, <1>2, <2>1, <2>4, <2>5 DEF Typed
  <2>7. RestShown'
    BY <2>1, <2>5 DEF RestShown
  <2> QED
    BY <1>1, <2>1, <2>3, <2>4, <2>6, <2>7 DEF GivesUp, Listening, BaselineCurrent
<1>d. CASE PresenceCleared
  <2>1. /\ Unlocked /\ Invalidate /\ decision' = Invalidated /\ active' = None /\ output' = None
        /\ context' = context /\ connected' = connected /\ retired' = retired
        /\ final' = final /\ Awaits("cleared", None)
        /\ busy' = busy /\ baseline' = baseline /\ lease' = lease /\ state' = state
        /\ stopped' = stopped /\ resting' = resting /\ closed' = closed
        /\ awaited' = awaited /\ undone' = undone /\ holder' = holder /\ broken' = broken /\ shut' = shut
    BY <1>1, <1>d DEF PresenceCleared, Receives, Invalidate, modeVars, motionVars, Typed
  <2>2. PastKept
    BY <2>1, SameContext
  <2>3. lock' \in Locks /\ lock' # None /\ lock'.op = "cleared" /\ lock'.stage = "asks"
    BY <2>1, AwaitsFacts DEF Handlers
  <2>4. Typed'
    BY <1>1, <1>2, <2>1, <2>3 DEF Typed
  <2>5. RestShown'
    BY <1>1, <2>1 DEF RestShown
  <2> QED
    BY <1>1, <2>1, <2>2, <2>3, <2>4, <2>5 DEF GivesUp, Listening, BaselineCurrent
<1>e. CASE Close
  <2>1. /\ Unlocked /\ Invalidate /\ decision' = Invalidated /\ active' = None /\ output' = None
        /\ context' = context /\ connected' = connected /\ retired' = retired
        /\ final' = final /\ Awaits("close", None)
        /\ busy' = busy /\ baseline' = baseline /\ lease' = lease /\ state' = "other"
        /\ stopped' = stopped /\ resting' = resting /\ closed' = TRUE
        /\ awaited' = awaited /\ undone' = undone /\ holder' = holder /\ broken' = broken /\ shut' = shut
    BY <1>e DEF Close, Invalidate, voiceVars, motionVars
  <2>2. PastKept
    BY <2>1, SameContext
  <2>3. lock' \in Locks /\ lock' # None /\ lock'.op = "close" /\ lock'.stage = "asks"
    BY <2>1, AwaitsFacts DEF Handlers
  <2>4. Typed'
    BY <1>1, <1>2, <2>1, <2>3 DEF Typed
  <2>5. RestShown'
    BY <2>1 DEF RestShown
  <2> QED
    BY <1>1, <2>1, <2>2, <2>3, <2>4, <2>5 DEF GivesUp, Listening, BaselineCurrent
<1>f. CASE DisconnectProactive /\ Invalidate /\ state' = Quiet
  <2>1. /\ Unlocked /\ Invalidate /\ decision' = Invalidated /\ active' = None /\ output' = None
        /\ context' = context /\ connected' = connected /\ retired' = retired
        /\ final' = final /\ lock' = lock /\ lock = None
        /\ busy' = busy /\ baseline' = baseline /\ lease' = "off" /\ state' = Quiet
        /\ stopped' = stopped /\ resting' = resting /\ closed' = closed
        /\ awaited' = awaited /\ undone' = undone /\ holder' = holder /\ broken' = broken /\ shut' = shut
    BY <1>f DEF DisconnectProactive, Invalidate, voiceVars, modeVars, motionVars, Unlocked
  <2>2. PastKept
    BY <2>1, SameContext
  <2>3. Typed'
    BY <1>1, <1>2, <1>3, <2>1 DEF Typed
  <2>4. RestShown'
    BY <1>1, <1>3, <2>1 DEF RestShown
  <2> QED
    BY <1>1, <1>3, <2>1, <2>2, <2>3, <2>4 DEF GivesUp, Listening, BaselineCurrent
<1> QED
  BY <1>a, <1>b, <1>c, <1>d, <1>e, <1>f
-----------------------------------------------------------------------------
(* New decisions                                                           *)

Fresh(kind, by, turn) ==
  [NoDecision EXCEPT !.kind = kind, !.phase = "start", !.fresh = TRUE, !.by = by, !.turn = turn]

LEMMA NewRecord ==
  ASSUME Typed, NEW kind \in Kinds, NEW by \in {"voice", "visual", "body"},
         NEW turn \in Contexts \cup {None}
  PROVE  LET r == Fresh(kind, by, turn)
         IN /\ r \in Record /\ r.kind = kind /\ r.by = by /\ r.turn = turn /\ r.phase = "start"
            /\ r.receipt = "waiting" /\ r.motion = "none"
<1> DEFINE n == NoDecision
<1>1. n \in Record /\ n.receipt = "waiting" /\ n.motion = "none" /\ "start" \in Phases
  BY NoDecisionFacts DEF Phases
<1> HIDE DEF n
<1> DEFINE r == [n EXCEPT !.kind = kind, !.phase = "start", !.fresh = TRUE, !.by = by, !.turn = turn]
<1>2. /\ r \in Record /\ r.kind = kind /\ r.by = by /\ r.turn = turn /\ r.phase = "start"
      /\ r.receipt = "waiting" /\ r.motion = "none"
  BY <1>1 DEF Record
<1> QED
  BY <1>2 DEF n, Fresh

\* What Decide and Smile have in common.
Begins(d) ==
  /\ Typed' /\ Made(d) /\ Unlocked /\ decision' \in [Decisions -> Record]
  /\ \A e \in Decisions \ {d} : Follows(decision[e], decision'[e])
  /\ active' = d /\ output' = None
  /\ decision'[d].by = "voice" => connected /\ decision'[d].turn = context
  /\ UNCHANGED <<context, connected, retired, baseline, lock>>
  /\ final => final'
  /\ ~stopped' /\ ~resting' /\ ~closed'

LEMMA BeginsKeeps ==
  ASSUME Composed, NEW d \in Decisions, Begins(d)
  PROVE  Composed' /\ Advances
<1>1. /\ Typed /\ Answered /\ OnePerTurn /\ Listening /\ BaselineCurrent
      /\ Stilled /\ StoppedIsStill /\ Sounding /\ RestShown
  BY DEF Composed
<1>2. PastKept
  BY SameContext DEF Begins
<1>3. Answered' /\ OnePerTurn'
  BY <1>1, <1>2, RecordsKept DEF Begins
<1>4. Listening' /\ BaselineCurrent'
  BY <1>1 DEF Listening, BaselineCurrent, Begins
<1>5. Stilled' /\ StoppedIsStill' /\ RestShown'
  BY DEF Stilled, StoppedIsStill, RestShown, Unlocked, Begins
<1>6. Sounding'
  BY ContextFacts DEF Sounding, Begins
<1>7. Advances
  <2>1. Order(decision'[d].receipt) >= Order(decision[d].receipt)
    BY NoDecisionFacts DEF Begins, Made, Order
  <2> QED
    BY <2>1 DEF Begins, Follows, Advances
<1> QED
  BY <1>3, <1>4, <1>5, <1>6, <1>7 DEF Composed, Begins

LEMMA DecideBegins ==
  ASSUME Composed, NEW d \in Decisions, NEW kind \in Kinds, Decide(d, kind)
  PROVE  Begins(d)
<1> DEFINE by == IF kind \in Spoken THEN "voice" ELSE "body"
           turn == IF kind \in Spoken THEN context ELSE None
           r == Fresh(kind, by, turn)
<1>1. Typed /\ Answered /\ RestShown
  BY DEF Composed
<1>2. /\ r \in Record /\ r.kind = kind /\ r.by = by /\ r.turn = turn /\ r.phase = "start"
      /\ r.receipt = "waiting" /\ r.motion = "none"
  <2>1. by \in {"voice", "visual", "body"} /\ turn \in Contexts \cup {None}
    BY <1>1 DEF Typed
  <2> HIDE DEF by, turn
  <2> QED
    BY <1>1, <2>1, NewRecord
<1>3. /\ Unlocked /\ ~closed /\ decision[d] = NoDecision /\ decision' = [Invalidated EXCEPT ![d] = r]
      /\ active' = d /\ output' = None /\ ~stopped'
      /\ context' = context /\ connected' = connected /\ retired' = retired
      /\ final' = (final \/ kind \in Spoken) /\ busy' = (busy \/ kind \in Spoken)
      /\ state' = "other" /\ baseline' = baseline /\ lock' = lock /\ lease' = lease
      /\ closed' = closed /\ resting' = (resting /\ kind \notin Wakes)
      /\ awaited' = awaited /\ undone' = undone /\ holder' = holder /\ broken' = broken /\ shut' = shut
  BY DEF Decide, Receives, Rouses, motionVars, Fresh
<1> HIDE DEF r
<1>4. /\ decision' \in [Decisions -> Record] /\ decision'[d] = r
      /\ \A e \in Decisions \ {d} : decision'[e] = Invalidated[e]
  BY <1>1, <1>2, <1>3, InvalidatedFollows
<1>5. \A e \in Decisions \ {d} : Follows(decision[e], decision'[e])
  BY <1>1, <1>4, InvalidatedFollows
<1>6. kind \in Spoken => connected /\ context # None /\ ~final /\ final'
  BY <1>3 DEF Decide, Receives, Heard
<1>7. Made(d)
  <2>1. CASE kind \in Spoken
    BY <1>2, <1>3, <1>4, <1>6, <2>1 DEF Made
  <2>2. CASE kind \notin Spoken
    BY <1>2, <1>3, <1>4, <2>2 DEF Made
  <2> QED
    BY <2>1, <2>2
<1>8. ~resting'
  <2>1. SUFFICES ASSUME resting, kind \notin Wakes PROVE FALSE
    BY <1>3
  <2>2. stopped
    BY <1>1, <1>3, <2>1 DEF RestShown
  <2>3. stopped'
    BY <2>1, <2>2 DEF Decide, Rouses
  <2> QED
    BY <1>3, <2>3
<1>9. /\ final' \in BOOLEAN /\ busy' \in BOOLEAN /\ resting' \in BOOLEAN /\ stopped' \in BOOLEAN
  BY <1>1, <1>3 DEF Typed, Decide, Rouses
<1>10. Typed'
  BY <1>1, <1>3, <1>4, <1>9 DEF Typed
<1>11. r.by = "voice" => connected /\ r.turn = context
  <2>1. r.by = "voice" => kind \in Spoken
    BY <1>2
  <2> QED
    BY <1>2, <1>6, <2>1
<1>12. ~closed' /\ (final => final')
  BY <1>3
<1> QED
  BY <1>3, <1>4, <1>5, <1>7, <1>8, <1>10, <1>11, <1>12 DEF Begins

LEMMA SmileBegins ==
  ASSUME Composed, "smile" \in Kinds, NEW d \in Decisions, NEW cue \in Cues, Smile(d, cue)
  PROVE  Begins(d)
<1> DEFINE r == Fresh("smile", "visual", context)
<1>1. Typed /\ Answered
  BY DEF Composed
<1>2. /\ r \in Record /\ r.kind = "smile" /\ r.by = "visual" /\ r.turn = context /\ r.phase = "start"
      /\ r.receipt = "waiting" /\ r.motion = "none"
  <2>1. context \in Contexts \cup {None} /\ "visual" \in {"voice", "visual", "body"}
    BY <1>1 DEF Typed
  <2> QED
    BY <1>1, <2>1, NewRecord
<1>3. /\ Unlocked /\ ~closed /\ decision[d] = NoDecision /\ decision' = [decision EXCEPT ![d] = r]
      /\ active' = d /\ output' = None /\ ~stopped /\ ~resting
      /\ context' = context /\ connected' = connected /\ retired' = retired
      /\ busy' = busy /\ state' = "responding" /\ baseline' = baseline /\ lock' = lock
      /\ lease' = lease /\ stopped' = stopped /\ closed' = closed /\ resting' = resting
      /\ awaited' = awaited /\ undone' = undone /\ holder' = holder /\ broken' = broken /\ shut' = shut
  BY DEF Smile, Receives, modeVars, motionVars, Fresh
<1>4. final' = final
  BY <1>1 DEF Smile, Receives, Typed
<1> HIDE DEF r
<1>5. /\ decision' \in [Decisions -> Record] /\ decision'[d] = r
      /\ \A e \in Decisions \ {d} : decision'[e] = decision[e]
  BY <1>1, <1>2, <1>3 DEF Typed
<1>6. \A e \in Decisions \ {d} : Follows(decision[e], decision'[e])
  BY <1>1, <1>5, FollowsItself DEF Typed, Answered
<1>7. Made(d)
  BY <1>2, <1>3, <1>5 DEF Made, Spoken
<1>8. Typed'
  BY <1>1, <1>3, <1>4, <1>5 DEF Typed
<1> QED
  BY <1>2, <1>3, <1>4, <1>5, <1>6, <1>7, <1>8 DEF Begins
-----------------------------------------------------------------------------
(* Steps of a task on its record and on who is active and who sounds       *)

Owner(d) ==
  /\ Typed' /\ UNCHANGED <<context, connected, retired, final, stopped, resting, closed>>
  /\ \A e \in Decisions \ {d} : decision'[e] = decision[e]
  /\ Follows(decision[d], decision'[d])
  /\ active' = active \/ (active = d /\ active' = None)
  /\ BaselineCurrent' /\ RestShown'
  /\ \/ lock' = None
     \/ lock = None /\ lock' # None /\ lock'.stage = "asks"
        /\ (lock'.op = "execute" =>
              lock'.d = d /\ decision'[d].phase = "start" /\ decision'[d].by # "visual")
  /\ lock' = None =>
       \/ undone' \/ awaited' = {} \/ (~stopped /\ ~closed)
       \/ lock = None /\ awaited' = awaited /\ undone' = undone
  /\ output' \in {None, output, d}
  /\ stopped \/ closed => output' \in {None, output}
  /\ output' = d =>
       /\ decision'[d].phase \notin {"none", "start", "interrupted"}
       /\ decision'[d].receipt # "over"
       /\ active' = d \/ decision'[d].phase = "done"
  /\ state' = "responding" => active' # None \/ output' # None

LEMMA OwnerKeeps ==
  ASSUME Composed, NEW d \in Decisions, Owner(d)
  PROVE  Composed' /\ Advances
<1>1. /\ Typed /\ Answered /\ OnePerTurn /\ Listening /\ BaselineCurrent
      /\ Stilled /\ StoppedIsStill /\ Sounding /\ RestShown
  BY DEF Composed
<1>2. /\ decision' \in [Decisions -> Record] /\ active \in Decisions \cup {None}
      /\ output \in Decisions \cup {None} /\ None \notin Decisions
  BY <1>1, ContextFacts DEF Owner, Typed
<1>3. \A e \in Decisions : Follows(decision[e], decision'[e])
  BY <1>1, FollowsItself DEF Owner, Typed, Answered
<1>4. Answered' /\ OnePerTurn'
  <2>1. PastKept
    BY SameContext DEF Owner
  <2> QED
    BY <1>1, <1>2, <1>3, <2>1, AllFollow
<1>5. Listening'
  <2>1. \A e \in Decisions : decision'[e].by = decision[e].by /\ decision'[e].turn = decision[e].turn
    BY <1>3 DEF Follows
  <2>2. active' # None => active' = active /\ active \in Decisions
    BY <1>2 DEF Owner
  <2> QED
    BY <1>1, <2>1, <2>2 DEF Listening, Owner
<1>6. Stilled'
  <2>1. stopped' \/ closed' => active' = None /\ output' = None
    BY <1>1 DEF Owner, Stilled
  <2> QED
    BY <2>1 DEF Owner, Stilled
<1>7. StoppedIsStill'
  BY <1>1 DEF Owner, StoppedIsStill, Unlocked
<1>8. Sounding'
  <2>1. ASSUME output' # None, output' # d
        PROVE  /\ decision'[output'].phase \notin {"none", "start", "interrupted"}
               /\ decision'[output'].receipt # "over"
               /\ active' = output' \/ decision'[output'].phase = "done"
    <3>1. output' = output /\ output \in Decisions \ {d}
      BY <1>2, <2>1 DEF Owner
    <3>2. decision'[output] = decision[output]
      BY <3>1 DEF Owner
    <3>3. active = output => active' = output
      BY <3>1 DEF Owner
    <3> QED
      BY <1>1, <2>1, <3>1, <3>2, <3>3 DEF Sounding
  <2> QED
    BY <2>1 DEF Sounding, Owner
<1>9. Advances
  BY <1>3 DEF Follows, Advances
<1> QED
  BY <1>4, <1>5, <1>6, <1>7, <1>8, <1>9 DEF Composed, Owner

LEMMA DropsOwner ==
  ASSUME Composed, NEW d \in Decisions, At(d, "start"), Drops(d),
         Unlocked \/ Executing(d),
         UNCHANGED <<voiceVars, modeVars, baseline, lease, motionVars>>
  PROVE  Owner(d)
<1> DEFINE r == Over(decision[d], "done")
<1>1. /\ Typed /\ Answered /\ Listening /\ BaselineCurrent
      /\ Stilled /\ StoppedIsStill /\ Sounding /\ RestShown /\ None \notin Decisions
  BY ContextFacts DEF Composed
<1>2. /\ r \in Record /\ Follows(decision[d], r)
  <2>1. decision[d] \in Record /\ "done" \in Phases \ {"none", "start"}
    BY <1>1 DEF Typed, Phases
  <2> QED
    BY <2>1, OverFacts
<1>3. Becomes(d, r)
  BY DEF Drops
<1> HIDE DEF r
<1>4. /\ decision' \in [Decisions -> Record] /\ decision'[d] = r
      /\ \A e \in Decisions \ {d} : decision'[e] = decision[e]
  BY <1>1, <1>2, <1>3, BecomesOne DEF Typed
<1>5. /\ active' = IF active = d THEN None ELSE active
      /\ state' = IF active = d THEN "other" ELSE state
      /\ lock' = None /\ output' = output
      /\ context' = context /\ connected' = connected /\ retired' = retired /\ final' = final
      /\ busy' = busy /\ stopped' = stopped /\ resting' = resting /\ closed' = closed
      /\ baseline' = baseline /\ lease' = lease /\ awaited' = awaited /\ undone' = undone /\ holder' = holder
      /\ broken' = broken /\ shut' = shut
  BY DEF Drops, voiceVars, modeVars, motionVars
<1>6. Typed'
  BY <1>1, <1>4, <1>5 DEF Typed
<1>7. output' # d
  BY <1>1, <1>5 DEF Sounding, At
<1>8. BaselineCurrent'
  BY <1>1, <1>5 DEF BaselineCurrent
<1>9. RestShown'
  BY <1>1, <1>5 DEF RestShown, Stilled
<1>10. state' = "responding" => active' # None \/ output' # None
  <2>1. SUFFICES ASSUME state' = "responding" PROVE active' # None \/ output' # None
    OBVIOUS
  <2>2. active # d /\ state = "responding"
    BY <1>5, <2>1
  <2>3. ~(lock # None /\ lock.op = "cleared")
    BY DEF Unlocked, Executing
  <2> QED
    BY <1>1, <1>5, <2>2, <2>3 DEF Sounding
<1>11. lock' = None => undone' \/ awaited' = {} \/ (lock = None /\ awaited' = awaited /\ undone' = undone)
  BY <1>1, <1>5 DEF Unlocked, Executing, Stilled
<1> QED
  BY <1>2, <1>4, <1>5, <1>6, <1>7, <1>8, <1>9, <1>10, <1>11 DEF Owner

LEMMA StartKeeps ==
  ASSUME Composed, NEW d \in Decisions, Start(d)
  PROVE  Composed' /\ Advances
<1>1. /\ Typed /\ Answered /\ Listening /\ BaselineCurrent
      /\ Stilled /\ StoppedIsStill /\ Sounding /\ RestShown /\ None \notin Decisions
  BY ContextFacts DEF Composed
<1>2. CASE Live(d)
  <2>1. /\ Unlocked /\ At(d, "start") /\ decision[d].by # "visual" /\ Awaits("execute", d)
        /\ decision' = decision /\ active' = active /\ output' = output /\ state' = state
        /\ context' = context /\ connected' = connected /\ retired' = retired /\ final' = final
        /\ busy' = busy /\ stopped' = stopped /\ resting' = resting /\ closed' = closed
        /\ baseline' = baseline /\ lease' = lease /\ awaited' = awaited /\ undone' = undone /\ holder' = holder
        /\ broken' = broken /\ shut' = shut
    BY <1>2 DEF Start, voiceVars, modeVars, ownerVars, motionVars
  <2>2. lock' \in Locks /\ lock' # None /\ lock'.op = "execute" /\ lock'.d = d /\ lock'.stage = "asks"
    BY <2>1, AwaitsFacts DEF Handlers
  <2>3. Typed'
    BY <1>1, <2>1, <2>2 DEF Typed
  <2>4. BaselineCurrent' /\ RestShown'
    BY <1>1, <2>1 DEF BaselineCurrent, RestShown
  <2>5. decision[d] \in Record /\ Follows(decision[d], decision'[d])
    BY <1>1, <2>1, FollowsItself DEF Typed, Answered
  <2>6. output' # d
    BY <1>1, <2>1 DEF Sounding, At
  <2>7. state' = "responding" => active' # None \/ output' # None
    BY <1>1, <2>1 DEF Sounding, Unlocked
  <2>8. Owner(d)
    BY <2>1, <2>2, <2>3, <2>4, <2>5, <2>6, <2>7 DEF Owner, Unlocked, At
  <2> QED
    BY <2>8, OwnerKeeps
<1>3. CASE ~Live(d)
  <2>1. Owner(d)
    BY <1>3, DropsOwner DEF Start
  <2> QED
    BY <2>1, OwnerKeeps
<1> QED
  BY <1>2, <1>3

LEMMA ExecuteKeeps ==
  ASSUME Composed, NEW d \in Decisions, Execute(d)
  PROVE  Composed' /\ Advances
<1>1. /\ Typed /\ Answered /\ Listening /\ BaselineCurrent
      /\ Stilled /\ StoppedIsStill /\ Sounding /\ RestShown /\ None \notin Decisions
  BY ContextFacts DEF Composed
<1>2. /\ At(d, "start") /\ decision[d].by # "visual" /\ lock # None /\ lock.op = "execute"
      /\ decision[d] \in Record /\ Coherent(decision[d])
  BY <1>1 DEF Execute, Executing, Stilled, At, Typed, Answered
<1>3. CASE Live(d) /\ Bound(d)
  <2>1. PICK queued \in BOOLEAN :
           Submits(d, queued) /\ (Motion!Accept(d, "ours") \/ UNCHANGED motionVars)
    BY <1>3 DEF Execute
  <2> DEFINE r == [decision[d] EXCEPT
                     !.motion = IF queued THEN "waiting" ELSE "bad",
                     !.phase = IF decision[d].by = "voice" THEN "speaking"
                               ELSE IF queued THEN "moving" ELSE "closing"]
  <2>2. /\ r \in Record /\ r.by = decision[d].by /\ r.turn = decision[d].turn
        /\ r.kind = decision[d].kind /\ r.receipt = decision[d].receipt
        /\ r.motion \in {"waiting", "bad"} /\ r.phase \in {"speaking", "moving", "closing"}
    BY <1>2 DEF Record, Phases
  <2>3. /\ Becomes(d, r) /\ state' = "responding" /\ lock' = None /\ active' = active
        /\ output' \in {output, d}
        /\ context' = context /\ connected' = connected /\ retired' = retired /\ final' = final
        /\ busy' = busy /\ stopped' = stopped /\ resting' = resting /\ closed' = closed
        /\ baseline' = baseline /\ lease' = lease
    BY <2>1 DEF Execute, Submits, voiceVars, modeVars
  <2> HIDE DEF r
  <2>4. /\ decision' \in [Decisions -> Record] /\ decision'[d] = r
        /\ \A e \in Decisions \ {d} : decision'[e] = decision[e]
    BY <1>1, <2>2, <2>3, BecomesOne DEF Typed
  <2>5. /\ awaited' \subseteq Decisions /\ undone' = undone /\ holder' = holder /\ broken' = broken /\ shut' = shut
    BY <1>1, <2>1, MotionFacts DEF motionVars, Typed
  <2>6. Typed'
    BY <1>1, <2>3, <2>4, <2>5 DEF Typed
  <2>7. active = d /\ ~stopped /\ ~closed
    BY <1>3 DEF Live
  <2>8. BaselineCurrent' /\ RestShown'
    BY <1>1, <2>3, <2>7 DEF BaselineCurrent, RestShown
  <2>9. decision[d].receipt = "waiting"
    BY <1>2 DEF Coherent, At
  <2>10. Follows(decision[d], decision'[d])
    BY <2>2, <2>4, <2>9 DEF Follows, Order
  <2> QED
    <3>1. Owner(d)
      BY <1>1, <2>2, <2>3, <2>4, <2>6, <2>7, <2>8, <2>9, <2>10 DEF Owner
    <3> QED
      BY <3>1, OwnerKeeps
<1>4. CASE ~Live(d) \/ ~Bound(d)
  <2>1. Owner(d)
    BY <1>2, <1>4, DropsOwner DEF Execute
  <2> QED
    BY <2>1, OwnerKeeps
<1> QED
  BY <1>3, <1>4

LEMMA FailsKeeps ==
  ASSUME Composed, NEW d \in Decisions, Fails(d)
  PROVE  Composed' /\ Advances
<1> DEFINE r == Over(decision[d], "done")
<1>1. /\ Typed /\ Answered /\ Listening /\ BaselineCurrent
      /\ Stilled /\ StoppedIsStill /\ Sounding /\ RestShown /\ None \notin Decisions
  BY ContextFacts DEF Composed
<1>2. /\ r \in Record /\ Follows(decision[d], r) /\ r.phase = "done" /\ r.receipt = decision[d].receipt
  <2>1. decision[d] \in Record /\ "done" \in Phases \ {"none", "start"}
    BY <1>1 DEF Typed, Phases
  <2> QED
    BY <2>1, OverFacts
<1>3. /\ Becomes(d, r) /\ Unlocked
      /\ context' = context /\ connected' = connected /\ retired' = retired /\ final' = final
      /\ busy' = busy /\ stopped' = stopped /\ resting' = resting /\ closed' = closed
      /\ baseline' = baseline /\ lease' = lease /\ awaited' = awaited /\ undone' = undone /\ holder' = holder
      /\ broken' = broken /\ shut' = shut
  BY DEF Fails, voiceVars, modeVars, motionVars
<1> HIDE DEF r
<1>4. /\ decision' \in [Decisions -> Record] /\ decision'[d] = r
      /\ \A e \in Decisions \ {d} : decision'[e] = decision[e]
  BY <1>1, <1>2, <1>3, BecomesOne DEF Typed
<1>5. BaselineCurrent'
  BY <1>1, <1>3 DEF BaselineCurrent
<1>6. CASE active = d
  <2>1. active' = None /\ output' = None /\ state' = "other" /\ Awaits("fail", d)
    BY <1>6 DEF Fails
  <2>2. lock' \in Locks /\ lock' # None /\ lock'.op = "fail" /\ lock'.stage = "asks"
    BY <2>1, AwaitsFacts DEF Handlers
  <2>3. Typed'
    BY <1>1, <1>3, <1>4, <2>1, <2>2 DEF Typed
  <2>4. RestShown'
    BY <1>1, <1>3, <1>6 DEF RestShown, Stilled
  <2>5. Owner(d)
    BY <1>1, <1>2, <1>3, <1>4, <1>5, <1>6, <2>1, <2>2, <2>3, <2>4 DEF Owner, Unlocked
  <2> QED
    BY <2>5, OwnerKeeps
<1>7. CASE active # d
  <2>1. active' = active /\ output' = output /\ state' = state /\ lock' = lock
    BY <1>7 DEF Fails, ownerVars
  <2>2. Typed'
    BY <1>1, <1>3, <1>4, <2>1 DEF Typed
  <2>3. RestShown'
    BY <1>1, <1>3, <2>1 DEF RestShown
  <2>4. output = d => decision[d].receipt # "over"
    BY <1>1 DEF Sounding
  <2>5. state' = "responding" => active' # None \/ output' # None
    BY <1>1, <1>3, <2>1 DEF Sounding, Unlocked
  <2>6. Owner(d)
    BY <1>2, <1>3, <1>4, <1>5, <2>1, <2>2, <2>3, <2>4, <2>5 DEF Owner, Unlocked
  <2> QED
    BY <2>6, OwnerKeeps
<1> QED
  BY <1>6, <1>7
\* The record of a decision that has ended, whose receipt may be awaited.
LEMMA ClosedRecord ==
  ASSUME Typed, Answered, NEW d \in Decisions,
         Becomes(d, [Over(decision[d], "done") EXCEPT !.fresh = Waiting(d) /\ decision[d].fresh])
  PROVE  /\ decision' \in [Decisions -> Record] /\ Follows(decision[d], decision'[d])
         /\ decision'[d].phase = "done" /\ decision'[d].receipt = decision[d].receipt
         /\ \A e \in Decisions \ {d} : decision'[e] = decision[e]
<1> DEFINE b == Waiting(d) /\ decision[d].fresh
           s == [Over(decision[d], "done") EXCEPT !.fresh = b]
<1>1. decision[d] \in Record /\ "done" \in Phases \ {"none", "start"}
  BY DEF Typed, Phases
<1>2. b \in BOOLEAN
  BY <1>1 DEF Waiting, Record
<1>3. \A c \in BOOLEAN :
        LET t == [Over(decision[d], "done") EXCEPT !.fresh = c]
        IN t \in Record /\ Follows(decision[d], t) /\ t.phase = "done" /\ t.receipt = decision[d].receipt
  BY <1>1, OverFacts
<1>4. s \in Record /\ Follows(decision[d], s) /\ s.phase = "done" /\ s.receipt = decision[d].receipt
  <2> HIDE DEF b
  <2> QED
    BY <1>2, <1>3
<1>5. Becomes(d, s)
  OBVIOUS
<1> HIDE DEF s
<1> QED
  BY <1>4, <1>5, BecomesOne DEF Typed

LEMMA ClosesKeeps ==
  ASSUME Composed, NEW d \in Decisions, Closes(d)
  PROVE  Composed' /\ Advances
<1>1. /\ Typed /\ Answered /\ Listening /\ BaselineCurrent
      /\ Stilled /\ StoppedIsStill /\ Sounding /\ RestShown /\ None \notin Decisions
      /\ decision[d] \in Record /\ Coherent(decision[d])
  BY ContextFacts DEF Composed, Typed, Answered
<1>2. /\ Unlocked /\ At(d, "closing") /\ lock' = lock
      /\ context' = context /\ connected' = connected /\ retired' = retired /\ final' = final
      /\ busy' = busy /\ stopped' = stopped /\ resting' = resting /\ closed' = closed
      /\ lease' = lease /\ awaited' = awaited /\ undone' = undone /\ holder' = holder
      /\ broken' = broken /\ shut' = shut
  BY DEF Closes, voiceVars, modeVars, motionVars
<1>3. CASE active # d
  <2> DEFINE r == Over(decision[d], "interrupted")
  <2>1. r \in Record /\ Follows(decision[d], r)
    <3>1. "interrupted" \in Phases \ {"none", "start"}
      BY DEF Phases
    <3> QED
      BY <1>1, <3>1, OverFacts
  <2>2. Becomes(d, r) /\ active' = active /\ output' = output /\ state' = state /\ baseline' = baseline
    BY <1>3 DEF Closes, ownerVars
  <2> HIDE DEF r
  <2>3. /\ decision' \in [Decisions -> Record] /\ decision'[d] = r
        /\ \A e \in Decisions \ {d} : decision'[e] = decision[e]
    BY <1>1, <2>1, <2>2, BecomesOne DEF Typed
  <2>4. Typed'
    BY <1>1, <1>2, <2>2, <2>3 DEF Typed
  <2>5. BaselineCurrent' /\ RestShown'
    BY <1>1, <1>2, <2>2 DEF BaselineCurrent, RestShown
  <2>6. output' # d
    BY <1>1, <1>2, <1>3, <2>2 DEF Sounding, At
  <2>7. state' = "responding" => active' # None \/ output' # None
    BY <1>1, <1>2, <2>2 DEF Sounding, Unlocked
  <2>8. Owner(d)
    BY <1>2, <2>1, <2>2, <2>3, <2>4, <2>5, <2>6, <2>7 DEF Owner, Unlocked
  <2> QED
    BY <2>8, OwnerKeeps
<1>4. CASE active = d
  <2>1. /\ baseline' = BaselineAfter(d) /\ active' = None
        /\ output' = (IF Waiting(d) THEN d ELSE None)
        /\ state' = (IF Waiting(d) THEN "responding" ELSE "other")
        /\ Becomes(d, [Over(decision[d], "done") EXCEPT !.fresh = Waiting(d) /\ decision[d].fresh])
    BY <1>4 DEF Closes
  <2>2. /\ decision' \in [Decisions -> Record] /\ Follows(decision[d], decision'[d])
        /\ decision'[d].phase = "done" /\ decision'[d].receipt = decision[d].receipt
        /\ \A e \in Decisions \ {d} : decision'[e] = decision[e]
    BY <1>1, <2>1, ClosedRecord
  <2>3. /\ baseline' \in Baselines \cup {None}
        /\ baseline' # None =>
             connected /\ baseline'.session = context.session /\ context.session \notin retired
    <3>1. CASE baseline' \in {None, baseline}
      BY <1>1, <3>1 DEF BaselineCurrent, Typed
    <3>2. CASE baseline' = [id |-> d, session |-> decision[d].turn.session] /\ decision[d].motion = "held"
      <4>1. decision[d].by = "voice" /\ decision[d].turn # None
        BY <1>1, <3>2 DEF Coherent, Spoken
      <4>2. connected /\ decision[d].turn = context /\ context.session \notin retired
        BY <1>1, <1>4, <4>1 DEF Listening
      <4>3. context.session \in Sessions
        BY <1>1, <4>1, <4>2, ContextFacts DEF Typed
      <4> QED
        BY <3>2, <4>2, <4>3 DEF Baselines
    <3> QED
      BY <2>1, <3>1, <3>2 DEF BaselineAfter
  <2>4. Typed'
    BY <1>1, <1>2, <2>1, <2>2, <2>3 DEF Typed
  <2>5. BaselineCurrent'
    BY <1>2, <2>3 DEF BaselineCurrent
  <2>6. ~stopped /\ ~closed
    BY <1>1, <1>4 DEF Stilled
  <2>7. RestShown'
    BY <1>1, <1>2, <2>6 DEF RestShown
  <2>8. output' = d => decision[d].receipt # "over"
    BY <1>1, <2>1 DEF Waiting
  <2>9. Owner(d)
    BY <1>1, <1>2, <1>4, <2>1, <2>2, <2>4, <2>5, <2>6, <2>7, <2>8 DEF Owner, Unlocked
  <2> QED
    BY <2>9, OwnerKeeps
<1> QED
  BY <1>3, <1>4

LEMMA SmileStartsKeeps ==
  ASSUME Composed, NEW d \in Decisions, SmileStarts(d)
  PROVE  Composed' /\ Advances
<1>1. /\ Typed /\ Answered /\ Listening /\ BaselineCurrent
      /\ Stilled /\ StoppedIsStill /\ Sounding /\ RestShown /\ None \notin Decisions
      /\ decision[d] \in Record /\ Coherent(decision[d])
  BY ContextFacts DEF Composed, Typed, Answered
<1>2. PICK phase \in {"speaking", "closing"} :
        /\ At(d, "start") /\ decision[d].by = "visual"
        /\ Becomes(d, [decision[d] EXCEPT !.phase = phase])
        /\ output' = output \/ (output' = d /\ Live(d))
  BY DEF SmileStarts
<1>3. /\ lock' = lock /\ active' = active /\ state' = state /\ baseline' = baseline
      /\ context' = context /\ connected' = connected /\ retired' = retired /\ final' = final
      /\ busy' = busy /\ stopped' = stopped /\ resting' = resting /\ closed' = closed
      /\ lease' = lease /\ awaited' = awaited /\ undone' = undone /\ holder' = holder
      /\ broken' = broken /\ shut' = shut
  BY DEF SmileStarts, voiceVars, modeVars, motionVars
<1> DEFINE r == [decision[d] EXCEPT !.phase = phase]
<1>4. /\ r \in Record /\ r.phase = phase /\ r.by = decision[d].by /\ r.turn = decision[d].turn
      /\ r.kind = decision[d].kind /\ r.motion = decision[d].motion /\ r.receipt = decision[d].receipt
  BY <1>1 DEF Record, Phases
<1>5. Becomes(d, r)
  BY <1>2
<1> HIDE DEF r
<1>6. /\ decision' \in [Decisions -> Record] /\ decision'[d] = r
      /\ \A e \in Decisions \ {d} : decision'[e] = decision[e]
  BY <1>1, <1>4, <1>5, BecomesOne DEF Typed
<1>7. \A e \in Decisions : Follows(decision[e], decision'[e])
  <2>1. Follows(decision[d], r)
    BY <1>1, <1>2, <1>4 DEF Follows, Coherent, Order
  <2> QED
    BY <1>1, <1>6, <2>1, FollowsItself DEF Typed, Answered
<1>8. Typed'
  BY <1>1, <1>2, <1>3, <1>6 DEF Typed
<1>9. Answered' /\ OnePerTurn'
  <2>1. PastKept
    BY <1>3, SameContext
  <2> QED
    BY <1>1, <1>6, <1>7, <2>1, AllFollow DEF Composed
<1>10. Listening' /\ BaselineCurrent' /\ RestShown'
  <2>1. \A e \in Decisions : decision'[e].by = decision[e].by /\ decision'[e].turn = decision[e].turn
    BY <1>7 DEF Follows
  <2> QED
    BY <1>1, <1>3, <2>1 DEF Listening, BaselineCurrent, RestShown, Typed
<1>11. Stilled' /\ StoppedIsStill'
  <2>1. lock # None /\ lock.op = "execute" => lock.d \in Decisions \ {d}
    BY <1>1, <1>2 DEF Stilled
    <2>2. output' = d => ((~stopped /\ ~closed) \/ output' = output)
    BY <1>2 DEF Live
  <2>3. stopped \/ closed => output' = None
    BY <1>1, <1>2, <2>2 DEF Stilled, Live
  <2> QED
    BY <1>1, <1>3, <1>6, <2>1, <2>3 DEF Stilled, StoppedIsStill, Unlocked
<1>12. Sounding'
  <2>1. decision[d].phase = "start" /\ decision[d].receipt = "waiting"
    BY <1>1, <1>2 DEF At, Coherent
  <2>2. output # d
    BY <1>1, <2>1 DEF Sounding
  <2>3. CASE output' = output
    BY <1>1, <1>3, <1>6, <2>2, <2>3 DEF Sounding, Typed
  <2>4. CASE output' = d /\ Live(d)
    BY <1>1, <1>2, <1>3, <1>4, <1>6, <2>1, <2>4 DEF Sounding, Live
  <2> QED
    BY <1>2, <2>3, <2>4
<1>13. Advances
  BY <1>7 DEF Follows, Advances
<1> QED
  BY <1>8, <1>9, <1>10, <1>11, <1>12, <1>13 DEF Composed

LEMMA SmileClosesKeeps ==
  ASSUME Composed, NEW d \in Decisions, SmileCloses(d)
  PROVE  Composed' /\ Advances
<1>1. /\ Typed /\ Answered /\ Listening /\ BaselineCurrent
      /\ Stilled /\ StoppedIsStill /\ Sounding /\ RestShown /\ None \notin Decisions
  BY ContextFacts DEF Composed
<1>2. /\ Unlocked /\ lock' = lock /\ baseline' = baseline
      /\ active' = (IF active = d THEN None ELSE active)
      /\ output' = (IF output = d /\ ~Waiting(d) THEN None ELSE output)
      /\ state' = (IF active' # None THEN state
                   ELSE IF output' # None THEN "responding" ELSE Quiet)
      /\ context' = context /\ connected' = connected /\ retired' = retired /\ final' = final
      /\ busy' = busy /\ stopped' = stopped /\ resting' = resting /\ closed' = closed
      /\ lease' = lease /\ awaited' = awaited /\ undone' = undone /\ holder' = holder
      /\ broken' = broken /\ shut' = shut
  BY DEF SmileCloses, voiceVars, modeVars, motionVars
<1>3. /\ decision' \in [Decisions -> Record] /\ Follows(decision[d], decision'[d])
      /\ decision'[d].phase = "done" /\ decision'[d].receipt = decision[d].receipt
      /\ \A e \in Decisions \ {d} : decision'[e] = decision[e]
  BY <1>1, ClosedRecord DEF SmileCloses
<1>4. Quiet \in {"resting", "other"} /\ (resting => Quiet = "resting")
  BY DEF Quiet
<1>5. Typed'
  BY <1>1, <1>2, <1>3, <1>4 DEF Typed
<1>6. BaselineCurrent'
  BY <1>1, <1>2 DEF BaselineCurrent
<1>7. stopped \/ closed => active' = None /\ output' = None
  BY <1>1, <1>2 DEF Stilled
<1>8. RestShown'
  BY <1>1, <1>2, <1>4, <1>7 DEF RestShown
<1>9. output' = d => output = d /\ decision[d].receipt # "over"
  BY <1>1, <1>2 DEF Sounding
<1>10. state' = "responding" => active' # None \/ output' # None
  BY <1>2, <1>4
<1>11. active' = active \/ (active = d /\ active' = None)
  BY <1>2
<1>12. output' \in {None, output}
  BY <1>2
<1>13. Owner(d)
  BY <1>2, <1>3, <1>5, <1>6, <1>8, <1>9, <1>10, <1>11, <1>12 DEF Owner, Unlocked
<1> QED
  BY <1>13, OwnerKeeps

LEMMA ToldFacts ==
  ASSUME NEW d \in Decisions, Typed, NEW r \in {"queued", "started", "over"}, News(d, r)
  PROVE  /\ Told(r) \in {"waiting", "started", "over"} /\ (Told(r) = "over" => r = "over")
         /\ Order(Told(r)) >= Order(decision[d].receipt)
BY DEF News, Told, Order, Typed, Record

LEMMA ReceiptKeeps ==
  ASSUME Composed, NEW d \in Decisions, NEW r \in {"queued", "started", "over"}, Receipt(d, r)
  PROVE  Composed' /\ Advances
<1>1. /\ Typed /\ Answered /\ Listening /\ BaselineCurrent
      /\ Stilled /\ StoppedIsStill /\ Sounding /\ RestShown /\ None \notin Decisions
      /\ decision[d] \in Record /\ Coherent(decision[d])
  BY ContextFacts DEF Composed, Typed, Answered
<1>2. /\ Unlocked /\ lock' = lock /\ baseline' = baseline /\ active' = active
      /\ decision[d].phase \notin {"none", "start"} /\ News(d, r)
      /\ output' = OutputAfter(d, r)
      /\ context' = context /\ connected' = connected /\ retired' = retired /\ final' = final
      /\ busy' = busy /\ stopped' = stopped /\ resting' = resting /\ closed' = closed
      /\ lease' = lease /\ awaited' = awaited /\ undone' = undone /\ holder' = holder
      /\ broken' = broken /\ shut' = shut
  BY DEF Receipt, voiceVars, modeVars, motionVars
<1> DEFINE s == [decision[d] EXCEPT !.receipt = Told(r)]
<1>3. /\ Told(r) \in {"waiting", "started", "over"} /\ (Told(r) = "over" => r = "over")
      /\ Order(Told(r)) >= Order(decision[d].receipt)
  BY <1>1, <1>2, ToldFacts
<1>4. /\ s \in Record /\ s.phase = decision[d].phase /\ s.by = decision[d].by /\ s.turn = decision[d].turn
      /\ s.kind = decision[d].kind /\ s.motion = decision[d].motion /\ s.receipt = Told(r)
  BY <1>1, <1>3 DEF Record
<1>5. Becomes(d, s)
  BY DEF Receipt
<1> HIDE DEF s
<1>6. /\ decision' \in [Decisions -> Record] /\ decision'[d] = s
      /\ \A e \in Decisions \ {d} : decision'[e] = decision[e]
  BY <1>1, <1>4, <1>5, BecomesOne DEF Typed
<1>7. Follows(decision[d], decision'[d])
  BY <1>1, <1>2, <1>3, <1>4, <1>6 DEF Follows, Coherent
<1>8. state' \in {state, Quiet} /\ Quiet \in {"resting", "other"} /\ (resting => Quiet = "resting")
  BY DEF Receipt, Quiet
<1>9. output' \in {None, output} /\ (output' = d => output = d /\ r # "over")
  BY <1>1, <1>2 DEF OutputAfter
<1>10. Typed'
  BY <1>1, <1>2, <1>6, <1>8, <1>9 DEF Typed
<1>11. BaselineCurrent' /\ RestShown'
  BY <1>1, <1>2, <1>8 DEF BaselineCurrent, RestShown
<1>12. state' = "responding" => active' # None \/ output' # None
  <2>1. CASE output = d /\ r = "over" /\ (decision[d].by = "visual" => active = None)
    BY <1>8, <2>1 DEF Receipt
  <2>2. CASE output = d /\ r = "over" /\ ~(decision[d].by = "visual" => active = None)
    BY <1>2, <2>2
  <2>3. CASE ~(output = d /\ r = "over")
    <3>1. output' = output /\ state' = state
      BY <1>2, <2>3 DEF OutputAfter, Receipt
    <3> QED
      BY <1>1, <1>2, <3>1 DEF Sounding, Unlocked
  <2> QED
    BY <2>1, <2>2, <2>3
<1>13. output' = d =>
         /\ decision'[d].phase \notin {"none", "start", "interrupted"}
         /\ decision'[d].receipt # "over"
         /\ active' = d \/ decision'[d].phase = "done"
  BY <1>1, <1>2, <1>3, <1>4, <1>6, <1>9 DEF Sounding
<1>14. Owner(d)
  BY <1>2, <1>6, <1>7, <1>9, <1>10, <1>11, <1>12, <1>13 DEF Owner, Unlocked
<1> QED
  BY <1>14, OwnerKeeps

LEMMA TickKeeps ==
  ASSUME Composed, Tick
  PROVE  Composed' /\ Advances
<1> DEFINE d == output
           s == [decision[d] EXCEPT !.receipt = "over"]
<1>1. /\ Typed /\ Answered /\ Listening /\ BaselineCurrent
      /\ Stilled /\ StoppedIsStill /\ Sounding /\ RestShown /\ None \notin Decisions
  BY ContextFacts DEF Composed
<1>2. /\ Unlocked /\ output # None /\ Becomes(output, s) /\ output' = None /\ state' = Quiet
      /\ active' = active /\ lock' = lock /\ baseline' = baseline
      /\ context' = context /\ connected' = connected /\ retired' = retired /\ final' = final
      /\ busy' = busy /\ stopped' = stopped /\ resting' = resting /\ closed' = closed
      /\ lease' = lease /\ awaited' = awaited /\ undone' = undone /\ holder' = holder
      /\ broken' = broken /\ shut' = shut
  BY DEF Tick, voiceVars, modeVars, motionVars
<1>3. d \in Decisions /\ decision[d] \in Record /\ Coherent(decision[d])
      /\ decision[d].phase \notin {"none", "start"}
  BY <1>1, <1>2 DEF Typed, Answered, Sounding
<1>4. /\ s \in Record /\ s.phase = decision[d].phase /\ s.by = decision[d].by /\ s.turn = decision[d].turn
      /\ s.kind = decision[d].kind /\ s.motion = decision[d].motion /\ s.receipt = "over"
  BY <1>3 DEF Record
<1> HIDE DEF s
<1>5. /\ decision' \in [Decisions -> Record] /\ decision'[d] = s
      /\ \A e \in Decisions \ {d} : decision'[e] = decision[e]
  BY <1>1, <1>2, <1>3, <1>4, BecomesOne DEF Typed
<1>6. Follows(decision[d], decision'[d])
  BY <1>3, <1>4, <1>5 DEF Follows, Coherent, Order, Record
<1>7. Quiet \in {"resting", "other"} /\ (resting => Quiet = "resting")
  BY DEF Quiet
<1>8. Typed'
  BY <1>1, <1>2, <1>5, <1>7 DEF Typed
<1>9. BaselineCurrent' /\ RestShown'
  BY <1>1, <1>2, <1>7 DEF BaselineCurrent, RestShown
<1>10. \A e \in Decisions : e = d => Owner(e)
  BY <1>1, <1>2, <1>3, <1>5, <1>6, <1>7, <1>8, <1>9 DEF Owner, Unlocked
<1> QED
  BY <1>3, <1>10, OwnerKeeps
-----------------------------------------------------------------------------
(* Theorems                                                                *)

LEMMA StutterKeeps ==
  ASSUME Composed, UNCHANGED vars
  PROVE  Composed' /\ Advances
<1>1. /\ context' = context /\ connected' = connected /\ retired' = retired /\ final' = final
      /\ busy' = busy /\ stopped' = stopped /\ resting' = resting /\ closed' = closed
      /\ state' = state /\ active' = active /\ output' = output /\ baseline' = baseline
      /\ lock' = lock /\ lease' = lease /\ awaited' = awaited /\ undone' = undone /\ holder' = holder
      /\ broken' = broken /\ shut' = shut /\ decision' = decision
  BY DEF vars, voiceVars, modeVars, ownerVars, motionVars
<1>2. /\ Typed /\ Answered /\ OnePerTurn /\ Listening /\ BaselineCurrent
      /\ Stilled /\ StoppedIsStill /\ Sounding /\ RestShown
  BY DEF Composed
<1>3. Aside
  BY <1>1, <1>2 DEF Aside, Typed
<1> QED
  BY <1>3, AsideKeeps

\* Every step keeps the invariant and moves no receipt back.
LEMMA StepKeeps ==
  ASSUME Composed, [Next]_vars
  PROVE  Composed' /\ Advances
<1>1. CASE UNCHANGED vars
  BY <1>1, StutterKeeps
<1>2. CASE Outside
  <2>1. ASSUME NEW c \in Contexts, NEW reason \in Reasons, RepeatTurn(c.session, c.epoch, reason)
        PROVE  Composed' /\ Advances
    BY <2>1, AsideSteps, AsideKeeps
  <2>2. ASSUME NEW c \in Contexts, NEW reason \in Reasons, VoiceTurn(c.session, c.epoch, reason)
        PROVE  Composed' /\ Advances
    BY <2>2, GivesUpSteps, GivesUpKeeps
  <2>3. CASE DisconnectVoice \/ (\E spoken, rests \in BOOLEAN : Stop(spoken, rests))
             \/ PresenceCleared \/ Close
    BY <2>3, GivesUpSteps, GivesUpKeeps
  <2>4. CASE LeaseEnds \/ \E kind \in Kinds : Suppress(kind)
    BY <2>4, AsideSteps, AsideKeeps
  <2>5. ASSUME NEW d \in Decisions, NEW kind \in Kinds, Decide(d, kind)
        PROVE  Composed' /\ Advances
    BY <2>5, DecideBegins, BeginsKeeps
  <2>6. ASSUME "smile" \in Kinds, NEW d \in Decisions, NEW cue \in Cues, Smile(d, cue)
        PROVE  Composed' /\ Advances
    BY <2>6, SmileBegins, BeginsKeeps
  <2>7. ASSUME NEW d \in Decisions, NEW r \in {"queued", "started", "over"}, Receipt(d, r)
        PROVE  Composed' /\ Advances
    BY <2>7, ReceiptKeeps
  <2> QED
    BY <1>2, <2>1, <2>2, <2>3, <2>4, <2>5, <2>6, <2>7 DEF Outside
<1>3. CASE Handler
  <2>1. CASE AsksMotion \/ MotionHalted
    BY <2>1, AsideSteps, AsideKeeps
  <2>2. ASSUME NEW d \in Decisions, Execute(d) PROVE Composed' /\ Advances
    BY <2>2, ExecuteKeeps
  <2> QED
    BY <1>3, <2>1, <2>2 DEF Handler
<1>4. CASE Service
  <2>1. CASE DisconnectProactive
    <3>1. CASE Invalidate /\ state' = Quiet
      BY <2>1, <3>1, GivesUpSteps, GivesUpKeeps
    <3>2. CASE UNCHANGED <<state, ownerVars, decision>>
      BY <2>1, <3>2, AsideSteps, AsideKeeps
    <3> QED
      BY <2>1, <3>1, <3>2 DEF DisconnectProactive
  <2>2. CASE ClosesMotion \/ MotionClosed
    BY <2>2, AsideSteps, AsideKeeps
  <2> QED
    BY <1>4, <2>1, <2>2 DEF Service
<1>5. CASE Tick
  BY <1>5, TickKeeps
<1>6. CASE BusyEnds \/ MotionWorks
  BY <1>6, AsideSteps, AsideKeeps
<1>7. ASSUME NEW d \in Decisions, Task(d) PROVE Composed' /\ Advances
  <2>1. CASE SmileStarts(d)
    BY <2>1, SmileStartsKeeps
  <2>2. CASE ~SmileStarts(d)
    <3>1. TaskStep(d)
      BY <1>7, <2>2, TaskSteps DEF Task, Composed
    <3> QED
      BY <3>1, TaskStepKeeps
  <2> QED
    BY <2>1, <2>2
<1>8. ASSUME NEW d \in Decisions, LockedTask(d) PROVE Composed' /\ Advances
  BY <1>8, StartKeeps, FailsKeeps, ClosesKeeps, SmileClosesKeeps DEF LockedTask
<1>9. ASSUME NEW d \in Decisions, Expires(d) PROVE Composed' /\ Advances
  BY <1>9, TaskSteps, TaskStepKeeps DEF Composed
<1> QED
  BY <1>1, <1>2, <1>3, <1>4, <1>5, <1>6, <1>7, <1>8, <1>9 DEF Next

\* The inductive invariant: what handlers, tasks and receipts may rely on
\* whenever one of them takes the lock (controller.py).
THEOREM ComposedAlways == Spec => []Composed
<1>1. Init => Composed
  <2> SUFFICES ASSUME Init PROVE Composed
    OBVIOUS
  <2>1. /\ decision \in [Decisions -> Record]
        /\ \A d \in Decisions : decision[d] = NoDecision
    BY NoDecisionFacts DEF Init
  <2>2. Typed
    BY <2>1 DEF Init, Typed, Motion!Begins
  <2>3. Answered /\ OnePerTurn
    BY <2>1, NoDecisionFacts, ContextFacts DEF Answered, OnePerTurn, Coherent
  <2>4. /\ Listening /\ BaselineCurrent /\ Stilled /\ StoppedIsStill /\ Sounding /\ RestShown
    BY DEF Init, Listening, BaselineCurrent, Stilled, StoppedIsStill, Unlocked, Sounding, RestShown,
           Motion!Begins
  <2> QED
    BY <2>2, <2>3, <2>4 DEF Composed
<1>2. Composed /\ [Next]_vars => Composed'
  BY StepKeeps
<1> QED
  BY <1>1, <1>2, PTL DEF Spec

\* Types of the controller's fields.
THEOREM TypeCorrect == Spec => []TypeOK
<1>1. Composed => TypeOK
  BY DEF Composed, Typed, TypeOK
<1> QED
  BY <1>1, ComposedAlways, PTL

\* When a stop, an interrupting turn or the close has been handled, nothing
\* that was submitted is left with the executor: no task submits between the
\* stop and the end of the handler (handle, voice_turn, close).
THEOREM StillnessAlways == Spec => []StoppedIsStill
<1>1. Composed => StoppedIsStill
  BY DEF Composed
<1> QED
  BY <1>1, ComposedAlways, PTL

\* A turn is answered by one decision, however sessions come and go and
\* however late their events are (voice_turn, _accept).
THEOREM TurnsAnsweredOnce == Spec => []OnePerTurn
<1>1. Composed => OnePerTurn
  BY DEF Composed
<1> QED
  BY <1>1, ComposedAlways, PTL

\* The pose that a return goes back from was taken in the session that is
\* heard (voice_turn, disconnect_voice, the end of _execute).
THEOREM BaselineStaysCurrent == Spec => []BaselineCurrent
<1>1. Composed => BaselineCurrent
  BY DEF Composed
<1> QED
  BY <1>1, ComposedAlways, PTL

\* Rest is shown until the pet is woken, and a pet shown as responding has a
\* decision at work or a sound that is not over (the state the page shows).
THEOREM ShownAlways == Spec => []ShownTruly
<1>1. Composed => ShownTruly
  <2> SUFFICES ASSUME Composed PROVE ShownTruly
    OBVIOUS
  <2>1. RestShown /\ Sounding
    BY DEF Composed
  <2>2. OutputLive
    BY <2>1 DEF Sounding, OutputLive, Unlocked
  <2> QED
    BY <2>1, <2>2 DEF ShownTruly
<1> QED
  BY <1>1, ComposedAlways, PTL

\* What is known of a sound never goes back, though receipts come late, twice
\* and out of order (voice_receipt, visual_receipt, tick).
THEOREM ReceiptsOnlyAdvance == Spec => ReceiptsAdvance
<1>1. Composed /\ [Next]_vars =>
        [\A d \in Decisions : Order(decision'[d].receipt) >= Order(decision[d].receipt)]_vars
  BY StepKeeps DEF Advances
<1> QED
  BY <1>1, ComposedAlways, PTL DEF Spec, ReceiptsAdvance

=============================================================================
