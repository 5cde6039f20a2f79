------------------------------ MODULE PetVoice ------------------------------
(***************************************************************************)
(* patches/reachy_companion: the owner of the microphone and the speaker.  *)
(*                                                                         *)
(*   - TurnGate (pet_audio.py) gives every user turn an epoch and is the   *)
(*     one place where a sound is admitted and where it is played;         *)
(*   - Companion (pet_companion.py) feeds it from two audio threads, a     *)
(*     capture loop, a recogniser with a thread of its own, a monitor and  *)
(*     the handlers of its clients;                                        *)
(*   - ProactiveAudio (proactive_audio.py) admits sounds nobody asked for, *)
(*     under the lease of one connection.                                  *)
(*                                                                         *)
(* The gate's lock makes its operations atomic.  Deadlines, heartbeats and *)
(* the quiet seconds a proactive sound wants pass at any moment.  Both     *)
(* memories of names are bounded: the oldest is forgotten.                 *)
(***************************************************************************)
EXTENDS Naturals, Sequences

CONSTANTS
  Answers,   \* response ids of the agent, that it may send again
  Cues,      \* event ids of the proactive sounds
  Leases,    \* connection ids (one may be drawn again once nobody has it)
  MaxEpoch,  \* bound on the turns
  SeenLimit, \* maxlen of TurnGate.seen, 256
  EventLimit,\* maxlen of ProactiveAudio.seen, 512
  None

VARIABLES
  epoch, final, answered, muted,  \* TurnGate
  pending, started,               \* the sound admitted; offset > 0
  seen,                           \* the ids admitted, the oldest first
  told,                           \* the last receipt of each response
  repeated,                       \* history: what is pending was refused once more meanwhile
  answers,                        \* history: the answers admitted to each turn
  since,                          \* history: how many sounds were admitted after it
  speech, turn, phase, resetVad,  \* the capture loop
  job, recognizing,               \* the jobs queue; the job under way
  loud,                           \* last_activity is less than a second ago
  agents,                         \* agent_clients is not empty
  connection, alive, sockets,     \* ProactiveAudio; open proactive sockets
  used,                           \* ProactiveAudio.seen, the oldest first
  down                            \* stop() was called

soundVars   == <<seen, told, repeated, answers, since>>
gateVars    == <<epoch, final, answered, muted, pending, started, soundVars>>
captureVars == <<speech, turn, phase, resetVad>>
jobVars     == <<job, recognizing>>
leaseVars   == <<connection, alive, sockets, used>>
vars == <<gateVars, captureVars, jobVars, loud, agents, leaseVars, down>>

Epochs == 0 .. MaxEpoch
\* The acknowledgement and the audition of a turn are named after it.
Locals == {"ack", "audition"} \X Epochs
Ids == Answers \cup Cues \cup Locals

Sounds == [id : Ids, epoch : Epochs, lease : Leases \cup {None}]

\* No agent names a response like one of the service's own sounds; the code does
\* not check it.
ASSUME VoiceAssumption ==
  /\ MaxEpoch \in Nat /\ SeenLimit \in Nat \ {0} /\ EventLimit \in Nat \ {0}
  /\ Answers \cap Cues = {} /\ (Answers \cup Cues) \cap Locals = {}
  /\ None \notin Leases \cup Epochs \cup Sounds

TypeOK ==
  /\ epoch \in Epochs /\ pending \in Sounds \cup {None}
  /\ {final, answered, muted, started, repeated} \subseteq BOOLEAN
  /\ {speech, resetVad, loud, agents, alive, down} \subseteq BOOLEAN
  /\ seen \in Seq(Ids) /\ told \in [Ids -> {"none", "queued", "started", "ended"}]
  /\ answers \in [Epochs -> 0 .. 2] /\ since \in [Ids -> 0 .. SeenLimit]
  /\ turn \in Epochs \cup {None} /\ job \in Epochs \cup {None}
  /\ phase \in {"listening", "hearing", "recognizing", "recovering", "error"}
  /\ recognizing \in [epoch : Epochs, stage : {"transcribing", "emitting"}] \cup {None}
  /\ connection \in Leases \cup {None} /\ sockets \subseteq Leases /\ used \in Seq(Cues)

\* What was never admitted counts as admitted long ago.
Init ==
  /\ epoch = 0 /\ final = FALSE /\ answered = FALSE /\ muted = FALSE
  /\ pending = None /\ started = FALSE
  /\ seen = <<>> /\ told = [i \in Ids |-> "none"] /\ repeated = FALSE
  /\ answers = [e \in Epochs |-> 0] /\ since = [i \in Ids |-> SeenLimit]
  /\ speech = FALSE /\ turn = None /\ phase = "listening" /\ resetVad = FALSE
  /\ job = None /\ recognizing = None /\ loud = TRUE /\ agents = FALSE
  /\ connection = None /\ alive = FALSE /\ sockets = {} /\ used = <<>> /\ down = FALSE

-----------------------------------------------------------------------------
(* TurnGate                                                                *)

Speaking == pending # None
\* The sound that is pending gets a receipt.
Receipt(receipt) == [told EXCEPT ![pending.id] = receipt]

\* What is pending, if anything, ends.
Ended == IF Speaking THEN Receipt("ended") ELSE told

\* advance: what is pending is interrupted and a new turn begins.
Advance(e) ==
  /\ epoch' = e /\ final' = FALSE /\ answered' = FALSE
  /\ pending' = None /\ started' = FALSE /\ repeated' = FALSE
  /\ told' = Ended
  /\ UNCHANGED <<seen, answers, since>>

NewTurn == epoch < MaxEpoch /\ Advance(epoch + 1)

Live(e) == e = epoch

\* MUTANT: the answers of a turn are not counted.
Repeatable(id, visual) == TRUE

\* One answer to a turn; a proactive sound is none.
Unanswered(id, visual) == visual \/ ~answered

\* MUTANT: a response that is over may be sent again.
Over(id) == told[id] \in {"none", "ended"}

\* Not in seen.
Unheard(id) == \A k \in DOMAIN seen : seen[k] # id

\* deque(maxlen): the oldest makes room.
Remember(memory, id, limit) == Append(IF Len(memory) < limit THEN memory ELSE Tail(memory), id)

\* What enqueue asks for, its deadline aside.
Admits(id, e, visual) ==
  /\ Live(e) /\ ~muted
  /\ Unheard(id)
  /\ Unanswered(id, visual)
  /\ ~Speaking

\* One more answer to a turn (bound: more than two are alike).
OneMore(e) == [answers EXCEPT ![e] = IF @ < 2 THEN @ + 1 ELSE 2]
\* One more sound after the others (bound: what is forgotten is alike).
OneLater == [i \in Ids |-> IF since[i] < SeenLimit THEN since[i] + 1 ELSE SeenLimit]

Enqueue(id, lease) ==
  /\ pending' = [id |-> id, epoch |-> epoch, lease |-> lease]
  /\ started' = FALSE /\ repeated' = FALSE
  /\ answered' = (answered \/ lease = None)
  /\ seen' = Remember(seen, id, SeenLimit)
  /\ told' = [told EXCEPT ![id] = "queued"]
  /\ answers' = IF lease = None THEN OneMore(epoch) ELSE answers
  /\ since' = [OneLater EXCEPT ![id] = 0]
  /\ UNCHANGED <<epoch, final, muted>>

\* The sound is dropped at once, with a receipt under its name, which may be
\* that of the one that is pending.
Refuse(id) ==
  /\ told' = [told EXCEPT ![id] = "ended"]
  /\ repeated' = (repeated \/ (Speaking /\ pending.id = id))
  /\ UNCHANGED <<epoch, final, answered, muted, pending, started, seen, answers, since>>

\* enqueue: what it asks for may hold and the deadline have passed.
Offer(id, e, lease) ==
  \/ Admits(id, e, lease # None) /\ Enqueue(id, lease)
  \/ Refuse(id)

Ends == pending' = None /\ told' = Receipt("ended") /\ repeated' = FALSE

\* The guard of a proactive sound: its lease, and nobody speaks.
Guarded == pending.lease # None => connection = pending.lease /\ alive /\ ~loud

\* render, on the audio thread: one block.  A sound is dropped when its
\* guard fails or its deadline has passed.
Render ==
  /\ Speaking /\ UNCHANGED <<epoch, final, answered, muted, seen, answers, since>>
  /\ \/ Ends /\ UNCHANGED started
     \/ /\ Guarded /\ ~muted /\ Live(pending.epoch)
        /\ started' = TRUE /\ told' = (IF started THEN told ELSE Receipt("started"))
        /\ UNCHANGED <<pending, repeated>>
  /\ UNCHANGED <<captureVars, jobVars, loud, agents, leaseVars, down>>

-----------------------------------------------------------------------------
(* Capture and recognition                                                 *)

\* interrupt: a new turn, and the display listens.
Interrupt == NewTurn /\ phase' = "listening"

\* input_callback: the consumer is congested; the turn ends where it is.
Overflow ==
  /\ ~down /\ NewTurn /\ resetVad' = TRUE
  /\ UNCHANGED <<muted, speech, turn, phase, jobVars, loud, agents, leaseVars, down>>

Hears(now) ==
  /\ loud # now /\ loud' = now
  /\ UNCHANGED <<gateVars, captureVars, jobVars, agents, leaseVars, down>>

CaptureResets ==
  /\ resetVad /\ ~down
  /\ resetVad' = FALSE /\ speech' = FALSE /\ turn' = None
  /\ UNCHANGED <<gateVars, phase, jobVars, loud, agents, leaseVars, down>>

\* The flag of a reset may be raised after the loop has looked at it.
SpeechBegins ==
  /\ ~down /\ ~muted /\ ~speech
  /\ NewTurn
  /\ speech' = TRUE /\ turn' = epoch' /\ phase' = "hearing"
  /\ UNCHANGED <<muted, resetVad, jobVars, loud, agents, leaseVars, down>>

\* The end of the words: the turn becomes the job, in the place of an old one.
SpeechEnds ==
  /\ ~down /\ ~muted /\ speech
  /\ speech' = FALSE /\ turn' = None
  /\ job' = IF turn = None THEN job ELSE turn
  /\ phase' = IF turn = None THEN phase ELSE "recognizing"
  /\ UNCHANGED <<gateVars, resetVad, recognizing, loud, agents, leaseVars, down>>

TakesJob ==
  /\ job # None /\ recognizing = None /\ ~down
  /\ job' = None
  /\ recognizing' = IF Live(job) THEN [epoch |-> job, stage |-> "transcribing"] ELSE None
  /\ UNCHANGED <<gateVars, captureVars, loud, agents, leaseVars, down>>

\* accept_final: the words belong to the turn in progress, once.
Transcribed ==
  /\ recognizing # None /\ recognizing.stage = "transcribing" /\ ~down
  /\ IF Live(recognizing.epoch) /\ ~final
     THEN /\ final' = TRUE /\ phase' = "listening"
          /\ recognizing' = [recognizing EXCEPT !.stage = "emitting"]
     ELSE /\ recognizing' = None
          /\ UNCHANGED <<final, phase>>
  /\ UNCHANGED <<epoch, answered, muted, pending, started, soundVars, speech, turn, resetVad,
                 job, loud, agents, leaseVars, down>>

RecognitionFails ==
  /\ recognizing # None /\ recognizing.stage = "transcribing" /\ ~down
  /\ recognizing' = None
  /\ phase' = IF Live(recognizing.epoch) THEN "error" ELSE phase
  /\ UNCHANGED <<gateVars, speech, turn, resetVad, job, loud, agents, leaseVars, down>>

\* The words have been sent; without an agent the pet acknowledges them.
Emitted(words) ==
  /\ recognizing # None /\ recognizing.stage = "emitting" /\ ~down
  /\ recognizing' = None
  /\ LET e == recognizing.epoch
     IN IF words /\ ~agents THEN Offer(<<"ack", e>>, e, None) ELSE UNCHANGED gateVars
  /\ UNCHANGED <<captureVars, job, loud, agents, leaseVars, down>>

\* monitor_loop: the microphone was silent for three seconds.
DeviceLost(reopened) ==
  /\ ~down /\ NewTurn /\ resetVad' = TRUE
  /\ phase' = IF reopened THEN "listening" ELSE "recovering"
  /\ UNCHANGED <<muted, speech, turn, jobVars, loud, agents, leaseVars, down>>

-----------------------------------------------------------------------------
(* Clients                                                                 *)

Mute(now) ==
  /\ ~down /\ Interrupt /\ muted' = now /\ resetVad' = TRUE
  /\ UNCHANGED <<speech, turn, jobVars, loud, agents, leaseVars, down>>

InterruptRequested ==
  /\ ~down /\ Interrupt /\ resetVad' = TRUE
  /\ UNCHANGED <<muted, speech, turn, jobVars, loud, agents, leaseVars, down>>

\* audition: its sound is the answer of the turn it begins, under one lock, with
\* a name and a deadline of that moment.
Audition ==
  /\ ~down /\ epoch < MaxEpoch
  /\ LET e == epoch + 1
         id == <<"audition", e>>
     IN /\ epoch' = e /\ final' = FALSE /\ started' = FALSE /\ repeated' = FALSE
        /\ answered' = ~muted
        /\ pending' = IF muted THEN None ELSE [id |-> id, epoch |-> e, lease |-> None]
        /\ told' = [Ended EXCEPT ![id] = IF muted THEN "ended" ELSE "queued"]
        /\ seen' = IF muted THEN seen ELSE Remember(seen, id, SeenLimit)
        /\ answers' = IF muted THEN answers ELSE OneMore(e)
        /\ since' = IF muted THEN since ELSE [OneLater EXCEPT ![id] = 0]
  /\ phase' = "listening"
  /\ UNCHANGED <<muted, speech, turn, resetVad, jobVars, loud, agents, leaseVars, down>>

\* agent_result, for any turn the agent has heard of.
AgentResult(id, e) ==
  /\ ~down /\ final
  /\ Offer(id, e, None)
  /\ UNCHANGED <<captureVars, jobVars, loud, agents, leaseVars, down>>

AgentsChange ==
  /\ agents' = ~agents
  /\ UNCHANGED <<gateVars, captureVars, jobVars, loud, leaseVars, down>>

-----------------------------------------------------------------------------
(* ProactiveAudio                                                          *)

\* MUTANT: the old connection's sound goes on.
LeavesPlaying == UNCHANGED <<gateVars>>

\* disconnect of the lease in force: its sound is interrupted.
Revokes ==
  IF Speaking /\ pending.lease # None THEN NewTurn /\ UNCHANGED muted
                                      ELSE UNCHANGED gateVars

Connect(lease) ==
  /\ ~down /\ lease \notin sockets \cup {connection}
  /\ Revokes
  /\ connection' = lease /\ alive' = TRUE
  /\ sockets' = sockets \cup {lease}
  /\ UNCHANGED <<used, captureVars, jobVars, loud, agents, down>>

\* No heartbeat for 1.5 seconds; a later one is refused.
LeaseExpires ==
  /\ alive /\ alive' = FALSE
  /\ UNCHANGED <<gateVars, captureVars, jobVars, loud, agents, connection, sockets, used, down>>

\* forget_client: the socket ends, late perhaps, after another took over.
SocketEnds(lease) ==
  /\ lease \in sockets /\ sockets' = sockets \ {lease}
  /\ IF connection = lease
     THEN Revokes /\ connection' = None /\ alive' = FALSE
     ELSE UNCHANGED <<gateVars, connection, alive>>
  /\ UNCHANGED <<used, captureVars, jobVars, loud, agents, down>>

\* Nobody is speaking or waiting for an answer.
NotBusy == phase = "listening" /\ ~speech /\ turn = None /\ job = None

\* submit: a live lease, the turn it was meant for, an event that is not
\* remembered.  It is remembered now, whatever the time that is left, the eight
\* seconds since the last sound, and the quiet allow.
Submit(cue) ==
  /\ alive /\ \A k \in DOMAIN used : used[k] # cue
  /\ used' = Remember(used, cue, EventLimit)
  /\ \/ UNCHANGED gateVars
     \/ ~muted /\ NotBusy /\ ~loud /\ ~Speaking /\ Offer(cue, epoch, connection)
  /\ UNCHANGED <<captureVars, jobVars, loud, agents, connection, alive, sockets, down>>

Stop ==
  /\ ~down /\ down' = TRUE /\ NewTurn
  /\ UNCHANGED <<muted, captureVars, jobVars, loud, agents, leaseVars>>

-----------------------------------------------------------------------------

Client ==
  \/ \E now \in BOOLEAN : Mute(now)
  \/ InterruptRequested \/ Audition \/ AgentsChange
  \/ \E id \in Answers, e \in Epochs : AgentResult(id, e)
  \/ \E lease \in Leases : Connect(lease) \/ SocketEnds(lease)
  \/ \E cue \in Cues : Submit(cue)

Recognizer == TakesJob \/ Transcribed \/ RecognitionFails \/ \E words \in BOOLEAN : Emitted(words)

Next ==
  \/ Render \/ Overflow \/ \E now \in BOOLEAN : Hears(now)
  \/ CaptureResets \/ SpeechBegins \/ SpeechEnds \/ Recognizer
  \/ \E reopened \in BOOLEAN : DeviceLost(reopened)
  \/ Client \/ LeaseExpires \/ Stop

Spec == Init /\ [][Next]_vars

-----------------------------------------------------------------------------
(* Properties                                                              *)

\* What may be played belongs to the turn in progress and is not muted: after
\* an interrupt, new speech, an overflow or a mute nothing older is heard
\* (pet_audio.py advance, enqueue, render).
PendingCurrent == Speaking => pending.epoch = epoch /\ ~muted

\* A turn gets one answer: the agent's, the acknowledgement or the audition,
\* whoever comes first, also when a name has been forgotten and comes again
\* (pet_audio.py line 100, pet_companion.py line 221).
OneAnswer == \A e \in Epochs : answers[e] <= 1

\* A proactive sound waits or plays only under the lease in force, also when
\* its socket ends late or another connection takes over, and only in a turn no
\* user has begun to speak in: revoking the lease begins a new turn, and must not
\* take one from a user who is speaking or whose words are being recognised
\* (proactive_audio.py lines 36 to 75).
VisualYields ==
  Speaking /\ pending.lease # None =>
    /\ connection = pending.lease
    /\ epoch \notin {turn, job}
    /\ recognizing # None /\ recognizing.stage = "transcribing" => recognizing.epoch # epoch

\* Whatever sounds has a right to: the turn, and a proactive sound the lease.
SoundYields == PendingCurrent /\ VisualYields

\* Every sound that was admitted is told its end, and not before it is over:
\* what was last told of a response is "queued" or "started" only while it is the
\* pending one, and while it is, an end was told only if the same name was sent
\* again and refused meanwhile (pet_audio.py lines 64 to 83, 101 to 110, 113 to 137).
ReceiptsComplete ==
  \A i \in Ids :
    /\ told[i] \in {"queued", "started"} => Speaking /\ pending.id = i
    /\ Speaking /\ pending.id = i /\ ~repeated => told[i] \in {"queued", "started"}

\* A turn has one answer, and each response is told its end when it is over.
AnswersAccounted == OneAnswer /\ ReceiptsComplete

\* A sound that was admitted is admitted again only after SeenLimit others, by
\* any mixture of answers, acknowledgements, auditions and proactive sounds, and
\* whatever was told of it meanwhile; until then its repetitions are refused
\* (pet_audio.py lines 53, 99 and 105).
NeverReplayed ==
  [][\A i \in Ids : told'[i] = "queued" /\ told[i] # "queued" => since[i] >= SeenLimit]_vars

=============================================================================
