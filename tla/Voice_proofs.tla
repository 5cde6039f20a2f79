---------------------------- MODULE Voice_proofs ----------------------------
(***************************************************************************)
(* Proofs about the voice, for all constants: of PetVoice, the pet's own   *)
(* voice gate with its speech capture and cue leases, and of VoiceChain,   *)
(* the wake gate in front of a session of the voice server.                *)
(***************************************************************************)
EXTENDS PetVoice, VoiceChain, TLAPS

Receipts == {"none", "queued", "started", "ended"}
Phases   == {"listening", "hearing", "recognizing", "recovering", "error"}
Works    == [epoch : Epochs, stage : {"transcribing", "emitting"}]
\* What answers a turn; the other sounds are proactive.
Answering == Answers \cup Locals

\* The parts of TypeOK: the gate, and what feeds it.
GateTyped ==
  /\ epoch \in Epochs /\ pending \in Sounds \cup {None}
  /\ final \in BOOLEAN /\ answered \in BOOLEAN /\ muted \in BOOLEAN /\ started \in BOOLEAN
  /\ repeated \in BOOLEAN
  /\ seen \in Seq(Ids) /\ told \in [Ids -> Receipts]
  /\ answers \in [Epochs -> 0 .. 2] /\ since \in [Ids -> 0 .. SeenLimit]

FeedTyped ==
  /\ speech \in BOOLEAN /\ resetVad \in BOOLEAN /\ loud \in BOOLEAN /\ agents \in BOOLEAN
  /\ alive \in BOOLEAN /\ down \in BOOLEAN
  /\ turn \in Epochs \cup {None} /\ job \in Epochs \cup {None} /\ phase \in Phases
  /\ recognizing \in Works \cup {None}
  /\ connection \in Leases \cup {None} /\ sockets \subseteq Leases /\ used \in Seq(Cues)

\* An answer to the turn in progress is counted, and none was given to a turn
\* to come.
Counted ==
  /\ answers[epoch] # 0 => answered
  /\ \A e \in Epochs : e > epoch => answers[e] = 0

Kept(id) == \E k \in 1 .. Len(seen) : seen[k] = id

\* The place of a name in the memory tells how many sounds came after it; what
\* has left the memory was followed by as many as it holds.
Memory ==
  /\ Len(seen) <= SeenLimit
  /\ \A k \in 1 .. Len(seen) : since[seen[k]] = Len(seen) - k
  /\ \A i \in Ids : ~Kept(i) => since[i] = SeenLimit

\* The sounds of turns to come have not been heard of.
Fresh == \A kind \in {"ack", "audition"}, e \in Epochs : e > epoch => ~Kept(<<kind, e>>)

Gate ==
  GateTyped /\ PendingCurrent /\ OneAnswer /\ ReceiptsComplete /\ Counted /\ Memory /\ Fresh

Transcribing(e) == recognizing # None /\ recognizing.stage = "transcribing" /\ recognizing.epoch = e

\* The words of a turn are in one place on their way to the agent, and the
\* display shows which; none are of a turn to come.
Heard ==
  /\ turn # None => turn <= epoch
  /\ job # None => job <= epoch
  /\ recognizing # None => recognizing.epoch <= epoch
  /\ turn = epoch => phase = "hearing" /\ job # epoch /\ ~Transcribing(epoch)
  /\ job = epoch => phase = "recognizing" /\ ~Transcribing(epoch)
  /\ Transcribing(epoch) => phase = "recognizing"

\* A lease is alive only while it is somebody's.
Leased == alive => connection # None

Voiced == Gate /\ FeedTyped /\ Heard /\ Leased /\ VisualYields

-----------------------------------------------------------------------------
(* Types.                                                                  *)

LEMMA TypeParts == TypeOK <=> GateTyped /\ FeedTyped
BY DEF TypeOK, GateTyped, FeedTyped, Receipts, Phases, Works

LEMMA EpochFacts ==
  /\ Epochs \subseteq Nat /\ 0 \in Epochs /\ None \notin Epochs /\ None \notin Leases /\ None \notin Sounds
  /\ \A e \in Epochs : e < MaxEpoch => e + 1 \in Epochs
BY VoiceAssumption DEF Epochs

LEMMA IdFacts ==
  /\ Answering \cap Cues = {} /\ Ids = Answering \cup Cues /\ Answering \subseteq Ids /\ Cues \subseteq Ids
  /\ \A kind \in {"ack", "audition"}, e \in Epochs : <<kind, e>> \in Locals /\ <<kind, e>> \in Answering
BY VoiceAssumption DEF Answering, Ids, Locals

LEMMA SoundRecord ==
  ASSUME NEW id \in Ids, NEW e \in Epochs, NEW lease \in Leases \cup {None}
  PROVE  LET sound == [id |-> id, epoch |-> e, lease |-> lease] IN
         sound \in Sounds /\ sound # None /\ sound.id = id /\ sound.epoch = e /\ sound.lease = lease
BY EpochFacts DEF Sounds

\* A receipt for the sound that is pending.
LEMMA ReceiptGiven ==
  ASSUME GateTyped, Speaking, NEW receipt \in Receipts
  PROVE  /\ pending.id \in Ids /\ pending.epoch \in Epochs
         /\ Receipt(receipt) \in [Ids -> Receipts]
         /\ Receipt(receipt)[pending.id] = receipt
         /\ \A i \in Ids : i # pending.id => Receipt(receipt)[i] = told[i]
<1>1. pending.id \in Ids /\ pending.epoch \in Epochs
  BY DEF GateTyped, Speaking, Sounds
<1> QED
  BY <1>1 DEF Receipt, GateTyped

\* Once what is pending has ended, nothing is queued or started.
LEMMA AllEnded ==
  ASSUME GateTyped, ReceiptsComplete
  PROVE  Ended \in [Ids -> Receipts] /\ \A i \in Ids : Ended[i] \notin {"queued", "started"}
<1>1. CASE Speaking
  BY <1>1, ReceiptGiven DEF Ended, ReceiptsComplete, Receipts
<1>2. CASE ~Speaking
  BY <1>2 DEF Ended, ReceiptsComplete, GateTyped
<1> QED
  BY <1>1, <1>2

-----------------------------------------------------------------------------
(* The memory of names.                                                    *)

LEMMA UnheardFacts ==
  ASSUME GateTyped
  PROVE  \A id \in Ids : Unheard(id) <=> ~Kept(id)
BY DEF GateTyped, Unheard, Kept

\* One more name that is not kept.
Remembers(id) ==
  seen' = Remember(seen, id, SeenLimit) /\ since' = [OneLater EXCEPT ![id] = 0]

LEMMA MemoryKeeps ==
  ASSUME GateTyped, Memory, NEW id \in Ids, ~Kept(id), Remembers(id)
  PROVE  /\ seen' \in Seq(Ids) /\ since' \in [Ids -> 0 .. SeenLimit] /\ Memory'
         /\ \A i \in Ids : i # id /\ ~Kept(i) => ~Kept(i)'
<1> DEFINE lost == IF Len(seen) < SeenLimit THEN 0 ELSE 1
<1>1. /\ seen \in Seq(Ids) /\ Len(seen) \in Nat /\ Len(seen) <= SeenLimit
      /\ SeenLimit \in Nat \ {0} /\ since \in [Ids -> 0 .. SeenLimit]
      /\ \A k \in 1 .. Len(seen) : seen[k] \in Ids
  BY VoiceAssumption DEF GateTyped, Memory
<1>2. /\ seen' \in Seq(Ids) /\ Len(seen') = Len(seen) + 1 - lost /\ Len(seen') <= SeenLimit
      /\ seen'[Len(seen')] = id
      /\ \A k \in 1 .. Len(seen') - 1 : k + lost \in 1 .. Len(seen) /\ seen'[k] = seen[k + lost]
  <2>1. seen' = Append(IF Len(seen) < SeenLimit THEN seen ELSE Tail(seen), id)
    BY DEF Remembers, Remember
  <2>2. CASE Len(seen) < SeenLimit
    <3>1. seen' = Append(seen, id) /\ lost = 0
      BY <2>1, <2>2
    <3> QED
      BY <1>1, <2>2, <3>1
  <2>3. CASE ~(Len(seen) < SeenLimit)
    <3>1. seen # <<>> /\ Len(seen) = SeenLimit
      BY <1>1, <2>3
    <3>2. /\ Tail(seen) \in Seq(Ids) /\ Len(Tail(seen)) = Len(seen) - 1
          /\ \A k \in 1 .. Len(seen) - 1 : Tail(seen)[k] = seen[k + 1]
      BY <1>1, <3>1
    <3>3. seen' = Append(Tail(seen), id) /\ lost = 1
      BY <2>1, <2>3
    <3> QED
      BY <1>1, <3>1, <3>2, <3>3
  <2> QED
    BY <2>2, <2>3
<1>3. /\ lost \in {0, 1}
      /\ lost = 1 => Len(seen) = SeenLimit
      /\ Len(seen') \in Nat /\ Len(seen') >= 1
  BY <1>1, <1>2
<1>4. /\ since' \in [Ids -> 0 .. SeenLimit] /\ since'[id] = 0
      /\ \A i \in Ids : i # id =>
           since'[i] = IF since[i] < SeenLimit THEN since[i] + 1 ELSE SeenLimit
  <2>1. OneLater \in [Ids -> 0 .. SeenLimit]
    BY <1>1 DEF OneLater
  <2> QED
    BY <1>1, <2>1 DEF Remembers, OneLater
<1> HIDE DEF lost
<1>5. \A k \in 1 .. Len(seen) : seen[k] # id /\ since[seen[k]] = Len(seen) - k
  BY DEF Kept, Memory
<1>6. ASSUME NEW k \in 1 .. Len(seen') PROVE since'[seen'[k]] = Len(seen') - k
  <2>1. CASE k = Len(seen')
    BY <1>2, <1>3, <1>4, <2>1
  <2>2. CASE k # Len(seen')
    <3>1. k \in 1 .. Len(seen') - 1 /\ k \in Nat
      BY <1>3, <2>2
    <3>2. /\ k + lost \in 1 .. Len(seen) /\ seen'[k] = seen[k + lost]
      BY <1>2, <3>1
    <3>3. /\ seen'[k] \in Ids /\ seen'[k] # id /\ since[seen'[k]] = Len(seen) - (k + lost)
      BY <1>1, <1>5, <3>2
    <3>4. since[seen'[k]] < SeenLimit
      BY <1>1, <1>3, <3>1, <3>3
    <3>5. since'[seen'[k]] = since[seen'[k]] + 1
      BY <1>4, <3>3, <3>4
    <3> QED
      BY <1>1, <1>2, <1>3, <3>1, <3>3, <3>5
  <2> QED
    BY <2>1, <2>2
<1>7. ASSUME NEW i \in Ids, \A k \in 1 .. Len(seen') : seen'[k] # i
      PROVE  since'[i] = SeenLimit
  <2>1. i # id
    BY <1>2, <1>3, <1>7
  <2>2. CASE ~Kept(i)
    BY <1>1, <1>4, <2>1, <2>2 DEF Memory
  <2>3. CASE Kept(i)
    <3>1. PICK j \in 1 .. Len(seen) : seen[j] = i
      BY <2>3 DEF Kept
    <3>2. since[i] = Len(seen) - j /\ j \in Nat
      BY <1>5, <3>1
    <3>3. CASE j - lost \in 1 .. Len(seen') - 1
      <4>1. seen'[j - lost] = seen[(j - lost) + lost]
        BY <1>2, <3>3
      <4>2. (j - lost) + lost = j /\ j - lost \in 1 .. Len(seen')
        BY <1>3, <3>2, <3>3
      <4> QED
        BY <1>7, <3>1, <4>1, <4>2
    <3>4. CASE j - lost \notin 1 .. Len(seen') - 1
      <4>1. j = 1 /\ lost = 1
        BY <1>1, <1>2, <1>3, <3>2, <3>4
      <4> QED
        BY <1>1, <1>3, <1>4, <2>1, <3>2, <4>1
    <3> QED
      BY <3>3, <3>4
  <2> QED
    BY <2>2, <2>3
<1>8. Memory'
  BY <1>2, <1>6, <1>7 DEF Memory, Kept
<1>9. ASSUME NEW i \in Ids, i # id, ~Kept(i), NEW k \in 1 .. Len(seen') PROVE seen'[k] # i
  <2>1. CASE k = Len(seen')
    BY <1>2, <1>9, <2>1
  <2>2. CASE k # Len(seen')
    <3>1. k \in 1 .. Len(seen') - 1
      BY <1>3, <2>2
    <3> QED
      BY <1>2, <1>9, <3>1 DEF Kept
  <2> QED
    BY <2>1, <2>2
<1> QED
  BY <1>2, <1>4, <1>8, <1>9 DEF Kept

-----------------------------------------------------------------------------
(* What a step does at the gate.                                           *)

Stays == UNCHANGED gateVars

Finals ==
  /\ final' \in BOOLEAN
  /\ UNCHANGED <<epoch, answered, muted, pending, started, soundVars>>

Turns == epoch < MaxEpoch /\ muted' \in BOOLEAN /\ Advance(epoch + 1)

Auditions ==
  LET e == epoch + 1
      id == <<"audition", e>>
  IN /\ epoch < MaxEpoch /\ UNCHANGED muted
     /\ epoch' = e /\ final' = FALSE /\ started' = FALSE /\ repeated' = FALSE
     /\ answered' = ~muted
     /\ pending' = IF muted THEN None ELSE [id |-> id, epoch |-> e, lease |-> None]
     /\ told' = [Ended EXCEPT ![id] = IF muted THEN "ended" ELSE "queued"]
     /\ answers' = IF muted THEN answers ELSE OneMore(e)
     /\ muted => UNCHANGED <<seen, since>>
     /\ ~muted => Remembers(id)

\* An answer to an unanswered turn, or a proactive sound under its lease.
Admitted(id, lease) ==
  /\ ~muted /\ ~Speaking /\ ~Kept(id)
  /\ \/ /\ lease = None /\ ~answered
        /\ id \in Answers \/ \E e \in Epochs : id = <<"ack", e>> /\ e = epoch
     \/ lease \in Leases /\ id \in Cues
  /\ Enqueue(id, lease)

Renders ==
  /\ Speaking /\ UNCHANGED <<epoch, final, answered, muted, seen, answers, since>>
  /\ started' \in BOOLEAN
  /\ \/ Ends
     \/ UNCHANGED <<pending, repeated>> /\ (told' = told \/ told' = Receipt("started"))

GateSteps ==
  \/ Stays \/ Finals \/ Turns \/ Auditions \/ Renders
  \/ \E id \in Ids : Refuse(id)
  \/ \E id \in Ids, lease \in Leases \cup {None} : Admitted(id, lease)

\* What was queued now was not among the sounds remembered.
Spaced == \A i \in Ids : told'[i] = "queued" /\ told[i] # "queued" => since[i] >= SeenLimit

\* What depends on the memory, on the answers and on the turn only.
Held == OneAnswer /\ Counted /\ Memory /\ Fresh

LEMMA HeldStays ==
  ASSUME Gate, UNCHANGED <<epoch, answered, seen, answers, since>>
  PROVE  Held'
BY DEF Gate, Held, OneAnswer, Counted, Memory, Fresh, Kept

LEMMA RendersKeeps ==
  ASSUME Gate, Renders
  PROVE  Gate' /\ Spaced
<1>1. /\ GateTyped /\ PendingCurrent /\ ReceiptsComplete /\ Speaking
      /\ UNCHANGED <<epoch, final, answered, muted, seen, answers, since>>
      /\ started' \in BOOLEAN
  BY DEF Gate, Renders
<1>2. Held'
  BY <1>1, HeldStays
<1>3. CASE Ends
  <2>1. /\ told' \in [Ids -> Receipts] /\ pending' = None /\ repeated' = FALSE
        /\ \A i \in Ids : told'[i] \notin {"queued", "started"}
    BY <1>1, <1>3, AllEnded DEF Ends, Ended
  <2>2. GateTyped' /\ PendingCurrent' /\ ReceiptsComplete' /\ Spaced
    BY <1>1, <2>1 DEF GateTyped, PendingCurrent, ReceiptsComplete, Speaking, Spaced
  <2> QED
    BY <1>2, <2>2 DEF Gate, Held
<1>4. CASE UNCHANGED <<pending, repeated>> /\ told' = told
  <2>1. GateTyped' /\ PendingCurrent' /\ ReceiptsComplete' /\ Spaced
    BY <1>1, <1>4 DEF GateTyped, PendingCurrent, ReceiptsComplete, Speaking, Spaced
  <2> QED
    BY <1>2, <2>1 DEF Gate, Held
<1>5. CASE UNCHANGED <<pending, repeated>> /\ told' = Receipt("started")
  <2>1. /\ told' \in [Ids -> Receipts] /\ told'[pending.id] = "started" /\ pending.id \in Ids
        /\ \A i \in Ids : i # pending.id => told'[i] = told[i]
    BY <1>1, <1>5, ReceiptGiven DEF Receipts
  <2>2. GateTyped' /\ PendingCurrent'
    BY <1>1, <1>5, <2>1 DEF GateTyped, PendingCurrent, Speaking
  <2>3. ReceiptsComplete' /\ Spaced
    BY <1>1, <1>5, <2>1 DEF ReceiptsComplete, Speaking, Spaced
  <2> QED
    BY <1>2, <2>2, <2>3 DEF Gate, Held
<1> QED
  BY <1>3, <1>4, <1>5 DEF Renders

LEMMA RefuseKeeps ==
  ASSUME Gate, NEW id \in Ids, Refuse(id)
  PROVE  Gate' /\ Spaced
<1>1. /\ GateTyped /\ PendingCurrent /\ ReceiptsComplete
      /\ UNCHANGED <<epoch, final, answered, muted, pending, started, seen, answers, since>>
      /\ repeated' = (repeated \/ (Speaking /\ pending.id = id))
  BY DEF Gate, Refuse
<1>2. /\ told' \in [Ids -> Receipts] /\ told'[id] = "ended"
      /\ \A i \in Ids : i # id => told'[i] = told[i]
  BY <1>1 DEF GateTyped, Refuse, Receipts
<1>3. Held'
  BY <1>1, HeldStays
<1>4. repeated' \in BOOLEAN
  BY <1>1
<1>5. GateTyped' /\ PendingCurrent'
  BY <1>1, <1>2, <1>4 DEF GateTyped, PendingCurrent, Speaking
<1>6. ReceiptsComplete'
  <2> SUFFICES ASSUME NEW i \in Ids
      PROVE  /\ told'[i] \in {"queued", "started"} => Speaking /\ pending.id = i
             /\ Speaking /\ pending.id = i /\ ~repeated' => told'[i] \in {"queued", "started"}
    BY <1>1 DEF ReceiptsComplete, Speaking
  <2>1. CASE i = id
    BY <1>1, <1>2, <2>1
  <2>2. CASE i # id
    BY <1>1, <1>2, <2>2 DEF ReceiptsComplete
  <2> QED
    BY <2>1, <2>2
<1>7. Spaced
  BY <1>2 DEF Spaced
<1> QED
  BY <1>3, <1>5, <1>6, <1>7 DEF Gate, Held

LEMMA TurnsKeeps ==
  ASSUME Gate, Turns
  PROVE  Gate' /\ Spaced
<1>1. GateTyped /\ OneAnswer /\ ReceiptsComplete /\ Counted /\ Memory /\ Fresh
  BY DEF Gate
<1>2. /\ epoch' = epoch + 1 /\ epoch' \in Epochs /\ epoch \in Nat
      /\ final' = FALSE /\ answered' = FALSE /\ muted' \in BOOLEAN /\ pending' = None
      /\ started' = FALSE /\ repeated' = FALSE /\ told' = Ended
      /\ UNCHANGED <<seen, answers, since>>
  BY <1>1, EpochFacts DEF Turns, Advance, GateTyped
<1>3. told' \in [Ids -> Receipts] /\ \A i \in Ids : told'[i] \notin {"queued", "started"}
  BY <1>1, <1>2, AllEnded
<1>4. GateTyped'
  BY <1>1, <1>2, <1>3 DEF GateTyped
<1>5. PendingCurrent' /\ ReceiptsComplete' /\ Spaced
  BY <1>2, <1>3 DEF PendingCurrent, ReceiptsComplete, Speaking, Spaced
<1>6. OneAnswer' /\ Memory'
  BY <1>1, <1>2 DEF OneAnswer, Memory, Kept
<1>7. \A e \in Epochs : e > epoch' => e > epoch
  BY <1>2, EpochFacts
<1>8. Counted' /\ Fresh'
  <2>1. epoch' > epoch
    BY <1>2
  <2> QED
    BY <1>1, <1>2, <1>7, <2>1 DEF Counted, Fresh, Kept
<1> QED
  BY <1>4, <1>5, <1>6, <1>8 DEF Gate

\* One answer more to a turn that had none.
LEMMA OneMoreFacts ==
  ASSUME GateTyped, NEW e \in Epochs, answers[e] = 0
  PROVE  /\ OneMore(e) \in [Epochs -> 0 .. 2] /\ OneMore(e)[e] = 1
         /\ \A d \in Epochs : d # e => OneMore(e)[d] = answers[d]
BY DEF OneMore, GateTyped

LEMMA AuditionsKeeps ==
  ASSUME Gate, Auditions
  PROVE  Gate' /\ Spaced
<1>1. GateTyped /\ OneAnswer /\ ReceiptsComplete /\ Counted /\ Memory /\ Fresh
  BY DEF Gate
<1> DEFINE e    == epoch + 1
           id   == <<"audition", e>>
<1>2. /\ epoch' = e /\ e \in Epochs /\ epoch \in Nat /\ e > epoch
      /\ id \in Ids /\ muted' = muted /\ muted \in BOOLEAN
      /\ final' = FALSE /\ started' = FALSE /\ repeated' = FALSE /\ answered' = ~muted
      /\ pending' = IF muted THEN None ELSE [id |-> id, epoch |-> e, lease |-> None]
      /\ told' = [Ended EXCEPT ![id] = IF muted THEN "ended" ELSE "queued"]
      /\ answers' = IF muted THEN answers ELSE OneMore(e)
      /\ muted => UNCHANGED <<seen, since>>
      /\ ~muted => Remembers(id)
  BY <1>1, EpochFacts, IdFacts DEF Auditions, GateTyped
<1>3. ~Kept(id) /\ answers[e] = 0
  BY <1>1, <1>2 DEF Fresh, Counted
<1>4. /\ pending' \in Sounds \cup {None}
      /\ muted => pending' = None
      /\ ~muted => pending' # None /\ pending'.id = id /\ pending'.epoch = e
  BY <1>2, SoundRecord
<1>5. /\ told' \in [Ids -> Receipts]
      /\ \A i \in Ids : i # id => told'[i] \notin {"queued", "started"}
      /\ told'[id] = IF muted THEN "ended" ELSE "queued"
  <2>1. Ended \in [Ids -> Receipts] /\ \A i \in Ids : Ended[i] \notin {"queued", "started"}
    BY <1>1, AllEnded
  <2> QED
    BY <1>2, <2>1 DEF Receipts
<1>6. /\ answers' \in [Epochs -> 0 .. 2]
      /\ \A d \in Epochs : d # e => answers'[d] = answers[d]
      /\ answers'[e] = IF muted THEN 0 ELSE 1
  BY <1>1, <1>2, <1>3, OneMoreFacts DEF GateTyped
<1>7. /\ seen' \in Seq(Ids) /\ since' \in [Ids -> 0 .. SeenLimit] /\ Memory'
      /\ \A i \in Ids : i # id /\ ~Kept(i) => ~Kept(i)'
  <2>1. CASE muted
    BY <1>1, <1>2, <2>1 DEF GateTyped, Memory, Kept
  <2>2. CASE ~muted
    BY <1>1, <1>2, <1>3, <2>2, MemoryKeeps
  <2> QED
    BY <2>1, <2>2
<1>8. /\ \A kind \in {"ack", "audition"}, d \in Epochs :
           d > e => /\ d > epoch /\ d # e /\ <<kind, d>> \in Ids /\ <<kind, d>> # <<"audition", e>>
  BY <1>2, IdFacts, EpochFacts
<1> HIDE DEF id, e
<1>9. GateTyped'
  BY <1>1, <1>2, <1>4, <1>5, <1>6, <1>7 DEF GateTyped
<1>10. PendingCurrent'
  BY <1>2, <1>4 DEF PendingCurrent, Speaking
<1>11. ReceiptsComplete'
  <2> SUFFICES ASSUME NEW i \in Ids
      PROVE  /\ told'[i] \in {"queued", "started"} => pending' # None /\ pending'.id = i
             /\ pending' # None /\ pending'.id = i => told'[i] \in {"queued", "started"}
    BY DEF ReceiptsComplete, Speaking
  <2>1. CASE i = id
    BY <1>2, <1>4, <1>5, <2>1
  <2>2. CASE i # id
    BY <1>2, <1>4, <1>5, <2>2
  <2> QED
    BY <2>1, <2>2
<1>12. OneAnswer'
  <2> SUFFICES ASSUME NEW d \in Epochs PROVE answers'[d] <= 1
    BY DEF OneAnswer
  <2>1. CASE d = e
    BY <1>6, <2>1
  <2>2. CASE d # e
    BY <1>1, <1>6, <2>2 DEF OneAnswer
  <2> QED
    BY <2>1, <2>2
<1>13. Counted'
  <2>1. \A d \in Epochs : d > e => d > epoch /\ d # e
    BY <1>2, EpochFacts DEF e
  <2> QED
    BY <1>1, <1>2, <1>6, <2>1 DEF Counted
<1>14. Fresh'
  <2> SUFFICES ASSUME NEW kind \in {"ack", "audition"}, NEW d \in Epochs, d > epoch'
      PROVE  ~Kept(<<kind, d>>)'
    BY DEF Fresh, Kept
  <2>1. d > e /\ d > epoch /\ <<kind, d>> \in Ids /\ <<kind, d>> # id
    BY <1>2, <1>8 DEF id
  <2>2. ~Kept(<<kind, d>>)
    BY <1>1, <2>1 DEF Fresh
  <2> QED
    BY <1>7, <2>1, <2>2 DEF Kept
<1>15. Spaced
  <2>1. since[id] = SeenLimit
    BY <1>1, <1>2, <1>3 DEF Memory
  <2> QED
    BY <1>5, <2>1, VoiceAssumption DEF Spaced
<1> QED
  BY <1>7, <1>9, <1>10, <1>11, <1>12, <1>13, <1>14, <1>15 DEF Gate

LEMMA AdmittedKeeps ==
  ASSUME Gate, NEW id \in Ids, NEW lease \in Leases \cup {None}, Admitted(id, lease)
  PROVE  Gate' /\ Spaced
<1>1. GateTyped /\ OneAnswer /\ ReceiptsComplete /\ Counted /\ Memory /\ Fresh
  BY DEF Gate
<1>2. /\ epoch' = epoch /\ final' = final /\ muted' = muted /\ started' = FALSE /\ repeated' = FALSE
      /\ ~muted /\ ~Speaking /\ ~Kept(id)
      /\ pending' = [id |-> id, epoch |-> epoch, lease |-> lease]
      /\ answered' = (answered \/ lease = None)
      /\ told' = [told EXCEPT ![id] = "queued"]
      /\ answers' = (IF lease = None THEN OneMore(epoch) ELSE answers)
      /\ Remembers(id)
  BY DEF Admitted, Enqueue, Remembers
<1>3. /\ lease = None => ~answered
      /\ \A kind \in {"ack", "audition"}, e \in Epochs : e > epoch => id # <<kind, e>>
  <2>1. CASE lease \in Leases /\ id \in Cues
    BY <2>1, IdFacts, EpochFacts
  <2>2. CASE lease = None /\ ~answered /\ id \in Answers
    <3>1. id \notin Locals
      BY <2>2, VoiceAssumption
    <3> QED
      BY <2>2, <3>1, IdFacts
  <2>3. CASE lease = None /\ ~answered /\ \E e \in Epochs : id = <<"ack", e>> /\ e = epoch
    BY <1>1, <2>3, EpochFacts DEF GateTyped
  <2> QED
    BY <2>1, <2>2, <2>3 DEF Admitted
<1>4. /\ pending' \in Sounds /\ pending' # None /\ pending'.id = id /\ pending'.epoch = epoch
  BY <1>1, <1>2, SoundRecord DEF GateTyped
<1>5. /\ told' \in [Ids -> Receipts]
      /\ \A i \in Ids : i # id => told'[i] = told[i]
      /\ told'[id] = "queued"
  BY <1>1, <1>2 DEF GateTyped, Receipts
<1>6. /\ answers' \in [Epochs -> 0 .. 2]
      /\ \A d \in Epochs : d # epoch => answers'[d] = answers[d]
      /\ answers'[epoch] <= 1
      /\ answers'[epoch] # 0 => answered'
  <2>1. CASE lease = None
    <3>1. answers[epoch] = 0 /\ epoch \in Epochs
      BY <1>1, <1>3, <2>1 DEF Counted, GateTyped
    <3>2. answers' = OneMore(epoch) /\ answered'
      BY <1>2, <2>1
    <3> QED
      BY <1>1, <3>1, <3>2, OneMoreFacts
  <2>2. CASE lease # None
    <3>1. answers' = answers /\ answered' = answered
      BY <1>1, <1>2, <2>2 DEF GateTyped
    <3> QED
      BY <1>1, <3>1 DEF GateTyped, OneAnswer, Counted
  <2> QED
    BY <2>1, <2>2
<1>7. /\ seen' \in Seq(Ids) /\ since' \in [Ids -> 0 .. SeenLimit] /\ Memory'
      /\ \A i \in Ids : i # id /\ ~Kept(i) => ~Kept(i)'
  BY <1>1, <1>2, MemoryKeeps
<1>8. answered' \in BOOLEAN
  BY <1>2
<1>9. GateTyped'
  BY <1>1, <1>2, <1>4, <1>5, <1>6, <1>7, <1>8 DEF GateTyped
<1>10. PendingCurrent'
  BY <1>2, <1>4 DEF PendingCurrent, Speaking
<1>11. ReceiptsComplete'
  <2> SUFFICES ASSUME NEW i \in Ids
      PROVE  /\ told'[i] \in {"queued", "started"} => pending' # None /\ pending'.id = i
             /\ pending' # None /\ pending'.id = i => told'[i] \in {"queued", "started"}
    BY DEF ReceiptsComplete, Speaking
  <2>1. CASE i = id
    BY <1>4, <1>5, <2>1
  <2>2. CASE i # id
    <3>1. told'[i] = told[i] /\ told[i] \notin {"queued", "started"}
      BY <1>1, <1>2, <1>5, <2>2 DEF ReceiptsComplete
    <3> QED
      BY <1>4, <2>2, <3>1
  <2> QED
    BY <2>1, <2>2
<1>12. OneAnswer'
  BY <1>1, <1>6 DEF OneAnswer
<1>13. Counted'
  <2>1. \A d \in Epochs : d > epoch => d # epoch /\ answers'[d] = 0
    BY <1>1, <1>6, EpochFacts DEF GateTyped, Counted
  <2>2. epoch' = epoch /\ (answers'[epoch] # 0 => answered')
    BY <1>2, <1>6
  <2> QED
    BY <2>1, <2>2 DEF Counted
<1>14. Fresh'
  <2> SUFFICES ASSUME NEW kind \in {"ack", "audition"}, NEW d \in Epochs, d > epoch'
      PROVE  ~Kept(<<kind, d>>)'
    BY DEF Fresh, Kept
  <2>1. d > epoch /\ <<kind, d>> \in Ids /\ <<kind, d>> # id
    BY <1>2, <1>3, IdFacts
  <2>2. ~Kept(<<kind, d>>)
    BY <1>1, <2>1 DEF Fresh
  <2> QED
    BY <1>7, <2>1, <2>2 DEF Kept
<1>15. Spaced
  <2>1. since[id] = SeenLimit
    BY <1>1, <1>2 DEF Memory
  <2> QED
    BY <1>5, <2>1, VoiceAssumption DEF Spaced
<1> QED
  BY <1>7, <1>9, <1>10, <1>11, <1>12, <1>13, <1>14, <1>15 DEF Gate

LEMMA GateKeeps ==
  ASSUME Gate, GateSteps
  PROVE  Gate' /\ Spaced
<1>1. ASSUME Stays \/ Finals PROVE Gate' /\ Spaced
  <2>1. UNCHANGED <<epoch, answered, muted, pending, started, soundVars>> /\ final' \in BOOLEAN
    BY <1>1 DEF Stays, Finals, gateVars, Gate, GateTyped
  <2>2. Held'
    BY <2>1, HeldStays DEF soundVars
  <2>3. GateTyped' /\ PendingCurrent' /\ ReceiptsComplete' /\ Spaced
    BY <2>1 DEF Gate, GateTyped, PendingCurrent, ReceiptsComplete, Speaking, Spaced, soundVars
  <2> QED
    BY <2>2, <2>3 DEF Gate, Held
<1> QED
  BY <1>1, TurnsKeeps, AuditionsKeeps, RendersKeeps, RefuseKeeps, AdmittedKeeps DEF GateSteps

-----------------------------------------------------------------------------
(* What a step does to the words on their way and to the lease.            *)

\* Whatever begins a turn leaves the words of earlier ones behind.
NewTurnFed ==
  /\ epoch' = epoch + 1 /\ epoch < MaxEpoch
  /\ UNCHANGED <<job, recognizing>>
  /\ turn' \in {turn, epoch'} /\ (turn' = epoch' => phase' = "hearing")

\* The same turn: the words stay where they are, move on, or are gone.
SameTurnFed ==
  /\ UNCHANGED epoch
  /\ \/ UNCHANGED <<turn, job, recognizing, phase>>
     \/ turn' = None /\ UNCHANGED <<job, recognizing, phase>>
     \/ /\ turn # None /\ turn' = None /\ job' = turn /\ phase' = "recognizing"
        /\ UNCHANGED recognizing
     \/ /\ job # None /\ recognizing = None /\ job' = None /\ UNCHANGED <<turn, phase>>
        /\ recognizing' = IF job = epoch THEN [epoch |-> job, stage |-> "transcribing"] ELSE None
     \/ /\ recognizing # None /\ recognizing.stage = "transcribing" /\ UNCHANGED <<turn, job>>
        /\ \/ /\ recognizing' = None
              /\ phase' = phase \/ recognizing.epoch = epoch
           \/ /\ recognizing.epoch = epoch
              /\ recognizing' = [recognizing EXCEPT !.stage = "emitting"]
     \/ recognizing' = None /\ UNCHANGED <<turn, job, phase>>

LEMMA SameTurnKeeps ==
  ASSUME GateTyped, FeedTyped, Heard, SameTurnFed
  PROVE  /\ Heard'
         /\ epoch \notin {turn, job} /\ ~Transcribing(epoch) =>
              epoch' \notin {turn', job'} /\ ~Transcribing(epoch)'
<1>1. /\ epoch \in Epochs /\ epoch \in Nat /\ None \notin Epochs
      /\ turn \in Epochs \cup {None} /\ job \in Epochs \cup {None}
      /\ recognizing # None => recognizing \in Works
      /\ epoch' = epoch
  BY EpochFacts DEF GateTyped, FeedTyped, SameTurnFed
<1>2. Transcribing(epoch)' <=> recognizing' # None /\ recognizing'.stage = "transcribing" /\ recognizing'.epoch = epoch
  BY <1>1 DEF Transcribing
<1> USE DEF Heard
<1>3. CASE UNCHANGED <<turn, job, recognizing, phase>>
  BY <1>1, <1>2, <1>3 DEF Transcribing
<1>4. CASE turn' = None /\ UNCHANGED <<job, recognizing, phase>>
  BY <1>1, <1>2, <1>4 DEF Transcribing
<1>5. CASE /\ turn # None /\ turn' = None /\ job' = turn /\ phase' = "recognizing"
           /\ UNCHANGED recognizing
  BY <1>1, <1>2, <1>5 DEF Transcribing
<1>6. CASE /\ job # None /\ recognizing = None /\ job' = None /\ UNCHANGED <<turn, phase>>
           /\ recognizing' = IF job = epoch THEN [epoch |-> job, stage |-> "transcribing"] ELSE None
  BY <1>1, <1>2, <1>6 DEF Transcribing
<1>7. CASE /\ recognizing # None /\ recognizing.stage = "transcribing" /\ UNCHANGED <<turn, job>>
           /\ recognizing' = None
           /\ phase' = phase \/ recognizing.epoch = epoch
  BY <1>1, <1>2, <1>7 DEF Transcribing
<1>8. CASE /\ recognizing # None /\ recognizing.stage = "transcribing" /\ UNCHANGED <<turn, job>>
           /\ recognizing.epoch = epoch
           /\ recognizing' = [recognizing EXCEPT !.stage = "emitting"]
  <2>1. recognizing'.stage = "emitting" /\ recognizing'.epoch = epoch
    BY <1>1, <1>8 DEF Works
  <2> QED
    BY <1>1, <1>2, <1>8, <2>1 DEF Transcribing
<1>9. CASE recognizing' = None /\ UNCHANGED <<turn, job, phase>>
  BY <1>1, <1>2, <1>9 DEF Transcribing
<1> QED
  BY <1>3, <1>4, <1>5, <1>6, <1>7, <1>8, <1>9 DEF SameTurnFed

LEMMA NewTurnKeeps ==
  ASSUME GateTyped, FeedTyped, Heard, NewTurnFed
  PROVE  Heard'
<1>1. /\ epoch \in Nat /\ None \notin Epochs /\ epoch' = epoch + 1 /\ epoch' \in Epochs
      /\ turn # None => turn \in Nat /\ turn <= epoch
      /\ job # None => job \in Nat /\ job <= epoch
      /\ recognizing # None => recognizing.epoch \in Nat /\ recognizing.epoch <= epoch
      /\ UNCHANGED <<job, recognizing>>
      /\ turn' \in {turn, epoch'} /\ (turn' = epoch' => phase' = "hearing")
  BY EpochFacts DEF GateTyped, FeedTyped, Heard, NewTurnFed, Works
<1>2. job # epoch' /\ (recognizing # None => recognizing.epoch # epoch')
  BY <1>1
<1>3. /\ turn' # None => turn' <= epoch'
      /\ job # None => job <= epoch'
      /\ recognizing # None => recognizing.epoch <= epoch'
  BY <1>1
<1>4. ~Transcribing(epoch)'
  BY <1>1, <1>2 DEF Transcribing
<1> QED
  BY <1>1, <1>2, <1>3, <1>4 DEF Heard

\* What becomes of a proactive sound: it goes with its turn, and its lease
\* with it; it is admitted when nobody is heard.
Silent == epoch \notin {turn, job} /\ ~Transcribing(epoch)

SoundSteps ==
  \/ pending' = None
  \/ pending' # None /\ pending'.lease = None
  \/ /\ Speaking /\ pending' = pending /\ SameTurnFed /\ connection' = connection
  \/ /\ pending' # None /\ pending'.lease = connection /\ Silent /\ connection' = connection
     /\ UNCHANGED <<epoch, turn, job, recognizing>>

LEMMA SoundKeeps ==
  ASSUME GateTyped, FeedTyped, Heard, VisualYields, SoundSteps
  PROVE  VisualYields'
<1> SUFFICES ASSUME pending' # None, pending'.lease # None
    PROVE  /\ connection' = pending'.lease
           /\ epoch' \notin {turn', job'} /\ ~Transcribing(epoch)'
  BY DEF VisualYields, Speaking, Transcribing
<1>1. CASE Speaking /\ pending' = pending /\ SameTurnFed /\ connection' = connection
  <2>1. connection = pending.lease /\ epoch \notin {turn, job} /\ ~Transcribing(epoch)
    BY <1>1 DEF VisualYields, Transcribing
  <2> QED
    BY <1>1, <2>1, SameTurnKeeps
<1>2. CASE /\ pending'.lease = connection /\ Silent /\ connection' = connection
           /\ UNCHANGED <<epoch, turn, job, recognizing>>
  BY <1>2 DEF Silent, Transcribing
<1> QED
  BY <1>1, <1>2 DEF SoundSteps

-----------------------------------------------------------------------------
(* The actions.                                                            *)

\* What every action is, for the gate, for the words and for the lease.
Sorted ==
  FeedTyped' /\ GateSteps /\ (NewTurnFed \/ SameTurnFed) /\ Leased' /\ SoundSteps

\* Turns that begin without a word of the user.
LEMMA TurnActions ==
  ASSUME Voiced,
         \/ Overflow \/ SpeechBegins \/ InterruptRequested \/ Stop
         \/ \E reopened \in BOOLEAN : DeviceLost(reopened)
         \/ \E now \in BOOLEAN : Mute(now)
  PROVE  Sorted
<1>1. GateTyped /\ FeedTyped /\ Heard /\ Leased
  BY DEF Voiced, Gate
<1>2. /\ epoch < MaxEpoch /\ Advance(epoch + 1) /\ muted' \in BOOLEAN
      /\ UNCHANGED <<jobVars, loud, agents, leaseVars>>
      /\ resetVad' \in BOOLEAN /\ down' \in BOOLEAN /\ speech' \in BOOLEAN /\ phase' \in Phases
      /\ turn' = turn \/ (turn' = epoch' /\ phase' = "hearing")
  BY <1>1 DEF Overflow, SpeechBegins, InterruptRequested, Stop, DeviceLost, Mute, Interrupt, NewTurn,
              captureVars, jobVars, GateTyped, FeedTyped, Phases
<1>3. epoch' = epoch + 1 /\ pending' = None /\ epoch' \in Epochs /\ epoch \in Nat
  BY <1>1, <1>2, EpochFacts DEF Advance, GateTyped
<1>4. turn # epoch'
  BY <1>1, <1>3, EpochFacts DEF Heard, FeedTyped
<1>5. FeedTyped'
  BY <1>1, <1>2, <1>3 DEF FeedTyped, jobVars, leaseVars
<1>6. GateSteps
  BY <1>2 DEF GateSteps, Turns
<1>7. NewTurnFed
  BY <1>2, <1>3, <1>4 DEF NewTurnFed, jobVars
<1>8. Leased' /\ SoundSteps
  BY <1>1, <1>2, <1>3 DEF Leased, SoundSteps, leaseVars
<1> QED
  BY <1>5, <1>6, <1>7, <1>8 DEF Sorted

\* Steps that leave the gate as it is.
LEMMA QuietActions ==
  ASSUME Voiced,
         \/ \E now \in BOOLEAN : Hears(now)
         \/ CaptureResets \/ SpeechEnds \/ TakesJob \/ RecognitionFails \/ AgentsChange
         \/ LeaseExpires \/ UNCHANGED vars
  PROVE  Sorted
<1>1. GateTyped /\ FeedTyped /\ Heard /\ Leased
  BY DEF Voiced, Gate
<1>2. UNCHANGED gateVars /\ UNCHANGED <<connection, sockets, used, down>>
      /\ alive' \in {alive, FALSE}
  BY <1>1 DEF Hears, CaptureResets, SpeechEnds, TakesJob, RecognitionFails, AgentsChange,
              LeaseExpires, vars, leaseVars, FeedTyped
<1>3. epoch' = epoch /\ pending' = pending /\ epoch \in Epochs
  BY <1>1, <1>2 DEF gateVars, GateTyped
<1>4. SameTurnFed
  BY <1>2, <1>3 DEF Hears, CaptureResets, SpeechEnds, TakesJob, RecognitionFails, AgentsChange,
        LeaseExpires, vars, captureVars, jobVars, SameTurnFed, Live
<1>5. /\ loud' \in BOOLEAN /\ agents' \in BOOLEAN /\ speech' \in BOOLEAN /\ resetVad' \in BOOLEAN
      /\ alive' \in BOOLEAN
  BY <1>1, <1>2 DEF Hears, CaptureResets, SpeechEnds, TakesJob, RecognitionFails, AgentsChange,
        LeaseExpires, vars, captureVars, FeedTyped
<1>6. /\ turn' \in Epochs \cup {None} /\ job' \in Epochs \cup {None} /\ phase' \in Phases
      /\ recognizing' \in Works \cup {None}
  BY <1>1 DEF Hears, CaptureResets, SpeechEnds, TakesJob, RecognitionFails, AgentsChange,
        LeaseExpires, vars, captureVars, jobVars, FeedTyped, Phases, Works
<1>7. FeedTyped'
  BY <1>1, <1>2, <1>5, <1>6 DEF FeedTyped
<1>8. GateSteps
  BY <1>2 DEF GateSteps, Stays
<1>9. Leased'
  <2>1. CASE alive' = alive
    BY <1>1, <1>2, <2>1 DEF Leased
  <2>2. CASE alive' = FALSE
    BY <2>2 DEF Leased
  <2> QED
    BY <1>2, <2>1, <2>2
<1>10. SoundSteps
  BY <1>2, <1>3, <1>4 DEF SoundSteps, Speaking
<1> QED
  BY <1>4, <1>7, <1>8, <1>9, <1>10 DEF Sorted

\* A block is played, or the sound dropped.
LEMMA RenderActions ==
  ASSUME Voiced, Render
  PROVE  Sorted
<1>1. GateTyped /\ FeedTyped /\ Heard /\ Leased
  BY DEF Voiced, Gate
<1>2. /\ Speaking /\ UNCHANGED <<epoch, final, answered, muted>>
      /\ UNCHANGED <<captureVars, jobVars, loud, agents, leaseVars, down>>
      /\ UNCHANGED <<seen, answers, since>> /\ started' \in BOOLEAN
      /\ \/ Ends
         \/ UNCHANGED <<pending, repeated>> /\ (told' = told \/ told' = Receipt("started"))
  BY <1>1 DEF Render, GateTyped
<1>3. FeedTyped' /\ Leased'
  BY <1>1, <1>2 DEF FeedTyped, Leased, captureVars, jobVars, leaseVars
<1>4. SameTurnFed
  BY <1>2 DEF SameTurnFed, captureVars, jobVars
<1>5. GateSteps
  BY <1>2 DEF GateSteps, Renders
<1>6. SoundSteps
  BY <1>2, <1>4 DEF SoundSteps, leaseVars, Ends
<1> QED
  BY <1>3, <1>4, <1>5, <1>6 DEF Sorted

\* A sound offered to answer the turn is admitted or refused.
LEMMA OfferFacts ==
  ASSUME GateTyped, NEW id \in Ids, NEW e, Offer(id, e, None),
         \/ id \in Answers
         \/ id = <<"ack", e>> /\ (e = epoch \/ Refuse(id))
  PROVE  /\ GateSteps /\ epoch' = epoch
         /\ \/ Speaking /\ pending' = pending
            \/ pending' = None
            \/ pending' # None /\ pending'.lease = None
<1>1. epoch \in Epochs
  BY DEF GateTyped
<1>2. CASE Refuse(id)
  BY <1>2 DEF Refuse, GateSteps, Speaking
<1>3. CASE ~Refuse(id)
  <2>1. Admits(id, e, FALSE) /\ Enqueue(id, None)
    BY <1>3 DEF Offer
  <2>2. Admitted(id, None)
    BY <1>1, <1>3, <2>1, UnheardFacts DEF Admitted, Admits, Unanswered
  <2>3. epoch' = epoch /\ pending' = [id |-> id, epoch |-> epoch, lease |-> None]
    BY <2>1 DEF Enqueue
  <2>4. pending' # None /\ pending'.lease = None
    BY <1>1, <2>3, SoundRecord
  <2> QED
    BY <2>2, <2>3, <2>4 DEF GateSteps
<1> QED
  BY <1>2, <1>3

\* What answers the turn: the agent, the acknowledgement, the audition.
LEMMA AnswerActions ==
  ASSUME Voiced,
         \/ Transcribed \/ Audition
         \/ \E words \in BOOLEAN : Emitted(words)
         \/ \E id \in Answers, e \in Epochs : AgentResult(id, e)
  PROVE  Sorted
<1>1. GateTyped /\ FeedTyped /\ Heard /\ Leased
  BY DEF Voiced, Gate
<1>2. epoch \in Epochs /\ epoch \in Nat
  BY <1>1, EpochFacts DEF GateTyped
<1>3. CASE Transcribed
  <2>1. /\ UNCHANGED <<epoch, answered, muted, pending, started, soundVars, speech, turn, resetVad,
                       job, loud, agents, leaseVars, down>>
        /\ recognizing # None /\ recognizing.stage = "transcribing"
        /\ \/ /\ recognizing.epoch = epoch /\ final' = TRUE /\ phase' = "listening"
              /\ recognizing' = [recognizing EXCEPT !.stage = "emitting"]
           \/ recognizing' = None /\ final' = final /\ phase' = phase
    BY <1>3 DEF Transcribed, Live
  <2>2. [recognizing EXCEPT !.stage = "emitting"] \in Works
    BY <1>1, <2>1 DEF FeedTyped, Works
  <2>3. FeedTyped' /\ Leased'
    BY <1>1, <2>1, <2>2 DEF FeedTyped, Leased, leaseVars, Phases
  <2>4. SameTurnFed
    BY <2>1 DEF SameTurnFed
  <2>5. GateSteps
    BY <1>1, <2>1 DEF GateSteps, Finals, GateTyped
  <2>6. SoundSteps
    BY <2>1, <2>4 DEF SoundSteps, leaseVars, Speaking
  <2> QED
    BY <2>3, <2>4, <2>5, <2>6 DEF Sorted
<1>4. CASE Audition
  <2>1. /\ UNCHANGED <<muted, speech, turn, resetVad, jobVars, loud, agents, leaseVars, down>>
        /\ epoch' = epoch + 1 /\ epoch < MaxEpoch /\ phase' = "listening"
        /\ pending' = IF muted THEN None
                      ELSE [id |-> <<"audition", epoch + 1>>, epoch |-> epoch + 1, lease |-> None]
    BY <1>4 DEF Audition
  <2>2. turn # epoch'
    BY <1>1, <1>2, <2>1, EpochFacts DEF Heard, FeedTyped
  <2>3. FeedTyped' /\ Leased'
    BY <1>1, <2>1 DEF FeedTyped, Leased, jobVars, leaseVars, Phases
  <2>4. NewTurnFed
    BY <2>1, <2>2 DEF NewTurnFed, jobVars
  <2>5. GateSteps
    BY <1>4 DEF GateSteps, Auditions, Audition, Remembers
  <2>6. pending' = None \/ pending'.lease = None
    BY <2>1
  <2>7. SoundSteps
    BY <2>6 DEF SoundSteps
  <2> QED
    BY <2>3, <2>4, <2>5, <2>7 DEF Sorted
<1>5. ASSUME NEW words \in BOOLEAN, Emitted(words) PROVE Sorted
  <2>1. /\ UNCHANGED <<captureVars, job, loud, agents, leaseVars, down>>
        /\ recognizing # None /\ recognizing' = None
        /\ \/ Offer(<<"ack", recognizing.epoch>>, recognizing.epoch, None)
           \/ UNCHANGED gateVars
    BY <1>5 DEF Emitted
  <2>2. FeedTyped' /\ Leased'
    BY <1>1, <2>1 DEF FeedTyped, Leased, captureVars, leaseVars
  <2>3. CASE UNCHANGED gateVars
    <3>1. SameTurnFed
      BY <2>1, <2>3 DEF SameTurnFed, captureVars, gateVars
    <3>2. GateSteps
      BY <2>3 DEF GateSteps, Stays
    <3>3. SoundSteps
      BY <2>1, <2>3, <3>1 DEF SoundSteps, gateVars, leaseVars, Speaking
    <3> QED
      BY <2>2, <3>1, <3>2, <3>3 DEF Sorted
  <2>4. CASE Offer(<<"ack", recognizing.epoch>>, recognizing.epoch, None)
    <3>1. <<"ack", recognizing.epoch>> \in Ids
      BY <1>1, <2>1, IdFacts DEF FeedTyped, Works
    <3>2. recognizing.epoch = epoch \/ Refuse(<<"ack", recognizing.epoch>>)
      BY <2>4 DEF Offer, Admits, Live
    <3>3. GateSteps /\ epoch' = epoch /\ ((Speaking /\ pending' = pending) \/ pending' = None \/ (pending' # None /\ pending'.lease = None))
      BY <1>1, <1>2, <2>4, <3>1, <3>2, OfferFacts
    <3>4. SameTurnFed
      BY <2>1, <3>3 DEF SameTurnFed, captureVars
    <3>5. SoundSteps
      BY <2>1, <3>3, <3>4 DEF SoundSteps, leaseVars
    <3> QED
      BY <2>2, <3>3, <3>4, <3>5 DEF Sorted
  <2> QED
    BY <2>1, <2>3, <2>4
<1>6. ASSUME NEW id \in Answers, NEW e \in Epochs, AgentResult(id, e) PROVE Sorted
  <2>1. /\ UNCHANGED <<captureVars, jobVars, loud, agents, leaseVars, down>>
        /\ Offer(id, e, None)
    BY <1>6 DEF AgentResult
  <2>2. id \in Ids
    BY DEF Ids
  <2>3. GateSteps /\ epoch' = epoch /\ ((Speaking /\ pending' = pending) \/ pending' = None \/ (pending' # None /\ pending'.lease = None))
    BY <1>1, <2>1, <2>2, OfferFacts
  <2>4. FeedTyped' /\ Leased'
    BY <1>1, <2>1 DEF FeedTyped, Leased, captureVars, jobVars, leaseVars
  <2>5. SameTurnFed
    BY <2>1, <2>3 DEF SameTurnFed, captureVars, jobVars
  <2>6. SoundSteps
    BY <2>1, <2>3, <2>5 DEF SoundSteps, leaseVars
  <2> QED
    BY <2>3, <2>4, <2>5, <2>6 DEF Sorted
<1> QED
  BY <1>3, <1>4, <1>5, <1>6

\* The lease changes hands, with the sound that was admitted under it.
LEMMA RevokesFacts ==
  ASSUME Voiced, Revokes, UNCHANGED <<captureVars, jobVars>>
  PROVE  /\ GateSteps /\ (NewTurnFed \/ SameTurnFed) /\ SoundSteps
<1>1. GateTyped /\ FeedTyped /\ Heard
  BY DEF Voiced, Gate
<1>2. CASE Speaking /\ pending.lease # None
  <2>1. epoch < MaxEpoch /\ Advance(epoch + 1) /\ muted' = muted
    BY <1>2 DEF Revokes, NewTurn
  <2>2. epoch' = epoch + 1 /\ pending' = None /\ epoch \in Nat /\ epoch' \in Epochs
    BY <1>1, <2>1, EpochFacts DEF Advance, GateTyped
  <2>3. turn # epoch'
    BY <1>1, <2>2, EpochFacts DEF Heard, FeedTyped
  <2>4. GateSteps
    BY <1>1, <2>1 DEF GateSteps, Turns, GateTyped
  <2>5. NewTurnFed
    BY <2>1, <2>2, <2>3 DEF NewTurnFed, captureVars, jobVars
  <2> QED
    BY <2>2, <2>4, <2>5 DEF SoundSteps
<1>3. CASE ~(Speaking /\ pending.lease # None)
  <2>1. UNCHANGED gateVars
    BY <1>3 DEF Revokes
  <2>2. GateSteps
    BY <2>1 DEF GateSteps, Stays
  <2>3. SameTurnFed
    BY <2>1 DEF SameTurnFed, gateVars, captureVars, jobVars
  <2>4. SoundSteps
    BY <1>3, <2>1 DEF SoundSteps, gateVars, Speaking
  <2> QED
    BY <2>2, <2>3, <2>4
<1> QED
  BY <1>2, <1>3

LEMMA LeaseActions ==
  ASSUME Voiced,
         \/ \E lease \in Leases : Connect(lease) \/ SocketEnds(lease)
         \/ \E line \in Cues : Submit(line)
  PROVE  Sorted
<1>1. GateTyped /\ FeedTyped /\ Heard /\ Leased
  BY DEF Voiced, Gate
<1>2. ASSUME NEW lease \in Leases, Connect(lease) PROVE Sorted
  <2>1. /\ Revokes /\ connection' = lease /\ alive' = TRUE /\ sockets' = sockets \cup {lease}
        /\ UNCHANGED <<used, captureVars, jobVars, loud, agents, down>>
    BY <1>2 DEF Connect
  <2>2. FeedTyped' /\ Leased'
    BY <1>1, <2>1, EpochFacts DEF FeedTyped, Leased, captureVars, jobVars
  <2> QED
    BY <2>1, <2>2, RevokesFacts DEF Sorted
<1>3. ASSUME NEW lease \in Leases, SocketEnds(lease) PROVE Sorted
  <2>1. /\ sockets' = sockets \ {lease}
        /\ UNCHANGED <<used, captureVars, jobVars, loud, agents, down>>
        /\ \/ Revokes /\ connection' = None /\ alive' = FALSE
           \/ UNCHANGED <<gateVars, connection, alive>>
    BY <1>3 DEF SocketEnds
  <2>5. sockets' \subseteq Leases /\ connection' \in Leases \cup {None} /\ alive' \in BOOLEAN
    BY <1>1, <2>1 DEF FeedTyped
  <2>6. FeedTyped'
    BY <1>1, <2>1, <2>5 DEF FeedTyped, captureVars, jobVars
  <2>7. Leased'
    <3>1. CASE alive' = FALSE
      BY <3>1 DEF Leased
    <3>2. CASE UNCHANGED <<gateVars, connection, alive>>
      BY <1>1, <3>2 DEF Leased
    <3> QED
      BY <2>1, <3>1, <3>2
  <2>2. FeedTyped' /\ Leased'
    BY <2>6, <2>7
  <2>3. CASE Revokes
    BY <2>1, <2>2, <2>3, RevokesFacts DEF Sorted
  <2>4. CASE UNCHANGED <<gateVars, connection, alive>>
    <3>1. GateSteps
      BY <2>4 DEF GateSteps, Stays
    <3>2. SameTurnFed
      BY <2>1, <2>4 DEF SameTurnFed, gateVars, captureVars, jobVars
    <3>3. SoundSteps
      BY <2>4, <3>2 DEF SoundSteps, gateVars, Speaking
    <3> QED
      BY <2>2, <3>1, <3>2, <3>3 DEF Sorted
  <2> QED
    BY <2>1, <2>3, <2>4
<1>4. ASSUME NEW line \in Cues, Submit(line) PROVE Sorted
  <2>1. /\ used' = Remember(used, line, EventLimit) /\ alive
        /\ UNCHANGED <<captureVars, jobVars, loud, agents, connection, alive, sockets, down>>
        /\ \/ ~muted /\ NotBusy /\ ~Speaking /\ Offer(line, epoch, connection)
           \/ UNCHANGED gateVars
    BY <1>4 DEF Submit
  <2>5. used' \in Seq(Cues)
    <3>1. used \in Seq(Cues) /\ EventLimit \in Nat \ {0}
      BY <1>1, VoiceAssumption DEF FeedTyped
    <3>2. CASE Len(used) < EventLimit
      BY <2>1, <3>1, <3>2 DEF Remember
    <3>3. CASE ~(Len(used) < EventLimit)
      <4>1. used # <<>>
        BY <3>1, <3>3
      <4>2. Tail(used) \in Seq(Cues)
        BY <3>1, <4>1
      <4>3. used' = Append(Tail(used), line)
        BY <2>1, <3>3 DEF Remember
      <4> QED
        BY <4>2, <4>3
    <3> QED
      BY <3>2, <3>3
  <2>6. FeedTyped'
    BY <1>1, <2>1, <2>5 DEF FeedTyped, captureVars, jobVars
  <2>7. connection # None
    BY <1>1, <2>1 DEF Leased
  <2>2. FeedTyped' /\ Leased'
    BY <2>1, <2>6, <2>7 DEF Leased
  <2>3. CASE UNCHANGED gateVars
    <3>1. GateSteps
      BY <2>3 DEF GateSteps, Stays
    <3>2. SameTurnFed
      BY <2>1, <2>3 DEF SameTurnFed, gateVars, captureVars, jobVars
    <3>3. SoundSteps
      BY <2>1, <2>3, <3>2 DEF SoundSteps, gateVars, Speaking
    <3> QED
      BY <2>2, <3>1, <3>2, <3>3 DEF Sorted
  <2>4. CASE ~muted /\ NotBusy /\ Refuse(line)
    <3>1. GateSteps
      BY <2>4, IdFacts DEF GateSteps
    <3>2. epoch' = epoch /\ pending' = pending
      BY <2>4 DEF Refuse
    <3>3. SameTurnFed
      BY <2>1, <3>2 DEF SameTurnFed, captureVars, jobVars
    <3>4. SoundSteps
      BY <2>1, <3>2, <3>3 DEF SoundSteps, Speaking
    <3> QED
      BY <2>2, <3>1, <3>3, <3>4 DEF Sorted
  <2>8. CASE ~muted /\ NotBusy /\ Admits(line, epoch, connection # None) /\ Enqueue(line, connection)
    <3>1. line \in Ids /\ connection \in Leases
      BY <1>1, <2>1, IdFacts DEF Leased, FeedTyped
    <3>2. Admitted(line, connection)
      BY <1>1, <2>8, <3>1, UnheardFacts DEF Admitted, Admits
    <3>3. /\ epoch' = epoch /\ pending' = [id |-> line, epoch |-> epoch, lease |-> connection]
      BY <2>8 DEF Enqueue
    <3>4. pending' # None /\ pending'.lease = connection
      BY <1>1, <3>1, <3>3, SoundRecord DEF GateTyped
    <3>5. Silent
      BY <1>1, <2>8, EpochFacts DEF Silent, NotBusy, Heard, GateTyped
    <3>6. SameTurnFed
      BY <2>1, <3>3 DEF SameTurnFed, captureVars, jobVars
    <3>7. GateSteps
      BY <3>1, <3>2 DEF GateSteps
    <3>8. UNCHANGED <<epoch, turn, job, recognizing>> /\ connection' = connection
      BY <2>1, <3>3 DEF captureVars, jobVars
    <3>9. SoundSteps
      BY <3>4, <3>5, <3>8 DEF SoundSteps
    <3> QED
      BY <2>2, <3>6, <3>7, <3>9 DEF Sorted
  <2> QED
    BY <2>1, <2>3, <2>4, <2>8 DEF Offer
<1> QED
  BY <1>2, <1>3, <1>4

-----------------------------------------------------------------------------
(* The whole service.                                                      *)

LEMMA InitVoiced == Init => Voiced
<1> SUFFICES ASSUME Init
    PROVE  Voiced
  OBVIOUS
<1>1. GateTyped /\ FeedTyped
  <2>1. SeenLimit \in 0 .. SeenLimit /\ 0 \in 0 .. 2 /\ "none" \in Receipts
    BY VoiceAssumption DEF Receipts
  <2>2. <<>> \in Seq(Ids) /\ <<>> \in Seq(Cues)
    OBVIOUS
  <2>3. GateTyped
    BY <2>1, <2>2, EpochFacts DEF Init, GateTyped
  <2>4. FeedTyped
    BY <2>2, EpochFacts DEF Init, FeedTyped, Phases
  <2> QED
    BY <2>3, <2>4
<1>2. /\ ~Speaking /\ turn = None /\ job = None /\ recognizing = None /\ alive = FALSE /\ epoch = 0
      /\ epoch # None /\ \A i \in Ids : told[i] = "none"
      /\ \A e \in Epochs : answers[e] = 0
      /\ seen = <<>> /\ \A i \in Ids : since[i] = SeenLimit
  BY EpochFacts DEF Init, Speaking
<1>3. Gate
  BY <1>1, <1>2, VoiceAssumption DEF Gate, GateTyped, PendingCurrent, OneAnswer, ReceiptsComplete,
     Counted, Memory, Fresh, Kept
<1>4. Heard /\ Leased /\ VisualYields
  BY <1>2 DEF Heard, Leased, VisualYields, Transcribing
<1> QED
  BY <1>1, <1>3, <1>4 DEF Voiced

LEMMA NextVoiced ==
  ASSUME Voiced, [Next]_vars
  PROVE  Voiced' /\ Spaced
<1>1. Sorted
  BY TurnActions, QuietActions, RenderActions, AnswerActions, LeaseActions DEF Next, Recognizer, Client
<1>2. Gate /\ GateTyped /\ FeedTyped /\ Heard /\ Leased /\ VisualYields
  BY DEF Voiced, Gate
<1>3. Gate' /\ Spaced
  BY <1>1, <1>2, GateKeeps DEF Sorted
<1>4. Heard'
  BY <1>1, <1>2, NewTurnKeeps, SameTurnKeeps DEF Sorted
<1>5. VisualYields'
  BY <1>1, <1>2, SoundKeeps DEF Sorted
<1> QED
  BY <1>1, <1>3, <1>4, <1>5 DEF Sorted, Voiced

\* The gate's books, the words on their way and the lease agree after every
\* step: what the theorems below are read off.
THEOREM VoicedAlways == Spec => []Voiced
<1>1. Init => Voiced
  BY InitVoiced
<1>2. Voiced /\ [Next]_vars => Voiced'
  BY NextVoiced
<1> QED
  BY <1>1, <1>2, PTL DEF Spec

\* Every variable keeps its type.
THEOREM TypeCorrect == Spec => []TypeOK
<1>1. Voiced => TypeOK
  BY TypeParts DEF Voiced, Gate
<1> QED
  BY <1>1, VoicedAlways, PTL

\* What may be played belongs to the turn in progress and is not muted; a
\* proactive sound has its lease, in a turn no user has begun to speak in.
THEOREM SoundYieldsAlways == Spec => []SoundYields
<1>1. Voiced => SoundYields
  BY DEF Voiced, Gate, SoundYields
<1> QED
  BY <1>1, VoicedAlways, PTL

\* A turn gets one answer, whatever names come again; a response that was
\* admitted is told its end, and not before it is over unless its name came again
\* meanwhile and was refused.
THEOREM AnswersAccountedAlways == Spec => []AnswersAccounted
<1>1. Voiced => AnswersAccounted
  BY DEF Voiced, Gate, AnswersAccounted
<1> QED
  BY <1>1, VoicedAlways, PTL

\* What was admitted is admitted again only after as many other sounds as the
\* gate remembers.
THEOREM NeverReplayedAlways == Spec => NeverReplayed
<1>1. Voiced /\ [Next]_vars =>
        [\A i \in Ids : told'[i] = "queued" /\ told[i] # "queued" => since[i] >= SeenLimit]_vars
  BY NextVoiced DEF Spaced
<1> QED
  BY <1>1, VoicedAlways, PTL DEF Spec, NeverReplayed

-----------------------------------------------------------------------------
(* VoiceChain: the wake gate                                               *)

\* The frames that wait are those heard last, one per frame heard: the newest
\* has age 0.
Consecutive(frames) == \A i \in 1 .. Len(frames) : frames[i].age = Len(frames) - i

\* The pre-roll or the frames still to be replayed wait, and all of them were
\* heard after the newest frame that went up.
Queued ==
  /\ Consecutive(preroll) /\ Consecutive(replay)
  /\ replay = <<>> \/ preroll = <<>>
  /\ open => preroll = <<>>
  /\ broken => preroll = <<>> /\ replay = <<>>
  /\ Len(replay) + Len(preroll) <= newest
  /\ up \in {"speech", "noise"} => newest < MaxAge

LEMMA AgeFacts ==
  /\ MaxAge \in Nat /\ MaxAge = PreRoll + 2 /\ PreRoll \in Nat
  /\ \A a \in Ages : a \in Nat /\ a <= MaxAge /\ Older(a) \in Ages /\ Older(a) >= a
  /\ \A a \in Ages : a < MaxAge => Older(a) = a + 1
  /\ \A a \in Ages : ~(a < MaxAge) => Older(a) = MaxAge
BY PreRollAssumption DEF Ages, Older, MaxAge

LEMMA YoungFacts ==
  ASSUME NEW n \in Nat, n <= PreRoll
  PROVE  /\ n \in Ages /\ n < MaxAge /\ Older(n) = n + 1 /\ Older(n) \in Ages
         /\ \A a \in Ages : n <= a => n < Older(a)
<1>1. n \in Ages /\ n < MaxAge BY PreRollAssumption DEF Ages, MaxAge
<1>2. ASSUME NEW a \in Ages, n <= a PROVE n < Older(a)
  BY <1>1, <1>2, AgeFacts
<1> QED BY <1>1, <1>2, AgeFacts

\* A frame heard: what waits is one frame older.
LEMMA AgedFrames ==
  ASSUME NEW frames \in Seq(Frames), Len(frames) <= PreRoll, Consecutive(frames)
  PROVE  /\ Aged(frames) \in Seq(Frames) /\ Len(Aged(frames)) = Len(frames)
         /\ \A i \in 1 .. Len(frames) : Aged(frames)[i].age = Len(frames) - i + 1
         /\ frames = <<>> => Aged(frames) = <<>>
<1>1. Len(frames) \in Nat /\ DOMAIN frames = 1 .. Len(frames) OBVIOUS
<1>2. ASSUME NEW i \in 1 .. Len(frames)
      PROVE  /\ [frames[i] EXCEPT !.age = Older(@)] \in Frames
             /\ [frames[i] EXCEPT !.age = Older(@)].age = Len(frames) - i + 1
  <2>1. frames[i] \in Frames /\ frames[i].age = Len(frames) - i BY <1>1 DEF Consecutive
  <2>2. Len(frames) - i \in Nat /\ Len(frames) - i <= PreRoll
    <3> DEFINE l == Len(frames)
    <3>1. l \in Nat /\ l <= PreRoll /\ i \in 1 .. l BY <1>1
    <3> HIDE DEF l
    <3>2. l - i \in Nat /\ l - i <= PreRoll BY <3>1, PreRollAssumption
    <3> QED BY <3>2 DEF l
  <2>3. Older(frames[i].age) = Len(frames) - i + 1 /\ Older(frames[i].age) \in Ages
    BY <2>1, <2>2, YoungFacts
  <2> DEFINE n == Older(frames[i].age)
  <2> HIDE DEF n
  <2>4. [frames[i] EXCEPT !.age = n] \in Frames /\ [frames[i] EXCEPT !.age = n].age = n
    BY <2>1, <2>3 DEF Frames, n
  <2> QED BY <2>3, <2>4 DEF n
<1> DEFINE g == [i \in 1 .. Len(frames) |-> [frames[i] EXCEPT !.age = Older(@)]]
<1>3. Aged(frames) = g BY <1>1 DEF Aged
<1>4. g \in [1 .. Len(frames) -> Frames] BY <1>2
<1>5. \A i \in 1 .. Len(frames) : g[i].age = Len(frames) - i + 1 BY <1>2
<1> HIDE DEF g
<1>6. g \in Seq(Frames) /\ Len(g) = Len(frames) BY <1>1, <1>4
<1> QED BY <1>3, <1>5, <1>6

\* The frame that is heard goes to the end of those that wait, and the oldest
\* goes up.
LEMMA InTurnSends ==
  ASSUME NEW frames \in Seq(Frames), Len(frames) <= PreRoll, Consecutive(frames),
         NEW voiced \in BOOLEAN,
         InTurn(Aged(frames), [age |-> 0, speech |-> voiced])
  PROVE  /\ replay' \in Seq(Frames) /\ Len(replay') = Len(frames) /\ Consecutive(replay')
         /\ newest' = Len(frames) /\ up' \in {"speech", "noise"}
<1> DEFINE f == [age |-> 0, speech |-> voiced]
           a == Aged(frames)
           q == Append(a, f)
<1>1. f \in Frames /\ f.age = 0 BY AgeFacts DEF Frames, Ages
<1>2. a \in Seq(Frames) /\ Len(a) = Len(frames) BY AgedFrames
<1>3. \A i \in 1 .. Len(frames) : a[i].age = Len(frames) - i + 1 BY AgedFrames
<1> HIDE DEF f, a
<1>4. /\ q \in Seq(Frames) /\ Len(q) = Len(frames) + 1 /\ Len(frames) \in Nat
      /\ \A i \in 1 .. Len(frames) : q[i] = a[i]
      /\ q[Len(frames) + 1] = f
  BY <1>1, <1>2
<1>5. \A i \in 1 .. Len(frames) + 1 : q[i].age = Len(frames) + 1 - i
  <2> SUFFICES ASSUME NEW i \in 1 .. Len(frames) + 1 PROVE q[i].age = Len(frames) + 1 - i
    OBVIOUS
  <2>1. CASE i = Len(frames) + 1 BY <1>1, <1>4, <2>1
  <2>2. CASE i \in 1 .. Len(frames) BY <1>3, <1>4, <2>2
  <2> QED BY <1>4, <2>1, <2>2
<1> HIDE DEF q
<1>6. Sends(Head(q)) /\ replay' = Tail(q) BY DEF InTurn, q, a, f
<1>7. /\ Tail(q) \in Seq(Frames) /\ Len(Tail(q)) = Len(frames)
      /\ \A i \in 1 .. Len(frames) : Tail(q)[i] = q[i + 1]
      /\ Head(q) = q[1]
  BY <1>4
<1> DEFINE l == Len(frames)
<1>8. /\ l \in Nat /\ replay' = Tail(q) /\ Len(replay') = l
      /\ \A i \in 1 .. l + 1 : q[i].age = l + 1 - i
      /\ \A i \in 1 .. l : replay'[i] = q[i + 1]
  BY <1>4, <1>5, <1>6, <1>7
<1>9. newest' = l
  <2>1. 1 \in 1 .. l + 1 /\ l + 1 - 1 = l BY <1>4
  <2>2. q[1].age = l BY <1>8, <2>1
  <2> QED BY <1>6, <1>7, <2>2 DEF Sends
<1> HIDE DEF l
<1>10. Consecutive(replay')
  <2>1. ASSUME NEW i \in 1 .. l PROVE replay'[i].age = l - i
    <3>1. i + 1 \in 1 .. l + 1 /\ l + 1 - (i + 1) = l - i BY <1>8
    <3> QED BY <1>8, <3>1
  <2> QED BY <1>8, <2>1 DEF Consecutive
<1>11. up' \in {"speech", "noise"} BY <1>6 DEF Sends
<1> QED BY <1>6, <1>7, <1>8, <1>9, <1>10, <1>11 DEF l

\* The pre-roll keeps the frames heard last.
LEMMA RememberedFrames ==
  ASSUME NEW frames \in Seq(Frames), frames = preroll, Len(frames) <= PreRoll,
         Consecutive(frames), NEW voiced \in BOOLEAN,
         NEW r, r = Remembered([age |-> 0, speech |-> voiced])
  PROVE  /\ r \in Seq(Frames) /\ Len(r) <= PreRoll /\ Len(r) <= Len(frames) + 1
         /\ Consecutive(r)
<1> DEFINE f == [age |-> 0, speech |-> voiced]
           a == Aged(frames)
           q == Append(a, f)
<1>1. f \in Frames /\ f.age = 0 BY AgeFacts DEF Frames, Ages
<1>2. a \in Seq(Frames) /\ Len(a) = Len(frames) BY AgedFrames
<1>3. \A i \in 1 .. Len(frames) : a[i].age = Len(frames) - i + 1 BY AgedFrames
<1> HIDE DEF f, a
<1>4. /\ q \in Seq(Frames) /\ Len(q) = Len(frames) + 1 /\ Len(frames) \in Nat
      /\ \A i \in 1 .. Len(frames) : q[i] = a[i]
      /\ q[Len(frames) + 1] = f
  BY <1>1, <1>2
<1>5. \A i \in 1 .. Len(frames) + 1 : q[i].age = Len(frames) + 1 - i
  <2> SUFFICES ASSUME NEW i \in 1 .. Len(frames) + 1 PROVE q[i].age = Len(frames) + 1 - i
    OBVIOUS
  <2>1. CASE i = Len(frames) + 1 BY <1>1, <1>4, <2>1
  <2>2. CASE i \in 1 .. Len(frames) BY <1>3, <1>4, <2>2
  <2> QED BY <1>4, <2>1, <2>2
<1> HIDE DEF q
<1> DEFINE l == Len(frames)
<1>6. /\ l \in Nat /\ l <= PreRoll /\ q \in Seq(Frames) /\ Len(q) = l + 1
      /\ \A i \in 1 .. l + 1 : q[i].age = l + 1 - i
  BY <1>4, <1>5
<1>7. r = IF Len(q) > PreRoll THEN Tail(q) ELSE q BY DEF Remembered, q, a, f
<1> HIDE DEF l
<1>8. CASE Len(q) > PreRoll
  <2>1. /\ Tail(q) \in Seq(Frames) /\ Len(Tail(q)) = l
        /\ \A i \in 1 .. l : Tail(q)[i] = q[i + 1]
    BY <1>6
  <2>2. r = Tail(q) BY <1>7, <1>8
  <2>3. ASSUME NEW i \in 1 .. l PROVE r[i].age = l - i
    <3>1. i + 1 \in 1 .. l + 1 /\ l + 1 - (i + 1) = l - i BY <1>6
    <3> QED BY <1>6, <2>1, <2>2, <3>1
  <2>4. Consecutive(r) BY <2>1, <2>2, <2>3 DEF Consecutive
  <2>5. Len(r) <= PreRoll /\ Len(r) <= l + 1 BY <1>6, <2>1, <2>2
  <2> QED BY <2>1, <2>2, <2>4, <2>5 DEF l
<1>9. CASE ~(Len(q) > PreRoll)
  <2>1. r = q BY <1>7, <1>9
  <2>2. Consecutive(r) BY <1>6, <2>1 DEF Consecutive
  <2>3. Len(r) <= PreRoll /\ Len(r) <= l + 1 BY <1>6, <1>9, <2>1, PreRollAssumption
  <2> QED BY <1>6, <2>1, <2>2, <2>3 DEF l
<1> QED BY <1>8, <1>9

LEMMA NothingWaits == <<>> \in Seq(Frames) /\ Len(<<>>) = 0 /\ Consecutive(<<>>)
BY DEF Consecutive

\* One frame: the gate keeps its type and its order, and what goes up is newer
\* than what went up before.
LEMMA FeedKept ==
  ASSUME GateTypeOK, Queued, NEW voiced \in BOOLEAN, NEW heard \in BOOLEAN, Feed(voiced, heard)
  PROVE  /\ GateTypeOK' /\ Queued'
         /\ up' \in {"speech", "noise"} => newest' < Older(newest)
<1> DEFINE f == [age |-> 0, speech |-> voiced]
<1>1. /\ preroll \in Seq(Frames) /\ Len(preroll) <= PreRoll /\ Len(preroll) \in Nat
      /\ replay \in Seq(Frames) /\ Len(replay) <= PreRoll /\ Len(replay) \in Nat
      /\ newest \in Ages /\ newest \in Nat /\ newest <= MaxAge
      /\ open \in BOOLEAN /\ cue \in BOOLEAN /\ broken \in BOOLEAN
  BY AgeFacts DEF GateTypeOK
<1>2. broken' = broken BY DEF Feed
<1>3. CASE broken /\ Sends(f) /\ UNCHANGED <<open, cue, preroll, replay>>
  <2>1. /\ open' = open /\ cue' = cue /\ preroll' = preroll /\ replay' = replay
        /\ preroll = <<>> /\ replay = <<>>
    BY <1>3 DEF Queued
  <2>2. newest' = 0 /\ up' \in {"speech", "noise"} /\ 0 \in Ages
    BY <1>3, AgeFacts DEF Sends, Ages
  <2>3. newest' < Older(newest) /\ newest' < MaxAge
    BY <1>1, <2>2, AgeFacts
  <2>4. GateTypeOK' BY <1>1, <1>2, <2>1, <2>2 DEF GateTypeOK
  <2>5. Queued' BY <1>2, <2>1, <2>2, <2>3, NothingWaits DEF Queued
  <2> QED BY <2>3, <2>4, <2>5
<1>4. CASE /\ ~broken /\ open
           /\ InTurn(Aged(replay), f)
           /\ cue' = (cue \/ heard) /\ preroll' = Aged(preroll)
           /\ UNCHANGED open
  <2>1. preroll = <<>> /\ Consecutive(replay) /\ Consecutive(preroll) BY <1>4 DEF Queued
  <2>2. preroll' = <<>> BY <1>1, <1>4, <2>1, AgedFrames
  <2>3. /\ replay' \in Seq(Frames) /\ Len(replay') = Len(replay) /\ Consecutive(replay')
        /\ newest' = Len(replay) /\ up' \in {"speech", "noise"}
    BY <1>1, <1>4, <2>1, InTurnSends
  <2>4. newest' < Older(newest) /\ newest' < MaxAge /\ newest' \in Ages
    <3>1. Len(replay) <= newest BY <1>1, <2>1, NothingWaits DEF Queued
    <3> QED BY <1>1, <2>3, <3>1, YoungFacts
  <2>5. cue' \in BOOLEAN /\ open' \in BOOLEAN BY <1>1, <1>4
  <2>6. GateTypeOK' BY <1>1, <1>2, <2>2, <2>3, <2>4, <2>5, NothingWaits, AgeFacts DEF GateTypeOK
  <2>7. Queued' BY <1>1, <1>2, <1>4, <2>2, <2>3, <2>4, NothingWaits DEF Queued
  <2> QED BY <2>4, <2>6, <2>7
<1>5. CASE /\ ~broken /\ ~open /\ (cue \/ heard)
           /\ open' = TRUE /\ cue' = FALSE
           /\ Opens(Aged(replay) \o Aged(preroll), f)
           /\ preroll' = <<>>
  <2>1. PICK w \in Seq(Frames) : /\ Len(w) <= PreRoll /\ Consecutive(w) /\ Len(w) <= newest
                                 /\ Aged(replay) \o Aged(preroll) = Aged(w)
    <3>1. Consecutive(replay) /\ Consecutive(preroll) BY DEF Queued
    <3>2. /\ Aged(replay) \in Seq(Frames) /\ Aged(preroll) \in Seq(Frames)
          /\ replay = <<>> => Aged(replay) = <<>>
          /\ preroll = <<>> => Aged(preroll) = <<>>
      BY <1>1, <3>1, AgedFrames
    <3>3. CASE replay = <<>>
      <4>1. Aged(replay) \o Aged(preroll) = Aged(preroll) BY <3>2, <3>3
      <4>2. Len(preroll) <= newest BY <1>1, <3>3, NothingWaits DEF Queued
      <4> QED BY <1>1, <3>1, <4>1, <4>2
    <3>4. CASE preroll = <<>>
      <4>1. Aged(replay) \o Aged(preroll) = Aged(replay) BY <3>2, <3>4
      <4>2. Len(replay) <= newest BY <1>1, <3>4, NothingWaits DEF Queued
      <4> QED BY <1>1, <3>1, <4>1, <4>2
    <3> QED BY <3>3, <3>4 DEF Queued
  <2>2. InTurn(Aged(w), f) BY <1>5, <2>1 DEF Opens
  <2>3. /\ replay' \in Seq(Frames) /\ Len(replay') = Len(w) /\ Consecutive(replay')
        /\ newest' = Len(w) /\ up' \in {"speech", "noise"}
    BY <2>1, <2>2, InTurnSends
  <2>4. newest' < Older(newest) /\ newest' < MaxAge /\ newest' \in Ages /\ Len(w) \in Nat
    <3>1. Len(w) \in Nat BY <2>1
    <3> QED BY <1>1, <2>1, <2>3, <3>1, YoungFacts
  <2>5. GateTypeOK'
    <3>1. {broken', open', cue'} \subseteq BOOLEAN BY <1>1, <1>2, <1>5
    <3>2. preroll' \in Seq(Frames) /\ Len(preroll') <= PreRoll
      BY <1>1, <1>5, NothingWaits, PreRollAssumption
    <3>3. replay' \in Seq(Frames) /\ Len(replay') <= PreRoll BY <2>1, <2>3
    <3> QED BY <2>3, <2>4, <3>1, <3>2, <3>3 DEF GateTypeOK
  <2>6. Queued' BY <1>2, <1>5, <2>3, <2>4, NothingWaits DEF Queued
  <2> QED BY <2>4, <2>5, <2>6
<1>6. CASE /\ ~broken /\ ~open /\ ~(cue \/ heard)
           /\ SendsSilence
           /\ replay' = <<>> /\ preroll' = Remembered(f)
           /\ UNCHANGED <<open, cue>>
  <2>1. open' = open /\ cue' = cue /\ up' = "zeros" /\ newest' = Older(newest)
    BY <1>6 DEF SendsSilence
  <2>2. /\ preroll' \in Seq(Frames) /\ Len(preroll') <= PreRoll /\ Len(preroll') <= Len(preroll) + 1
        /\ Consecutive(preroll') /\ Len(preroll') \in Nat
    BY <1>1, <1>6, RememberedFrames DEF Queued
  <2>3. newest' \in Ages BY <1>1, <2>1, AgeFacts
  <2>4. Len(preroll') <= newest'
    <3>1. Len(preroll) <= newest BY <1>1 DEF Queued
    <3>2. newest < MaxAge => newest' = newest + 1 BY <1>1, <2>1, AgeFacts
    <3>3. ~(newest < MaxAge) => newest' = MaxAge BY <1>1, <2>1, AgeFacts
    <3> QED BY <1>1, <2>2, <3>1, <3>2, <3>3, AgeFacts
  <2>5. GateTypeOK' BY <1>1, <1>2, <1>6, <2>1, <2>2, <2>3, NothingWaits, AgeFacts DEF GateTypeOK
  <2>6. Queued'
    <3>1. Len(replay') + Len(preroll') <= newest' BY <1>6, <2>2, <2>4, NothingWaits
    <3> QED BY <1>2, <1>6, <2>1, <2>2, <3>1, NothingWaits DEF Queued
  <2> QED BY <2>1, <2>5, <2>6
<1> QED BY <1>3, <1>4, <1>5, <1>6 DEF Feed

\* The gate shuts, or the session takes a step.
LEMMA ShutsKept ==
  ASSUME GateTypeOK, Queued, Shuts \/ UNCHANGED wakeVars
  PROVE  /\ GateTypeOK' /\ Queued'
         /\ up' \in {"speech", "noise"} => newest' < Older(newest)
<1>1. /\ broken' = broken /\ cue' = cue /\ preroll' = preroll /\ replay' = replay
      /\ up' = up /\ newest' = newest
      /\ open' = open \/ open' = FALSE
  BY DEF Shuts, wakeVars
<1>2. open' \in BOOLEAN BY <1>1 DEF GateTypeOK
<1>3. GateTypeOK' BY <1>1, <1>2 DEF GateTypeOK
<1>4. Queued' BY <1>1 DEF Queued
<1>5. up \in {"speech", "noise"} => newest < Older(newest)
  BY AgeFacts DEF Queued, GateTypeOK
<1> QED BY <1>1, <1>3, <1>4, <1>5

-----------------------------------------------------------------------------
(* VoiceChain: the session                                                 *)

LEMMA TaskSet ==
  ASSUME task \in [Slots -> Tasks], NEW t \in Slots, NEW v \in Tasks
  PROVE  /\ [task EXCEPT ![t] = v] \in [Slots -> Tasks]
         /\ \A s \in Slots : [task EXCEPT ![t] = v][s] = IF s = t THEN v ELSE task[s]
OBVIOUS

LEMMA FreeTyped == Free \in Tasks /\ Free.kind = "none" /\ Free.cancelled = FALSE
BY DEF Free, Tasks

\* A task goes on or is cancelled, and keeps its kind.
LEMMA TaskGoesOn ==
  ASSUME task \in [Slots -> Tasks], NEW t \in Slots, NEW v \in Tasks, v.kind = task[t].kind,
         task' = [task EXCEPT ![t] = v]
  PROVE  task' \in [Slots -> Tasks] /\ \A s \in Slots : task'[s].kind = task[s].kind
BY TaskSet

LEMMA CancelGoesOn ==
  ASSUME task \in [Slots -> Tasks], NEW t \in Slots,
         task' = [task EXCEPT ![t].cancelled = TRUE]
  PROVE  task' \in [Slots -> Tasks] /\ \A s \in Slots : task'[s].kind = task[s].kind
<1> DEFINE v == [task[t] EXCEPT !.cancelled = TRUE]
<1>1. v \in Tasks /\ v.kind = task[t].kind BY DEF Tasks
<1>2. task' = [task EXCEPT ![t] = v] OBVIOUS
<1> HIDE DEF v
<1> QED BY <1>1, <1>2, TaskGoesOn

LEMMA StageGoesOn ==
  ASSUME task \in [Slots -> Tasks], NEW t \in Slots,
         NEW stage \in {"none", "stt", "chat", "picture", "speech"},
         task' = [task EXCEPT ![t].stage = stage]
  PROVE  task' \in [Slots -> Tasks] /\ \A s \in Slots : task'[s].kind = task[s].kind
<1> DEFINE v == [task[t] EXCEPT !.stage = stage]
<1>1. v \in Tasks /\ v.kind = task[t].kind BY DEF Tasks
<1>2. task' = [task EXCEPT ![t] = v] OBVIOUS
<1> HIDE DEF v
<1> QED BY <1>1, <1>2, TaskGoesOn

LEMMA StartsTask ==
  ASSUME task \in [Slots -> Tasks], NEW t \in Slots, NEW kind \in {"turn", "asked", "idle"},
         NEW stage \in {"stt", "chat"}, Starts(t, kind, stage)
  PROVE  /\ task' \in [Slots -> Tasks] /\ task'[t].kind = kind
         /\ \A s \in Slots : task[s].kind = "turn" => task'[s].kind = "turn"
<1> DEFINE v == [kind |-> kind, stage |-> stage, cancelled |-> FALSE]
<1>1. v \in Tasks /\ v.kind = kind BY DEF Tasks
<1>2. task' = [task EXCEPT ![t] = v] /\ task[t] = Free BY DEF Starts
<1> HIDE DEF v
<1> QED BY <1>1, <1>2, TaskSet, FreeTyped

\* The parts of the type that a step of a task leaves alone.
LEMMA SessionFacts ==
  ASSUME SessionTypeOK
  PROVE  /\ run \in 0 .. BargeIn /\ quiet \in 0 .. SilenceEnd /\ spoken \in 0 .. MaxSpoken
         /\ speaking \in BOOLEAN /\ ending \in BOOLEAN /\ busy \in BOOLEAN
         /\ talking \in BOOLEAN /\ gone \in BOOLEAN
         /\ replyTask \in Slots \cup {NoTask} /\ task \in [Slots -> Tasks]
         /\ idle \in [at : {"sleeping", "looking", "replying", "ended"}, task : Slots \cup {NoTask}]
         /\ {SpeechStart, BargeIn, SilenceEnd, MinSpoken, MaxSpoken} \subseteq Nat \ {0}
         /\ NoTask \notin Slots
BY SessionAssumption DEF SessionTypeOK

\* A task ends: the end of a turn takes the mark with it.
LEMMA DoneKept ==
  ASSUME SessionTypeOK, BusyOwned, NEW t \in Slots, Done(t), talking' \in BOOLEAN
  PROVE  SessionTypeOK' /\ BusyOwned'
<1>1. /\ run' = run /\ speaking' = speaking /\ quiet' = quiet /\ spoken' = spoken
      /\ ending' = ending /\ gone' = gone
      /\ task' = [task EXCEPT ![t] = Free]
      /\ replyTask' \in {replyTask, NoTask}
      /\ busy' = (busy /\ task[t].kind # "turn")
      /\ idle' \in {idle, [idle EXCEPT !.task = NoTask]}
  BY DEF Done, TaskOver, TurnOver, micVars
<1>2. /\ task' \in [Slots -> Tasks]
      /\ \A s \in Slots : task'[s] = IF s = t THEN Free ELSE task[s]
  BY <1>1, SessionFacts, TaskSet, FreeTyped
<1>3. /\ idle' \in [at : {"sleeping", "looking", "replying", "ended"}, task : Slots \cup {NoTask}]
      /\ idle'.at = idle.at
  BY <1>1, SessionFacts
<1>4. busy' \in BOOLEAN BY <1>1
<1>5. SessionTypeOK' BY <1>1, <1>2, <1>3, <1>4, SessionFacts DEF SessionTypeOK
<1>6. BusyOwned'
  <2> SUFFICES ASSUME busy', ~(idle'.at \in {"looking", "replying"})
               PROVE  \E s \in Slots : task'[s].kind = "turn"
    BY DEF BusyOwned
  <2>1. busy /\ task[t].kind # "turn" BY <1>1
  <2>2. PICK s \in Slots : task[s].kind = "turn" BY <1>3, <2>1 DEF BusyOwned
  <2> QED BY <1>2, <2>1, <2>2
<1> QED BY <1>5, <1>6

\* A task goes on.
LEMMA BecomesKept ==
  ASSUME SessionTypeOK, BusyOwned, NEW t \in Slots, NEW stage \in {"chat", "picture", "speech"},
         Becomes(t, stage), talking' \in BOOLEAN
  PROVE  SessionTypeOK' /\ BusyOwned'
<1>1. /\ run' = run /\ speaking' = speaking /\ quiet' = quiet /\ spoken' = spoken
      /\ ending' = ending /\ gone' = gone /\ busy' = busy /\ replyTask' = replyTask
      /\ idle' = idle
  BY DEF Becomes, micVars
<1>2. task' \in [Slots -> Tasks] /\ \A s \in Slots : task'[s].kind = task[s].kind
  BY SessionFacts, StageGoesOn DEF Becomes
<1>3. SessionTypeOK' BY <1>1, <1>2, SessionFacts DEF SessionTypeOK
<1>4. BusyOwned' BY <1>1, <1>2 DEF BusyOwned
<1> QED BY <1>3, <1>4

LEMMA ReplyKept ==
  ASSUME SessionTypeOK, BusyOwned, NEW t \in Slots, Reply(t) \/ Raises(t)
  PROVE  SessionTypeOK' /\ BusyOwned'
<1>1. talking' \in BOOLEAN
  BY SessionFacts DEF Reply, Recognized, Answered, Pictured, Spoken, Unwinds, Raises
<1>2. \/ Done(t)
      \/ \E stage \in {"chat", "picture", "speech"} : Becomes(t, stage)
  BY DEF Reply, Recognized, Answered, Pictured, Spoken, Unwinds, Raises
<1> QED BY <1>1, <1>2, DoneKept, BecomesKept

\* One chunk of the microphone.
LEMMA AudioKept ==
  ASSUME SessionTypeOK, BusyOwned, NEW voiced \in BOOLEAN, Audio(voiced)
  PROVE  SessionTypeOK' /\ BusyOwned'
<1>1. replyTask' = replyTask /\ idle' = idle /\ gone' = gone BY DEF Audio
<1>2. CASE speaking /\ DuringSpeech(voiced)
  <2>1. /\ task' = task /\ busy' = busy /\ talking' = talking
        /\ speaking' \in BOOLEAN /\ ending' \in BOOLEAN
        /\ run' \in {0, run}
    BY <1>2 DEF DuringSpeech
  <2>2. run' \in 0 .. BargeIn BY <2>1, SessionFacts
  <2>3. quiet' \in 0 .. SilenceEnd
    <3>1. CASE quiet' = 0 BY <3>1, SessionFacts
    <3>2. CASE ~voiced /\ ~(quiet + 1 >= SilenceEnd) /\ quiet' = quiet + 1
      BY <3>2, SessionFacts
    <3> QED BY <1>2, <3>1, <3>2 DEF DuringSpeech
  <2>4. spoken' \in 0 .. MaxSpoken
    <3>1. CASE spoken' = 0 BY <3>1, SessionFacts
    <3>2. CASE spoken' = Smaller(spoken + 1, MaxSpoken)
      BY <3>2, SessionFacts DEF Smaller
    <3> QED BY <1>2, <3>1, <3>2 DEF DuringSpeech
  <2>5. SessionTypeOK' BY <1>1, <2>1, <2>2, <2>3, <2>4, SessionFacts DEF SessionTypeOK
  <2>6. BusyOwned' BY <1>1, <2>1 DEF BusyOwned
  <2> QED BY <2>5, <2>6
<1>3. CASE ~speaking /\ BeforeSpeech(voiced)
  <2>1. /\ ending' = ending /\ quiet' = 0 /\ spoken' \in {0, 1}
        /\ task' \in {task, Cancelled}
        /\ busy' => busy
        /\ busy' \in BOOLEAN /\ talking' \in BOOLEAN /\ speaking' \in BOOLEAN
        /\ run' = IF voiced THEN Smaller(run + 1, BargeIn) ELSE 0
    BY <1>3, SessionFacts DEF BeforeSpeech
  <2>2. run' \in 0 .. BargeIn BY <2>1, SessionFacts DEF Smaller
  <2>3. quiet' \in 0 .. SilenceEnd /\ spoken' \in 0 .. MaxSpoken BY <2>1, SessionFacts
  <2>4. task' \in [Slots -> Tasks] /\ \A s \in Slots : task'[s].kind = task[s].kind
    <3>1. CASE task' = task BY <3>1, SessionFacts
    <3>2. CASE task' = Cancelled /\ replyTask # NoTask
      <4>1. replyTask \in Slots BY <3>2, SessionFacts
      <4>2. task' = [task EXCEPT ![replyTask].cancelled = TRUE] BY <3>2 DEF Cancelled
      <4> QED BY <4>1, <4>2, SessionFacts, CancelGoesOn
    <3>3. CASE task' = Cancelled /\ replyTask = NoTask
      <4>1. task' = task BY <3>3 DEF Cancelled
      <4> QED BY <3>1, <4>1
    <3> QED BY <2>1, <3>1, <3>2, <3>3
  <2>5. SessionTypeOK' BY <1>1, <2>1, <2>2, <2>3, <2>4, SessionFacts DEF SessionTypeOK
  <2>6. BusyOwned'
    <3> SUFFICES ASSUME busy', ~(idle.at \in {"looking", "replying"})
                 PROVE  \E s \in Slots : task'[s].kind = "turn"
      BY <1>1 DEF BusyOwned
    <3>1. busy BY <2>1
    <3>2. PICK s \in Slots : task[s].kind = "turn" BY <3>1 DEF BusyOwned
    <3> QED BY <2>4, <3>2
  <2> QED BY <2>5, <2>6
<1> QED BY <1>2, <1>3 DEF Audio

\* A turn begins, or a reply is asked for.
LEMMA TurnsKept ==
  ASSUME SessionTypeOK, BusyOwned, NEW t \in Slots, TurnBegins(t) \/ ResponseCreate(t)
  PROVE  SessionTypeOK' /\ BusyOwned'
<1>1. CASE TurnBegins(t)
  <2>1. /\ run' = run /\ speaking' = speaking /\ quiet' = quiet /\ spoken' = spoken
        /\ ending' = FALSE /\ busy' = TRUE /\ talking' = talking /\ replyTask' = t
        /\ idle' = idle /\ gone' = gone
    BY <1>1 DEF TurnBegins
  <2>2. task' \in [Slots -> Tasks] /\ task'[t].kind = "turn"
    BY <1>1, SessionFacts, StartsTask DEF TurnBegins
  <2>3. SessionTypeOK' BY <2>1, <2>2, SessionFacts DEF SessionTypeOK
  <2>4. BusyOwned' BY <2>2 DEF BusyOwned
  <2> QED BY <2>3, <2>4
<1>2. CASE ResponseCreate(t)
  <2>1. /\ run' = run /\ speaking' = speaking /\ quiet' = quiet /\ spoken' = spoken
        /\ ending' = ending /\ busy' = busy /\ talking' = talking /\ replyTask' = replyTask
        /\ idle' = idle /\ gone' = gone
    BY <1>2 DEF ResponseCreate, micVars, flagVars
  <2>2. /\ task' \in [Slots -> Tasks]
        /\ \A s \in Slots : task[s].kind = "turn" => task'[s].kind = "turn"
    BY <1>2, SessionFacts, StartsTask DEF ResponseCreate
  <2>3. SessionTypeOK' BY <2>1, <2>2, SessionFacts DEF SessionTypeOK
  <2>4. BusyOwned' BY <2>1, <2>2 DEF BusyOwned
  <2> QED BY <2>3, <2>4
<1> QED BY <1>1, <1>2

\* The idle loop speaks, looks around, or is done.
LEMMA IdleKept ==
  ASSUME SessionTypeOK, BusyOwned, Idle
  PROVE  SessionTypeOK' /\ BusyOwned'
<1>1. /\ run' = run /\ speaking' = speaking /\ quiet' = quiet /\ spoken' = spoken
      /\ ending' = ending /\ talking' = talking /\ gone' = gone
  BY DEF Idle, LookAround, IdleReturns, IdlePrompt, Seen, Marks, Returns, micVars
<1>2. ASSUME NEW t \in Slots, IdlePrompt(t) \/ Seen(t)
      PROVE  SessionTypeOK' /\ BusyOwned'
  <2>1. /\ busy' \in {TRUE, busy} /\ replyTask' = t
        /\ idle' = [at |-> "replying", task |-> t] /\ Starts(t, "idle", "chat")
    BY <1>2 DEF IdlePrompt, Seen, Marks
  <2>2. task' \in [Slots -> Tasks] BY <2>1, SessionFacts, StartsTask
  <2>3. SessionTypeOK' BY <1>1, <2>1, <2>2, SessionFacts DEF SessionTypeOK
  <2>4. BusyOwned' BY <2>1 DEF BusyOwned
  <2> QED BY <2>3, <2>4
<1>3. CASE LookAround
  <2>1. /\ busy' = TRUE /\ idle' = [at |-> "looking", task |-> NoTask]
        /\ task' = task /\ replyTask' = replyTask
    BY <1>3 DEF LookAround, Marks
  <2>2. SessionTypeOK' BY <1>1, <2>1, SessionFacts DEF SessionTypeOK
  <2>3. BusyOwned' BY <2>1 DEF BusyOwned
  <2> QED BY <2>2, <2>3
<1>4. CASE IdleReturns
  <2>1. /\ busy' = FALSE /\ idle' = [at |-> "sleeping", task |-> NoTask]
        /\ task' = task /\ replyTask' = replyTask
    BY <1>4 DEF IdleReturns, Returns
  <2>2. SessionTypeOK' BY <1>1, <2>1, SessionFacts DEF SessionTypeOK
  <2>3. BusyOwned' BY <2>1 DEF BusyOwned
  <2> QED BY <2>2, <2>3
<1> QED BY <1>2, <1>3, <1>4 DEF Idle

\* The connection ends.
LEMMA GoneKept ==
  ASSUME SessionTypeOK, BusyOwned, ClientGone
  PROVE  SessionTypeOK' /\ BusyOwned'
<1>1. gone' = TRUE BY DEF ClientGone
<1>2. CASE /\ idle.at = "sleeping" /\ idle' = [idle EXCEPT !.at = "ended"]
           /\ UNCHANGED <<micVars, flagVars, task>>
  <2>1. /\ run' = run /\ speaking' = speaking /\ quiet' = quiet /\ spoken' = spoken
        /\ ending' = ending /\ busy' = busy /\ talking' = talking /\ replyTask' = replyTask
        /\ task' = task
    BY <1>2 DEF micVars, flagVars
  <2>2. idle' \in [at : {"sleeping", "looking", "replying", "ended"}, task : Slots \cup {NoTask}]
    BY <1>2, SessionFacts
  <2>3. SessionTypeOK' BY <1>1, <2>1, <2>2, SessionFacts DEF SessionTypeOK
  <2>4. BusyOwned' BY <1>2, <2>1 DEF BusyOwned
  <2> QED BY <2>3, <2>4
<1>3. CASE idle.at = "looking" /\ Returns
  <2>1. /\ run' = run /\ speaking' = speaking /\ quiet' = quiet /\ spoken' = spoken
        /\ ending' = ending /\ busy' = FALSE /\ talking' = talking /\ replyTask' = replyTask
        /\ task' = task /\ idle' = [at |-> "sleeping", task |-> NoTask]
    BY <1>3 DEF Returns, micVars
  <2>2. SessionTypeOK' BY <1>1, <2>1, SessionFacts DEF SessionTypeOK
  <2>3. BusyOwned' BY <2>1 DEF BusyOwned
  <2> QED BY <2>2, <2>3
<1>4. CASE /\ idle.at = "replying"
           /\ task' = IF idle.task = NoTask THEN task
                      ELSE [task EXCEPT ![idle.task].cancelled = TRUE]
           /\ UNCHANGED <<micVars, flagVars, idle>>
  <2>1. /\ run' = run /\ speaking' = speaking /\ quiet' = quiet /\ spoken' = spoken
        /\ ending' = ending /\ busy' = busy /\ talking' = talking /\ replyTask' = replyTask
        /\ idle' = idle
    BY <1>4 DEF micVars, flagVars
  <2>2. task' \in [Slots -> Tasks]
    <3>1. CASE task' = task BY <3>1, SessionFacts
    <3>2. CASE idle.task # NoTask /\ task' = [task EXCEPT ![idle.task].cancelled = TRUE]
      BY <3>2, SessionFacts, CancelGoesOn
    <3> QED BY <1>4, <3>1, <3>2
  <2>3. SessionTypeOK' BY <1>1, <2>1, <2>2, SessionFacts DEF SessionTypeOK
  <2>4. BusyOwned' BY <1>4, <2>1 DEF BusyOwned
  <2> QED BY <2>3, <2>4
<1> QED BY <1>2, <1>3, <1>4 DEF ClientGone

LEMMA SessionSame ==
  ASSUME SessionTypeOK, BusyOwned, UNCHANGED sessionVars
  PROVE  SessionTypeOK' /\ BusyOwned'
<1>1. /\ run' = run /\ speaking' = speaking /\ quiet' = quiet /\ spoken' = spoken
      /\ ending' = ending /\ busy' = busy /\ talking' = talking /\ replyTask' = replyTask
      /\ task' = task /\ idle' = idle /\ gone' = gone
  BY DEF sessionVars, micVars, flagVars
<1> QED BY <1>1 DEF SessionTypeOK, BusyOwned

LEMMA OthersKept ==
  ASSUME SessionTypeOK, BusyOwned, SessionOthers
  PROVE  SessionTypeOK' /\ BusyOwned'
BY TurnsKept, ReplyKept, IdleKept, GoneKept DEF SessionOthers

-----------------------------------------------------------------------------
(* VoiceChain: the gate and the session together                           *)

Chained == ChainTypeOK /\ Queued /\ BusyOwned

LEMMA ChainStarts == ChainInit => Chained
<1> SUFFICES ASSUME ChainInit PROVE Chained
  OBVIOUS
<1>1. /\ broken \in BOOLEAN /\ open = FALSE /\ cue = FALSE /\ preroll = <<>> /\ replay = <<>>
      /\ up = "zeros" /\ newest = MaxAge
  BY DEF ChainInit, GateInit
<1>2. MaxAge \in Ages BY AgeFacts DEF Ages
<1>3. GateTypeOK
  <2>1. {broken, open, cue} \subseteq BOOLEAN BY <1>1
  <2>2. /\ preroll \in Seq(Frames) /\ Len(preroll) <= PreRoll
        /\ replay \in Seq(Frames) /\ Len(replay) <= PreRoll
    BY <1>1, NothingWaits, PreRollAssumption
  <2> QED BY <1>1, <1>2, <2>1, <2>2 DEF GateTypeOK
<1>4. Queued BY <1>1, NothingWaits, AgeFacts DEF Queued
<1>5. /\ run = 0 /\ speaking = FALSE /\ quiet = 0 /\ spoken = 0 /\ ending = FALSE
      /\ busy = FALSE /\ talking = FALSE /\ replyTask = NoTask
      /\ task = [t \in Slots |-> Free]
      /\ idle = [at |-> "sleeping", task |-> NoTask] /\ gone = FALSE
  BY DEF ChainInit, SessionInit
<1>6. /\ run \in 0 .. BargeIn /\ quiet \in 0 .. SilenceEnd /\ spoken \in 0 .. MaxSpoken
  BY <1>5, SessionAssumption
<1>7. task \in [Slots -> Tasks] BY <1>5, FreeTyped
<1>8. SessionTypeOK BY <1>5, <1>6, <1>7 DEF SessionTypeOK
<1>9. BusyOwned BY <1>5 DEF BusyOwned
<1> QED BY <1>3, <1>4, <1>8, <1>9 DEF Chained, ChainTypeOK

LEMMA ChainSteps ==
  ASSUME Chained, [ChainNext]_chainVars
  PROVE  /\ Chained'
         /\ up' \in {"speech", "noise"} => newest' < Older(newest)
<1>1. GateTypeOK /\ SessionTypeOK /\ Queued /\ BusyOwned BY DEF Chained, ChainTypeOK
<1>2. ASSUME NEW voiced \in BOOLEAN, NEW heard \in BOOLEAN, Frame(voiced, heard)
      PROVE  /\ Chained'
             /\ up' \in {"speech", "noise"} => newest' < Older(newest)
  <2>1. /\ GateTypeOK' /\ Queued'
        /\ up' \in {"speech", "noise"} => newest' < Older(newest)
    BY <1>1, <1>2, FeedKept DEF Frame
  <2>2. SessionTypeOK' /\ BusyOwned'
    <3>1. UNCHANGED sessionVars \/ \E s \in BOOLEAN : Audio(s) BY <1>2 DEF Frame
    <3> QED BY <1>1, <3>1, AudioKept, SessionSame
  <2> QED BY <2>1, <2>2 DEF Chained, ChainTypeOK
<1>3. CASE GateShuts \/ Session \/ UNCHANGED chainVars
  <2>1. /\ GateTypeOK' /\ Queued'
        /\ up' \in {"speech", "noise"} => newest' < Older(newest)
    BY <1>1, <1>3, ShutsKept DEF GateShuts, Session, chainVars
  <2>2. SessionTypeOK' /\ BusyOwned'
    BY <1>1, <1>3, SessionSame, OthersKept DEF GateShuts, Session, chainVars
  <2> QED BY <2>1, <2>2 DEF Chained, ChainTypeOK
<1> QED BY <1>2, <1>3 DEF ChainNext

\* Everywhere what waits in the gate was heard after all that went up, and the
\* mark of the session has an owner.
THEOREM ChainedAlways == ChainSpec => []Chained
BY ChainStarts, ChainSteps, PTL DEF ChainSpec

\* Every variable of the gate and of the session keeps its type.
THEOREM ChainTypeCorrect == ChainSpec => []ChainTypeOK
<1>1. Chained => ChainTypeOK BY DEF Chained
<1> QED BY <1>1, ChainedAlways, PTL

\* The robot is marked busy only while a turn or the idle loop is there to
\* clear the mark, whoever interrupted or failed.
THEOREM BusyOwnedAlways == ChainSpec => []BusyOwned
<1>1. Chained => BusyOwned BY DEF Chained
<1> QED BY <1>1, ChainedAlways, PTL

\* What goes up is newer than all that went up before, for every length of the
\* pre-roll.
THEOREM UplinkStaysInOrder == ChainSpec => UplinkInOrder
<1>1. Chained /\ [ChainNext]_chainVars =>
        [up' \in {"speech", "noise"} => newest' < Older(newest)]_chainVars
  BY ChainSteps
<1> QED BY <1>1, ChainedAlways, PTL DEF ChainSpec, UplinkInOrder

=============================================================================
