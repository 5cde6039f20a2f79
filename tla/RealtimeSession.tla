-------------------------- MODULE RealtimeSession --------------------------
(***************************************************************************)
(* realtime_server/server.py: one client of the voice server.  The handler *)
(* of its messages cuts the microphone into utterances and starts a task   *)
(* per turn; the idle loop starts replies nobody asked for; the client may *)
(* ask for one too.  All of them share _busy, _talking and _reply_task,    *)
(* and interleave at every await.                                          *)
(*                                                                         *)
(* Lengths are counted in chunks.  Recognition, the chat model and the     *)
(* voice are external: they answer, answer nothing, or fail.               *)
(***************************************************************************)
EXTENDS Naturals

CONSTANTS
  Slots,        \* bound: tasks at the same time
  SpeechStart, BargeIn, SilenceEnd, MinSpoken, MaxSpoken,
  NoTask

ASSUME SessionAssumption ==
  /\ {SpeechStart, BargeIn, SilenceEnd, MinSpoken, MaxSpoken} \subseteq Nat \ {0}
  /\ SpeechStart <= BargeIn /\ MinSpoken <= MaxSpoken /\ NoTask \notin Slots

VARIABLES
  run, speaking, quiet, spoken,  \* _speech_run, _speaking, _silence_ms, _utterance
  ending,     \* the handler has sent speech_stopped and starts the turn next
  busy, talking, replyTask,
  task,       \* the tasks that are not done
  idle,       \* idle_loop, and the task it awaits
  gone        \* the client's connection is closed

micVars == <<run, speaking, quiet, spoken, ending>>
flagVars == <<busy, talking, replyTask>>
sessionVars == <<micVars, flagVars, task, idle, gone>>

Free == [kind |-> "none", stage |-> "none", cancelled |-> FALSE]
Tasks ==
  [kind : {"none", "turn", "asked", "idle"}, stage : {"none", "stt", "chat", "picture", "speech"},
   cancelled : BOOLEAN]

SessionTypeOK ==
  /\ run \in 0 .. BargeIn /\ quiet \in 0 .. SilenceEnd /\ spoken \in 0 .. MaxSpoken
  /\ {speaking, ending, busy, talking, gone} \subseteq BOOLEAN
  /\ replyTask \in Slots \cup {NoTask}
  /\ task \in [Slots -> Tasks]
  /\ idle \in [at : {"sleeping", "looking", "replying", "ended"}, task : Slots \cup {NoTask}]

SessionInit ==
  /\ run = 0 /\ speaking = FALSE /\ quiet = 0 /\ spoken = 0 /\ ending = FALSE
  /\ busy = FALSE /\ talking = FALSE /\ replyTask = NoTask
  /\ task = [t \in Slots |-> Free]
  /\ idle = [at |-> "sleeping", task |-> NoTask] /\ gone = FALSE

Smaller(a, b) == IF a < b THEN a ELSE b

-----------------------------------------------------------------------------
(* The microphone                                                          *)

\* _interrupt: the last reply that was tracked is cancelled.
Cancelled ==
  IF replyTask = NoTask THEN task ELSE [task EXCEPT ![replyTask].cancelled = TRUE]

\* Nobody is speaking: speech interrupts a reply, or begins an utterance.
BeforeSpeech(speech) ==
  LET heard == IF speech THEN Smaller(run + 1, BargeIn) ELSE 0
      interrupts == talking /\ heard = BargeIn
      begins == heard >= SpeechStart /\ (interrupts \/ ~busy)
  IN /\ run' = heard
     /\ task' = IF interrupts THEN Cancelled ELSE task
     /\ talking' = (talking /\ ~interrupts)
     /\ busy' = (busy /\ ~interrupts)
     /\ speaking' = begins
     /\ quiet' = 0 /\ spoken' = IF begins THEN 1 ELSE 0
     /\ UNCHANGED ending

\* An utterance ends with a pause or at its limit; a short one is no turn.
DuringSpeech(speech) ==
  LET pause == IF speech THEN 0 ELSE quiet + 1
      length == Smaller(spoken + 1, MaxSpoken)
      ends == pause >= SilenceEnd \/ length >= MaxSpoken
  IN /\ speaking' = ~ends /\ run' = IF ends THEN 0 ELSE run
     /\ quiet' = IF ends THEN 0 ELSE pause
     /\ spoken' = IF ends THEN 0 ELSE length
     /\ ending' = (ends /\ length >= MinSpoken)
     /\ UNCHANGED <<task, busy, talking>>

Listening == ~gone /\ ~ending

\* _audio, one chunk.
Audio(speech) ==
  /\ Listening
  /\ IF speaking THEN DuringSpeech(speech) ELSE BeforeSpeech(speech)
  /\ UNCHANGED <<replyTask, idle, gone>>

Starts(t, kind, stage) ==
  /\ task[t] = Free
  /\ task' = [task EXCEPT ![t] = [kind |-> kind, stage |-> stage, cancelled |-> FALSE]]

\* The turn is marked busy and starts once speech_stopped has been sent.
TurnBegins(t) ==
  /\ ending /\ ending' = FALSE
  /\ Starts(t, "turn", "stt") /\ busy' = TRUE /\ replyTask' = t
  /\ UNCHANGED <<run, speaking, quiet, spoken, talking, idle, gone>>

\* response.create: a reply that is neither tracked nor marked busy.
ResponseCreate(t) ==
  /\ Listening /\ ~busy
  /\ Starts(t, "asked", "chat")
  /\ UNCHANGED <<micVars, flagVars, idle, gone>>

-----------------------------------------------------------------------------
(* A turn, and its reply                                                   *)

Runs(t, stage) == task[t].stage = stage /\ ~task[t].cancelled

\* MUTANT: a turn that ends without a reply stays busy.
TurnForgotten(t) == UNCHANGED busy

\* The finally of _turn.
TurnOver(t) == busy' = (busy /\ task[t].kind # "turn")

TaskOver(t) ==
  /\ task' = [task EXCEPT ![t] = Free]
  /\ replyTask' = IF replyTask = t THEN NoTask ELSE replyTask
  /\ TurnOver(t)
  /\ UNCHANGED <<micVars, gone>>

\* The idle loop goes on once its task is done.
Done(t) ==
  /\ TaskOver(t)
  /\ idle' = IF idle.task = t THEN [idle EXCEPT !.task = NoTask] ELSE idle

Becomes(t, stage) ==
  /\ task' = [task EXCEPT ![t].stage = stage]
  /\ UNCHANGED <<micVars, busy, replyTask, idle, gone>>

\* Words, or nothing.
Recognized(t) ==
  /\ Runs(t, "stt") /\ UNCHANGED talking
  /\ Becomes(t, "chat") \/ Done(t)

\* _respond, with the model's answer: a picture first, speech, or no voice.
Answered(t) ==
  /\ Runs(t, "chat")
  /\ \/ Becomes(t, "picture") /\ UNCHANGED talking
     \/ Becomes(t, "speech") /\ talking' = TRUE
     \/ Done(t) /\ talking' = FALSE

\* The picture has come, or the wait for it is over.
Pictured(t) ==
  /\ Runs(t, "picture")
  /\ \/ Becomes(t, "speech") /\ talking' = TRUE
     \/ Done(t) /\ talking' = FALSE

Spoken(t) ==
  /\ Runs(t, "speech")
  /\ Done(t) /\ talking' = FALSE

\* An exception, of the voice for one, leaves _talking as it is.
Raises(t) ==
  /\ task[t] # Free /\ ~task[t].cancelled
  /\ Done(t) /\ UNCHANGED talking

\* A cancelled task comes to its finally some time later.
Unwinds(t) ==
  /\ task[t].cancelled
  /\ Done(t) /\ UNCHANGED talking

Reply(t) == Recognized(t) \/ Answered(t) \/ Pictured(t) \/ Spoken(t) \/ Unwinds(t)

-----------------------------------------------------------------------------
(* The idle loop                                                           *)

Undisturbed == ~busy /\ ~talking /\ ~speaking

Marks(at, t) ==
  /\ busy' = TRUE /\ idle' = [at |-> at, task |-> t]
  /\ UNCHANGED <<micVars, talking, gone>>

\* A line of its own.
IdlePrompt(t) ==
  /\ idle.at = "sleeping" /\ Undisturbed
  /\ Starts(t, "idle", "chat") /\ replyTask' = t
  /\ Marks("replying", t)

\* _look_around: the client is asked for a picture.
LookAround ==
  /\ idle.at = "sleeping" /\ Undisturbed
  /\ Marks("looking", NoTask) /\ UNCHANGED <<task, replyTask>>

Seen(t) ==
  /\ idle.at = "looking"
  /\ Starts(t, "idle", "chat") /\ replyTask' = t
  /\ idle' = [at |-> "replying", task |-> t]
  /\ UNCHANGED <<micVars, busy, talking, gone>>

\* The finally of the idle loop: no picture came, or the reply is done.
Returns ==
  /\ busy' = FALSE /\ idle' = [at |-> "sleeping", task |-> NoTask]
  /\ UNCHANGED <<micVars, talking, replyTask, task>>

IdleReturns ==
  /\ \/ idle.at = "looking"
     \/ idle.at = "replying" /\ idle.task = NoTask
  /\ Returns /\ UNCHANGED gone

\* The connection ends and the idle loop is cancelled.  It ends only if it
\* sleeps: while it waits it takes the cancellation for that of its reply.
ClientGone ==
  /\ ~ending /\ ~gone /\ gone' = TRUE
  /\ \/ /\ idle.at = "sleeping" /\ idle' = [idle EXCEPT !.at = "ended"]
        /\ UNCHANGED <<micVars, flagVars, task>>
     \/ /\ idle.at = "looking" /\ Returns
     \/ /\ idle.at = "replying"
        /\ task' = IF idle.task = NoTask THEN task
                   ELSE [task EXCEPT ![idle.task].cancelled = TRUE]
        /\ UNCHANGED <<micVars, flagVars, idle>>

Idle == LookAround \/ IdleReturns \/ \E t \in Slots : IdlePrompt(t) \/ Seen(t)

SessionOthers ==
  \/ \E t \in Slots : TurnBegins(t) \/ ResponseCreate(t) \/ Reply(t) \/ Raises(t)
  \/ Idle \/ ClientGone

=============================================================================
