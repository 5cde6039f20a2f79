------------------------------ MODULE WakeGate ------------------------------
(***************************************************************************)
(* voice_gate/wake_gate.py: the uplink of the microphone is shut until the *)
(* robot is addressed by a wake word or from nearby, and stays open while  *)
(* somebody speaks.  Shut, it sends silence and remembers a pre-roll; once *)
(* it opens, the pre-roll goes up first, one frame per frame heard.        *)
(*                                                                         *)
(* A frame is its age, the number of frames heard since, and whether it    *)
(* holds speech: the order of the uplink can be told from the ages.  The   *)
(* hold runs out at any moment.  open_now has no caller.                   *)
(***************************************************************************)
EXTENDS Naturals, Sequences

CONSTANT PreRoll  \* frames remembered while the gate is shut

ASSUME PreRollAssumption == PreRoll \in Nat

VARIABLES
  broken,           \* the models did not load
  open,             \* _open_until lies ahead
  cue,              \* _woke or _near
  preroll, replay,
  up,               \* what went up last: speech, room noise, zeros, or nothing
  newest            \* age of the newest frame that went up as it was heard

wakeVars == <<broken, open, cue, preroll, replay, up, newest>>

MaxAge == PreRoll + 2  \* bound: older frames are alike
Ages == 0 .. MaxAge
Frames == [age : Ages, speech : BOOLEAN]

GateTypeOK ==
  /\ {broken, open, cue} \subseteq BOOLEAN
  /\ preroll \in Seq(Frames) /\ Len(preroll) <= PreRoll
  /\ replay \in Seq(Frames) /\ Len(replay) <= PreRoll
  /\ up \in {"speech", "noise", "zeros", "nothing"} /\ newest \in Ages

GateInit ==
  /\ broken \in BOOLEAN
  /\ open = FALSE /\ cue = FALSE
  /\ preroll = <<>> /\ replay = <<>>
  /\ up = "zeros" /\ newest = MaxAge

Older(age) == IF age < MaxAge THEN age + 1 ELSE age
Aged(frames) == [i \in DOMAIN frames |-> [frames[i] EXCEPT !.age = Older(@)]]

Sends(frame) ==
  /\ up' = IF frame.speech THEN "speech" ELSE "noise"
  /\ newest' = frame.age

\* MUTANT: the gate sends nothing while it is shut.
SendsNothing == up' = "nothing" /\ newest' = Older(newest)

\* Zeros, not nothing.
SendsSilence == up' = "zeros" /\ newest' = Older(newest)

\* _remember: the oldest frames make room.
Remembered(frame) ==
  LET all == Append(Aged(preroll), frame)
  IN IF Len(all) > PreRoll THEN Tail(all) ELSE all

\* The frame waits behind the pre-roll still to be sent.
InTurn(waiting, frame) ==
  LET queue == Append(waiting, frame)
  IN Sends(Head(queue)) /\ replay' = Tail(queue)

\* MUTANT: the frame that opens the gate overtakes the pre-roll.
Overtakes(waiting, frame) ==
  Sends(frame) /\ replay' = waiting

\* The frame that opens the gate comes last.
Opens(waiting, frame) == InTurn(waiting, frame)

\* _score: speech is needed for a cue, of the wake word or from nearby.
Scores(speech, heard) == heard => speech

\* feed: one frame is heard and one goes up.  A cue that is not used up stays.
Feed(speech, heard) ==
  LET frame == [age |-> 0, speech |-> speech]
      cued == cue \/ heard
  IN /\ Scores(speech, heard) /\ UNCHANGED broken
     /\ \/ /\ broken /\ Sends(frame)
           /\ UNCHANGED <<open, cue, preroll, replay>>
        \/ /\ ~broken /\ open
           /\ InTurn(Aged(replay), frame)
           /\ cue' = cued /\ preroll' = Aged(preroll)
           /\ UNCHANGED open
        \/ /\ ~broken /\ ~open /\ cued
           /\ open' = TRUE /\ cue' = FALSE
           /\ Opens(Aged(replay) \o Aged(preroll), frame)
           /\ preroll' = <<>>
        \/ /\ ~broken /\ ~open /\ ~cued
           /\ SendsSilence
           /\ replay' = <<>> /\ preroll' = Remembered(frame)
           /\ UNCHANGED <<open, cue>>

\* The hold runs out, or close_now.
Shuts ==
  /\ open /\ open' = FALSE
  /\ UNCHANGED <<broken, cue, preroll, replay, up, newest>>

=============================================================================
