----------------------------- MODULE VoiceChain -----------------------------
(***************************************************************************)
(* The microphone, the wake gate in the conversation application and the   *)
(* voice server behind it (patches/conversation_tuning/apply.py puts the   *)
(* gate in front of input_audio_buffer.append).  What the gate sends is    *)
(* what the server hears, in that order; the connection between them only  *)
(* delays it.                                                              *)
(***************************************************************************)
EXTENDS WakeGate, RealtimeSession

chainVars == <<wakeVars, sessionVars>>

ChainTypeOK == GateTypeOK /\ SessionTypeOK

ChainInit == GateInit /\ SessionInit

\* One frame of the microphone.  A frame that the gate holds back, or that
\* nobody listens to, is not sent.
Frame(speech, heard) ==
  /\ Feed(speech, heard)
  /\ IF gone \/ up' = "nothing" THEN UNCHANGED sessionVars ELSE Audio(up' = "speech")

GateShuts == Shuts /\ UNCHANGED sessionVars
Session == SessionOthers /\ UNCHANGED wakeVars

ChainNext == (\E speech, heard \in BOOLEAN : Frame(speech, heard)) \/ GateShuts \/ Session

ChainSpec == ChainInit /\ [][ChainNext]_chainVars

\* The microphone never stops, the models answer within their timeouts and
\* the event loop runs what is ready.
ChainFairSpec ==
  /\ ChainSpec
  /\ WF_chainVars(\E speech, heard \in BOOLEAN : Frame(speech, heard))
  /\ WF_chainVars((\E t \in Slots : TurnBegins(t)) /\ UNCHANGED wakeVars)
  /\ \A t \in Slots : WF_chainVars(Reply(t) /\ UNCHANGED wakeVars)
  /\ WF_chainVars(IdleReturns /\ UNCHANGED wakeVars)

-----------------------------------------------------------------------------
(* Properties                                                              *)

\* "The uplink stays in real order": what goes up is newer than all that went
\* up before, across the pre-roll, holds that end, and cues kept for later
\* (wake_gate.py lines 190 to 224).
UplinkInOrder == [][up' \in {"speech", "noise"} => newest' < Older(newest)]_chainVars

\* The robot is marked busy only while a turn or the idle loop is there to
\* clear the mark, whoever interrupted or failed: else it would stay deaf.
BusyOwned ==
  busy => idle.at \in {"looking", "replying"} \/ \E t \in Slots : task[t].kind = "turn"

\* Every utterance is committed although the gate may shut in the middle of it:
\* the server hears the pause (wake_gate.py lines 170 to 173).
UtterancesEnd == speaking ~> ~speaking \/ gone

\* The robot listens again after every turn and every line of its own.
ListensAgain == busy ~> ~busy

\* Whoever speaks to the robot is heard out, and may speak again.
HearsAgain == UtterancesEnd /\ ListensAgain

=============================================================================
