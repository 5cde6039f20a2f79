------------------------------ MODULE FaceCues ------------------------------
(***************************************************************************)
(* FaceCueEngine of pet_vision/face_cues.py: frames of the camera become   *)
(* visual events.  A single usable face is followed as a track; a smile    *)
(* that lasts is told once, and then latched until the mouth has rested.   *)
(*                                                                         *)
(* Timestamps are kept as ages, in ticks, and no age is told apart beyond  *)
(* MaxAge.  A frame is what the detector made of it: whether it is usable, *)
(* how many faces, where the only one is and what its mouth does.          *)
(*                                                                         *)
(* The variable seen is history: what really was in front of the camera,   *)
(* counted from the frames alone.                                          *)
(***************************************************************************)
EXTENDS Naturals

CONSTANTS
  Places,                                 \* where a face may be, each far from the others
  Gap, Settle, Absent, Release, Refresh,  \* the engine's times, in ticks
  Duration, MinFrames, Cooldown,
  MaxAge                                  \* bound: older is not told apart

ASSUME TimesAssumption ==
  /\ {Gap, Settle, Absent, Release, Refresh, Duration, MinFrames, Cooldown, MaxAge} \subseteq Nat
  /\ \A time \in {Gap, Settle, Absent, Release, Refresh, Duration, Cooldown} : time <= MaxAge
  /\ MinFrames > 0 /\ Settle > 0 /\ Absent > 0 /\ Release > 0 /\ Places # {}

VARIABLES
  track,    \* the track: whether there is one, where, and its age
  rule,     \* the candidate's frames and age, the latch, and the release
  absent,   \* age of absent_since
  quiet,    \* time since the last cue
  status,   \* last_status and its age
  sent,     \* what the last frame was answered with
  seen      \* history

vars == <<track, rule, absent, quiet, status, sent, seen>>

Ages == 0 .. MaxAge
Views == {"bad", "none", "many", "unusable", "smiling", "between", "released", "missing"}
OneFace == {"smiling", "between", "released", "missing"}
Keys == {"nothing", "frame_quality", "no_face_pending", "absent", "multiple_faces",
         "face_quality", "track_stabilizing", "visible"}

TypeOK ==
  /\ track \in [on : BOOLEAN, place : Places, age : Ages]
  /\ rule \in [frames : 0 .. MinFrames, age : Ages, latched : BOOLEAN,
               releasing : BOOLEAN, rest : Ages]
  /\ absent \in [on : BOOLEAN, age : Ages]
  /\ quiet \in Ages
  /\ status \in [key : Keys, age : Ages]
  /\ sent \in [status : BOOLEAN, cue : BOOLEAN]
  /\ seen \in [last : {"nobody", "alone", "else"}, place : Places,
               frames : 0 .. MinFrames, age : Ages,  \* the smile going on
               steady : Ages,  \* the same face, alone and usable
               empty : Ages,   \* nobody is there
               calm : Ages,    \* since the mouth was last not released
               told : 0 .. 2]  \* cues of this track since the mouth was calm

NoTrack == [on |-> FALSE, place |-> CHOOSE p \in Places : TRUE, age |-> 0]
NoRule == [frames |-> 0, age |-> 0, latched |-> FALSE, releasing |-> FALSE, rest |-> 0]
NotAbsent == [on |-> FALSE, age |-> 0]

Init ==
  /\ track = NoTrack /\ rule = NoRule /\ absent = NotAbsent
  /\ quiet = MaxAge
  /\ status = [key |-> "nothing", age |-> MaxAge]
  /\ sent = [status |-> FALSE, cue |-> FALSE]
  /\ seen = [last |-> "else", place |-> NoTrack.place, frames |-> 0, age |-> 0,
             steady |-> 0, empty |-> 0, calm |-> 0, told |-> 0]

Older(age, dt) == IF age + dt < MaxAge THEN age + dt ELSE MaxAge
Counted(frames) == IF frames < MinFrames THEN frames + 1 ELSE MinFrames

-----------------------------------------------------------------------------
(* The engine. *)

\* No frame came for too long: the track is given up.
Paused(dt) == dt > Gap

\* MUTANT: a face that jumps keeps its track.
AnyPlace(place, dt) == track.on /\ ~Paused(dt)

\* The face of the last frame, and not another one elsewhere.
SameFace(place, dt) == track.on /\ ~Paused(dt) /\ track.place = place

TrackAfter(view, place, dt) ==
  IF view \notin OneFace THEN NoTrack
  ELSE [on |-> TRUE, place |-> place,
        age |-> IF SameFace(place, dt) THEN Older(track.age, dt) ELSE 0]

\* The rule as this frame finds it: forgotten with the track, or older.
RuleBefore(view, place, dt) ==
  IF view \in OneFace /\ SameFace(place, dt)
  THEN [rule EXCEPT !.age = Older(@, dt), !.rest = Older(@, dt)]
  ELSE NoRule

\* The mouth is released: the latch opens once it has rested.
Rested(old) ==
  LET rest == IF old.releasing THEN old.rest ELSE 0
  IN [frames |-> 0, age |-> 0, latched |-> old.latched /\ rest < Release,
      releasing |-> TRUE, rest |-> rest]

NoCandidate(old) == [old EXCEPT !.frames = 0, !.age = 0]
Tense(old) == [old EXCEPT !.releasing = FALSE, !.rest = 0]

\* The candidate with this frame.
Smiles(old) ==
  [Tense(old) EXCEPT !.frames = Counted(@), !.age = IF old.frames = 0 THEN 0 ELSE @]

\* MUTANT: a smile is told again after the cooldown.
Unlatched(old, dt) ==
  /\ Smiles(old).frames >= MinFrames /\ Smiles(old).age >= Duration
  /\ Older(quiet, dt) >= Cooldown

\* The smile has lasted, was not told yet, and the last cue is long ago.
Due(old, dt) ==
  /\ ~old.latched
  /\ Smiles(old).frames >= MinFrames /\ Smiles(old).age >= Duration
  /\ Older(quiet, dt) >= Cooldown

RuleAfter(view, old, dt) ==
  CASE view = "released" -> Rested(old)
    [] view = "between" -> Tense(NoCandidate(old))
    [] view = "missing" -> NoCandidate(old)
    [] view = "smiling" -> [Smiles(old) EXCEPT !.latched = @ \/ Due(old, dt)]
    [] OTHER -> old

\* MUTANT: an unusable frame does not end an absence.
AbsentStays(view, dt) ==
  IF view \in {"none", "bad"}
  THEN [on |-> TRUE, age |-> IF absent.on /\ ~Paused(dt) THEN Older(absent.age, dt) ELSE 0]
  ELSE NotAbsent

AbsentAfter(view, dt) ==
  IF view = "none"
  THEN [on |-> TRUE, age |-> IF absent.on /\ ~Paused(dt) THEN Older(absent.age, dt) ELSE 0]
  ELSE NotAbsent

KeyOf(view) ==
  CASE view = "bad" -> "frame_quality"
    [] view = "none" -> IF absent'.age < Absent THEN "no_face_pending" ELSE "absent"
    [] view = "many" -> "multiple_faces"
    [] view = "unusable" -> "face_quality"
    [] OTHER -> IF track'.age < Settle THEN "track_stabilizing" ELSE "visible"

\* A status is told when it changes, and again from time to time.
Tells(view, dt) == KeyOf(view) # status.key \/ Older(status.age, dt) >= Refresh

-----------------------------------------------------------------------------
(* History. *)

\* The same face, alone and usable, without a pause.
Stays(view, place, dt) ==
  view \in OneFace /\ seen.last = "alone" /\ seen.place = place /\ dt <= Gap

Smiling(view, place, dt) ==
  IF view # "smiling" THEN [frames |-> 0, age |-> 0]
  ELSE IF Stays(view, place, dt) /\ seen.frames > 0
       THEN [frames |-> Counted(seen.frames), age |-> Older(seen.age, dt)]
       ELSE [frames |-> Counted(0), age |-> 0]

Witness(view, place, dt) ==
  LET calm == IF Stays(view, place, dt) /\ view \in {"released", "missing"}
              THEN Older(seen.calm, dt) ELSE 0
      before == IF Stays(view, place, dt) /\ ~(view = "released" /\ calm >= Release)
                THEN seen.told ELSE 0
  IN seen' = [last |-> CASE view = "none" -> "nobody" [] view \in OneFace -> "alone"
                         [] OTHER -> "else",
              place |-> IF view \in OneFace THEN place ELSE NoTrack.place,
              frames |-> Smiling(view, place, dt).frames,
              age |-> Smiling(view, place, dt).age,
              steady |-> IF Stays(view, place, dt) THEN Older(seen.steady, dt) ELSE 0,
              empty |-> IF view = "none" /\ seen.last = "nobody" /\ dt <= Gap
                        THEN Older(seen.empty, dt) ELSE 0,
              calm |-> calm,
              told |-> IF sent'.cue /\ before < 2 THEN before + 1 ELSE before]

-----------------------------------------------------------------------------
\* update: a frame dt after the last one that counted.
Frame(view, place, dt) ==
  LET old == RuleBefore(view, place, dt)
      cue == view = "smiling" /\ Due(old, dt)
  IN /\ track' = TrackAfter(view, place, dt)
     /\ rule' = RuleAfter(view, old, dt)
     /\ absent' = AbsentAfter(view, dt)
     /\ quiet' = IF cue THEN 0 ELSE Older(quiet, dt)
     /\ sent' = [status |-> Tells(view, dt), cue |-> cue]
     /\ status' = IF Tells(view, dt) THEN [key |-> KeyOf(view), age |-> 0]
                  ELSE [status EXCEPT !.age = Older(@, dt)]
     /\ Witness(view, place, dt)

\* A frame of the future, a late one, or one out of order.
Rejected ==
  /\ sent' = [status |-> FALSE, cue |-> FALSE]
  /\ UNCHANGED <<track, rule, absent, quiet, status, seen>>

Next ==
  \/ \E view \in Views, place \in Places, dt \in 1 .. Gap + 1 : Frame(view, place, dt)
  \/ Rejected

Spec == Init /\ [][Next]_vars

-----------------------------------------------------------------------------
(* A cue is told of a smile of one usable face that went on for Duration   *)
(* and over MinFrames frames, with no other frame and no pause in between  *)
(* (face_cues.py lines 121 to 136).                                        *)
CueEarned == sent.cue => seen.frames >= MinFrames /\ seen.age >= Duration

(* While the face stays, no second cue is told before the mouth was calm   *)
(* for Release (the latch, lines 122 to 127 and 134).                      *)
OneCue == seen.told <= 1

(* An absence and a face are told of only when they have lasted: a pause,  *)
(* an unusable frame or a second face starts either anew (lines 78 to 117).*)
PresenceSteady ==
  sent.status =>
    /\ status.key = "absent" => seen.empty >= Absent
    /\ status.key = "visible" => seen.steady >= Settle
=============================================================================
