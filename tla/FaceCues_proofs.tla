--------------------------- MODULE FaceCues_proofs --------------------------
(***************************************************************************)
(* The properties of FaceCues, for any times and places that satisfy       *)
(* TimesAssumption.  The engine resets its track, its candidate and its    *)
(* absence at different places; what ties each to the history of frames is *)
(* the invariant Follows, of which the properties are consequences.        *)
(***************************************************************************)
EXTENDS FaceCues, TLAPS

\* The track is the face that stayed, and an absence the time nobody was there.
TrackFollows ==
  /\ track.on <=> seen.last = "alone"
  /\ track.on => track.place = seen.place
  /\ track.age = seen.steady
  /\ absent.on <=> seen.last = "nobody"
  /\ absent.age = seen.empty

\* The candidate is the smile going on, and a rest no longer than the calm.
RuleFollows ==
  /\ rule.frames = seen.frames /\ rule.age = seen.age
  /\ rule.releasing => rule.rest <= seen.calm
  /\ seen.told > 0 => rule.latched

\* What the last frame was answered with.
SentFollows == CueEarned /\ PresenceSteady

Follows == TypeOK /\ TrackFollows /\ RuleFollows /\ OneCue /\ SentFollows

-----------------------------------------------------------------------------
(* Ages and counts. *)

LEMMA Times ==
  /\ MaxAge \in Nat /\ MinFrames \in Nat /\ MinFrames > 0
  /\ Gap \in Nat /\ Release \in Nat /\ Release > 0 /\ Duration \in Nat
  /\ Absent \in Nat /\ Settle \in Nat /\ Cooldown \in Nat /\ Places # {}
BY TimesAssumption

\* An age that grows stays an age, and keeps the order of two ages.
LEMMA OlderAge ==
  ASSUME NEW a \in Ages, NEW b \in Ages, NEW dt \in Nat
  PROVE  /\ Older(a, dt) \in Ages
         /\ a <= b => Older(a, dt) <= Older(b, dt)
BY Times DEF Older, Ages

\* A count of frames stays within its bound, and is never zero.
LEMMA CountedFrames ==
  ASSUME NEW n \in 0 .. MinFrames
  PROVE  Counted(n) \in 0 .. MinFrames /\ Counted(n) > 0 /\ Counted(0) \in 0 .. MinFrames
BY Times DEF Counted

\* There is a place to begin with, and the oldest and the youngest age.
LEMMA Beginnings ==
  /\ NoTrack \in [on : BOOLEAN, place : Places, age : Ages]
  /\ NoRule \in [frames : 0 .. MinFrames, age : Ages, latched : BOOLEAN,
                 releasing : BOOLEAN, rest : Ages]
  /\ 0 \in Ages /\ MaxAge \in Ages /\ 0 \in 0 .. MinFrames
BY Times DEF NoTrack, NoRule, Ages

-----------------------------------------------------------------------------
(* One frame. *)

\* The engine keeps its face exactly when it stayed.
LEMMA SameIsStays ==
  ASSUME TypeOK, TrackFollows, NEW view \in OneFace, NEW place \in Places, NEW dt \in Nat
  PROVE  SameFace(place, dt) <=> Stays(view, place, dt)
BY Times DEF TypeOK, TrackFollows, SameFace, Stays, Paused

Rules == [frames : 0 .. MinFrames, age : Ages, latched : BOOLEAN,
          releasing : BOOLEAN, rest : Ages]

\* The rule as the frame finds it.
LEMMA RuleBeforeFound ==
  ASSUME TypeOK, TrackFollows, RuleFollows,
         NEW view \in Views, NEW place \in Places, NEW dt \in Nat
  PROVE  LET old == RuleBefore(view, place, dt)
         IN /\ old \in Rules
            /\ view \in OneFace /\ Stays(view, place, dt) =>
                 /\ old.frames = seen.frames /\ old.age = Older(seen.age, dt)
                 /\ old.latched = rule.latched /\ old.releasing = rule.releasing
                 /\ old.rest = Older(rule.rest, dt)
            /\ ~(view \in OneFace /\ Stays(view, place, dt)) => old = NoRule
<1>1. CASE view \in OneFace /\ Stays(view, place, dt)
  <2>1. SameFace(place, dt)
    BY <1>1, SameIsStays
  <2>2. RuleBefore(view, place, dt)
          = [rule EXCEPT !.age = Older(@, dt), !.rest = Older(@, dt)]
    BY <1>1, <2>1 DEF RuleBefore
  <2>3. Older(rule.age, dt) \in Ages /\ Older(rule.rest, dt) \in Ages
    BY OlderAge DEF TypeOK
  <2> QED
    BY <1>1, <2>2, <2>3 DEF TypeOK, RuleFollows, Rules
<1>2. CASE ~(view \in OneFace /\ Stays(view, place, dt))
  <2>1. RuleBefore(view, place, dt) = NoRule
    BY <1>2, SameIsStays DEF RuleBefore
  <2> QED
    BY <1>2, <2>1, Beginnings DEF Rules
<1> QED
  BY <1>1, <1>2

\* What a frame makes of the rule.
LEMMA RuleAfterType ==
  ASSUME NEW view \in Views, NEW old \in Rules, NEW dt \in Nat, quiet \in Ages
  PROVE  RuleAfter(view, old, dt) \in Rules
<1>1. Counted(old.frames) \in 0 .. MinFrames
  BY CountedFrames DEF Rules
<1>2. Rested(old) \in Rules
  BY Beginnings DEF Rested, Rules
<1>3. NoCandidate(old) \in Rules
  BY Beginnings DEF NoCandidate, Rules
<1>4. Tense(NoCandidate(old)) \in Rules
  BY <1>3, Beginnings DEF Tense, Rules
<1>5. Smiles(old) \in Rules
  BY <1>1, Beginnings DEF Smiles, Tense, Rules
<1>6. Due(old, dt) \in BOOLEAN
  BY DEF Due
<1>7. [Smiles(old) EXCEPT !.latched = @ \/ Due(old, dt)] \in Rules
  BY <1>5, <1>6 DEF Rules
<1> QED
  BY <1>2, <1>3, <1>4, <1>7 DEF RuleAfter, Views
-----------------------------------------------------------------------------
(* The invariant. *)

LEMMA Begins == Init => Follows
<1> SUFFICES ASSUME Init PROVE Follows
  OBVIOUS
<1>1. TypeOK
  BY Beginnings DEF Init, TypeOK, NotAbsent, Keys, NoTrack
<1>2. TrackFollows /\ RuleFollows /\ OneCue /\ SentFollows
  BY Times DEF Init, TrackFollows, RuleFollows, OneCue, SentFollows, CueEarned, PresenceSteady,
               NoTrack, NoRule, NotAbsent
<1> QED
  BY <1>1, <1>2 DEF Follows

\* The rule and the history go on together.
LEMMA FrameKeepsRule ==
  ASSUME Follows, NEW view \in Views, NEW place \in Places, NEW dt \in Nat,
         Frame(view, place, dt)
  PROVE  RuleFollows' /\ OneCue' /\ CueEarned'
<1> DEFINE old == RuleBefore(view, place, dt)
           stays == view \in OneFace /\ Stays(view, place, dt)
           due == view = "smiling" /\ Due(old, dt)
           calm == IF Stays(view, place, dt) /\ view \in {"released", "missing"}
                   THEN Older(seen.calm, dt) ELSE 0
           before == IF Stays(view, place, dt) /\ ~(view = "released" /\ calm >= Release)
                     THEN seen.told ELSE 0
<1>1. /\ old \in Rules
      /\ stays => /\ old.frames = seen.frames /\ old.age = Older(seen.age, dt)
                  /\ old.latched = rule.latched /\ old.releasing = rule.releasing
                  /\ old.rest = Older(rule.rest, dt)
      /\ ~stays => old = NoRule
  BY RuleBeforeFound DEF Follows
<1>2. /\ rule' = RuleAfter(view, old, dt) /\ sent'.cue = due
      /\ seen'.frames = Smiling(view, place, dt).frames
      /\ seen'.age = Smiling(view, place, dt).age
      /\ seen'.calm = calm
      /\ seen'.told = IF due /\ before < 2 THEN before + 1 ELSE before
  BY DEF Frame, Witness
<1>3. /\ seen.told \in {0, 1} /\ seen.frames \in 0 .. MinFrames /\ seen.age \in Ages
      /\ seen.calm \in Ages /\ rule.rest \in Ages
      /\ Older(seen.calm, dt) \in Ages /\ Older(rule.rest, dt) \in Ages
      /\ Older(seen.age, dt) \in Ages
      /\ rule.releasing => Older(rule.rest, dt) <= Older(seen.calm, dt)
  <2>1. /\ seen.told \in 0 .. 2 /\ seen.frames \in 0 .. MinFrames /\ seen.age \in Ages
        /\ seen.calm \in Ages /\ rule.rest \in Ages
    BY DEF Follows, TypeOK
  <2>2. seen.told <= 1 /\ (rule.releasing => rule.rest <= seen.calm)
    BY DEF Follows, RuleFollows, OneCue
  <2>3. /\ Older(seen.calm, dt) \in Ages /\ Older(rule.rest, dt) \in Ages
        /\ Older(seen.age, dt) \in Ages
        /\ rule.rest <= seen.calm => Older(rule.rest, dt) <= Older(seen.calm, dt)
    BY <2>1, OlderAge
  <2> QED
    BY <2>1, <2>2, <2>3
<1>4. stays <=> Stays(view, place, dt)
  BY DEF Stays
<1> HIDE DEF old, stays
<1>5. CASE view = "smiling"
  <2>1. /\ rule'.frames = Smiles(old).frames /\ rule'.age = Smiles(old).age
        /\ rule'.latched = (old.latched \/ Due(old, dt)) /\ ~rule'.releasing
        /\ Smiles(old).frames = Counted(old.frames)
        /\ Smiles(old).age = IF old.frames = 0 THEN 0 ELSE old.age
    BY <1>1, <1>2, <1>5 DEF RuleAfter, Smiles, Tense, Rules
  <2>2. seen'.frames = rule'.frames /\ seen'.age = rule'.age
    BY <1>1, <1>2, <1>3, <1>4, <1>5, <2>1, Times DEF Smiling, NoRule
  <2>3. before = IF stays THEN seen.told ELSE 0
    BY <1>4, <1>5
  <2>4. due => before = 0
    BY <1>1, <1>3, <2>3 DEF Due, Follows, RuleFollows
  <2>5. before \in {0, 1}
    BY <1>3, <2>3
  <2>6. before > 0 => old.latched
    <3>1. seen.told > 0 => rule.latched
      BY DEF Follows, RuleFollows
    <3>2. stays => old.latched = rule.latched
      BY <1>1
    <3>3. before > 0 => stays /\ seen.told > 0
      BY <1>3, <2>3
    <3> QED
      BY <3>1, <3>2, <3>3, Zenon
  <2>7. seen'.told <= 1 /\ (seen'.told > 0 => rule'.latched)
    <3>1. seen'.told = IF due THEN 1 ELSE before
      BY <1>2, <2>4, <2>5
    <3>2. rule'.latched <=> old.latched \/ due
      BY <1>5, <2>1
    <3>3. CASE due
      BY <3>1, <3>2, <3>3
    <3>4. CASE ~due
      BY <2>5, <2>6, <3>1, <3>2, <3>4
    <3> QED
      BY <3>3, <3>4
  <2>8. due => seen'.frames >= MinFrames /\ seen'.age >= Duration
    BY <1>5, <2>1, <2>2 DEF Due
  <2> QED
    BY <1>2, <2>1, <2>2, <2>7, <2>8 DEF RuleFollows, OneCue, CueEarned
<1>6. CASE view = "released"
  <2> DEFINE rest == IF old.releasing THEN old.rest ELSE 0
  <2>1. /\ rule' = Rested(old) /\ ~due
        /\ rule'.frames = 0 /\ rule'.age = 0 /\ rule'.rest = rest
        /\ rule'.latched = (old.latched /\ rest < Release)
    BY <1>2, <1>6 DEF RuleAfter, Rested
  <2>2. seen'.frames = 0 /\ seen'.age = 0 /\ seen'.told = before
    BY <1>2, <1>6, <2>1 DEF Smiling
  <2>3. rest <= calm
    BY <1>1, <1>3, <1>4, <1>6, Times DEF NoRule, Ages
  <2>4. before > 0 => stays /\ calm < Release /\ before = seen.told
    BY <1>3, <1>4, <1>6, Times DEF Ages
  <2>5. before > 0 => rule'.latched
    BY <1>1, <1>3, <2>1, <2>3, <2>4, Times DEF Follows, RuleFollows, Ages, Rules
  <2>6. before <= 1
    BY <1>3
  <2> QED
    BY <1>2, <2>1, <2>2, <2>3, <2>5, <2>6 DEF RuleFollows, OneCue, CueEarned
<1>7. CASE view \notin {"smiling", "released"}
  <2>1. /\ ~due /\ seen'.told = before /\ before = IF stays THEN seen.told ELSE 0
        /\ seen'.frames = 0 /\ seen'.age = 0
    BY <1>2, <1>4, <1>7 DEF Smiling
  <2>2. /\ rule'.frames = 0 /\ rule'.age = 0 /\ rule'.latched = old.latched
        /\ rule'.releasing => view = "missing" /\ old.releasing /\ rule'.rest = old.rest
    <3>1. CASE view = "between"
      <4>1. rule' = Tense(NoCandidate(old))
        BY <1>2, <3>1 DEF RuleAfter
      <4> QED
        BY <1>1, <3>1, <4>1 DEF Tense, NoCandidate, Rules
    <3>2. CASE view = "missing"
      <4>1. rule' = NoCandidate(old)
        BY <1>2, <3>2 DEF RuleAfter
      <4> QED
        BY <1>1, <3>2, <4>1 DEF NoCandidate, Rules
    <3>3. CASE view \notin {"between", "missing"}
      <4>1. rule' = old /\ view \notin OneFace
        BY <1>2, <1>7, <3>3 DEF RuleAfter, OneFace
      <4> QED
        BY <1>1, <1>4, <4>1 DEF NoRule, Stays
    <3> QED
      BY <3>1, <3>2, <3>3, Zenon
  <2>3. rule'.releasing => rule'.rest <= seen'.calm
    <3> SUFFICES ASSUME rule'.releasing PROVE rule'.rest <= seen'.calm
      OBVIOUS
    <3>1. stays
      BY <1>1, <2>2 DEF NoRule
    <3> QED
      BY <1>1, <1>2, <1>3, <1>4, <2>2, <3>1
  <2>4. seen'.told <= 1 /\ (seen'.told > 0 => rule'.latched)
    BY <1>1, <1>3, <2>1, <2>2 DEF Follows, RuleFollows
  <2> QED
    BY <1>2, <2>1, <2>2, <2>3, <2>4 DEF RuleFollows, OneCue, CueEarned
<1> QED
  BY <1>5, <1>6, <1>7
\* The track and the absence follow the frames, and so does what is told of them.
LEMMA FrameKeepsTrack ==
  ASSUME Follows, NEW view \in Views, NEW place \in Places, NEW dt \in Nat,
         Frame(view, place, dt)
  PROVE  TrackFollows' /\ PresenceSteady'
<1>1. /\ TrackFollows /\ (view \in OneFace => (SameFace(place, dt) <=> Stays(view, place, dt)))
  BY SameIsStays DEF Follows
<1>2. /\ track' = TrackAfter(view, place, dt) /\ absent' = AbsentAfter(view, dt)
      /\ seen'.last = CASE view = "none" -> "nobody" [] view \in OneFace -> "alone"
                        [] OTHER -> "else"
      /\ seen'.place = IF view \in OneFace THEN place ELSE NoTrack.place
      /\ seen'.steady = IF Stays(view, place, dt) THEN Older(seen.steady, dt) ELSE 0
      /\ seen'.empty = IF view = "none" /\ seen.last = "nobody" /\ dt <= Gap
                       THEN Older(seen.empty, dt) ELSE 0
  BY DEF Frame, Witness
<1>3. /\ track'.on <=> seen'.last = "alone"
      /\ track'.on => track'.place = seen'.place
      /\ track'.age = seen'.steady
  <2>1. CASE view \in OneFace
    BY <1>1, <1>2, <2>1 DEF TrackAfter, TrackFollows, OneFace
  <2>2. CASE view \notin OneFace
    BY <1>2, <2>2 DEF TrackAfter, NoTrack, Stays
  <2> QED
    BY <2>1, <2>2
<1>4. /\ absent'.on <=> seen'.last = "nobody"
      /\ absent'.age = seen'.empty
  <2>1. CASE view = "none"
    <3>1. absent' = [on |-> TRUE, age |-> IF absent.on /\ ~Paused(dt) THEN Older(absent.age, dt) ELSE 0]
      BY <1>2, <2>1 DEF AbsentAfter
    <3>2. (absent.on /\ ~Paused(dt)) <=> (seen.last = "nobody" /\ dt <= Gap)
      BY <1>1, Times DEF TrackFollows, Paused
    <3>3. absent.age = seen.empty
      BY <1>1 DEF TrackFollows
    <3>4. absent'.on /\ seen'.last = "nobody"
      BY <1>2, <2>1, <3>1 DEF OneFace
    <3>5. CASE seen.last = "nobody" /\ dt <= Gap
      BY <1>2, <2>1, <3>1, <3>2, <3>3, <3>4, <3>5
    <3>6. CASE ~(seen.last = "nobody" /\ dt <= Gap)
      BY <1>2, <2>1, <3>1, <3>2, <3>4, <3>6
    <3> QED
      BY <3>5, <3>6
  <2>2. CASE view # "none"
    BY <1>2, <2>2 DEF AbsentAfter, NotAbsent
  <2> QED
    BY <2>1, <2>2
<1>5. PresenceSteady'
  <2> SUFFICES ASSUME sent'.status
      PROVE  /\ status'.key = "absent" => seen'.empty >= Absent
             /\ status'.key = "visible" => seen'.steady >= Settle
    BY DEF PresenceSteady
  <2>1. status'.key = KeyOf(view)
    BY DEF Frame
  <2>2. seen'.empty \in Ages /\ seen'.steady \in Ages
    <3>1. seen.empty \in Ages /\ seen.steady \in Ages
      BY DEF Follows, TypeOK
    <3> QED
      BY <1>2, <3>1, OlderAge, Beginnings
  <2>3. KeyOf(view) = "absent" => view = "none" /\ ~(absent'.age < Absent)
    BY DEF KeyOf, Views
  <2>4. KeyOf(view) = "visible" => ~(track'.age < Settle)
    BY DEF KeyOf, Views
  <2> QED
    BY <1>3, <1>4, <2>1, <2>2, <2>3, <2>4, Times DEF Ages
<1> QED
  BY <1>3, <1>4, <1>5 DEF TrackFollows

LEMMA FrameKeepsType ==
  ASSUME Follows, NEW view \in Views, NEW place \in Places, NEW dt \in Nat,
         Frame(view, place, dt), OneCue'
  PROVE  TypeOK'
<1> USE DEF Follows
<1>1. track' \in [on : BOOLEAN, place : Places, age : Ages]
  <2>1. track.age \in Ages
    BY DEF TypeOK
  <2> QED
    BY <2>1, OlderAge, Beginnings DEF Frame, TrackAfter
<1>2. rule' \in Rules
  <2>1. rule' = RuleAfter(view, RuleBefore(view, place, dt), dt)
    BY DEF Frame
  <2>2. RuleBefore(view, place, dt) \in Rules /\ quiet \in Ages
    BY RuleBeforeFound DEF TypeOK
  <2> QED
    BY <2>1, <2>2, RuleAfterType
<1>3. absent' \in [on : BOOLEAN, age : Ages]
  <2>1. absent.age \in Ages
    BY DEF TypeOK
  <2> QED
    BY <2>1, OlderAge, Beginnings DEF Frame, AbsentAfter, NotAbsent
<1>4. quiet' \in Ages /\ sent' \in [status : BOOLEAN, cue : BOOLEAN]
  <2>1. quiet \in Ages /\ Older(quiet, dt) \in Ages
    BY OlderAge DEF TypeOK
  <2>2. Tells(view, dt) \in BOOLEAN /\ (view = "smiling" /\ Due(RuleBefore(view, place, dt), dt)) \in BOOLEAN
    BY DEF Tells, Due
  <2> QED
    BY <2>1, <2>2, Beginnings DEF Frame
<1>5. status' \in [key : Keys, age : Ages]
  <2>1. status.key \in Keys /\ status.age \in Ages
    BY DEF TypeOK
  <2>2. KeyOf(view) \in Keys
    BY DEF KeyOf, Keys
  <2>3. Older(status.age, dt) \in Ages
    BY <2>1, OlderAge
  <2>4. CASE Tells(view, dt)
    BY <2>2, <2>4, Beginnings DEF Frame
  <2>5. CASE ~Tells(view, dt)
    <3>1. status' = [status EXCEPT !.age = Older(@, dt)] /\ status \in [key : Keys, age : Ages]
      BY <2>5 DEF Frame, TypeOK
    <3> QED
      BY <2>3, <3>1
  <2> QED
    BY <2>4, <2>5
<1>6. seen' \in [last : {"nobody", "alone", "else"}, place : Places,
                 frames : 0 .. MinFrames, age : Ages, steady : Ages, empty : Ages,
                 calm : Ages, told : 0 .. 2]
  <2>1. /\ seen.frames \in 0 .. MinFrames /\ seen.age \in Ages /\ seen.steady \in Ages
        /\ seen.empty \in Ages /\ seen.calm \in Ages /\ seen.told \in {0, 1}
        /\ NoTrack.place \in Places
    <3>1. seen.told \in 0 .. 2 /\ seen.told <= 1
      BY DEF TypeOK, OneCue
    <3> QED
      BY <3>1, Beginnings DEF TypeOK
  <2>2. /\ Older(seen.age, dt) \in Ages /\ Older(seen.steady, dt) \in Ages
        /\ Older(seen.empty, dt) \in Ages /\ Older(seen.calm, dt) \in Ages
        /\ Counted(seen.frames) \in 0 .. MinFrames /\ Counted(0) \in 0 .. MinFrames
    BY <2>1, OlderAge, CountedFrames
  <2>3. /\ Smiling(view, place, dt).frames \in 0 .. MinFrames
        /\ Smiling(view, place, dt).age \in Ages
    BY <2>2, Beginnings DEF Smiling
  <2> QED
    BY <2>1, <2>2, <2>3, Beginnings DEF Frame, Witness
<1> QED
  BY <1>1, <1>2, <1>3, <1>4, <1>5, <1>6 DEF TypeOK, Rules

LEMMA Keeps == Follows /\ [Next]_vars => Follows'
<1> SUFFICES ASSUME Follows, [Next]_vars PROVE Follows'
  OBVIOUS
<1>1. ASSUME NEW view \in Views, NEW place \in Places, NEW dt \in 1 .. Gap + 1,
             Frame(view, place, dt)
      PROVE  Follows'
  <2>1. dt \in Nat
    BY Times
  <2>2. RuleFollows' /\ OneCue' /\ CueEarned'
    BY <1>1, <2>1, FrameKeepsRule
  <2>3. TrackFollows' /\ PresenceSteady'
    BY <1>1, <2>1, FrameKeepsTrack
  <2>4. TypeOK'
    BY <1>1, <2>1, <2>2, FrameKeepsType
  <2> QED
    BY <2>2, <2>3, <2>4 DEF Follows, SentFollows
<1>2. CASE Rejected
  BY <1>2 DEF Rejected, Follows, TypeOK, TrackFollows, RuleFollows, OneCue, SentFollows,
              CueEarned, PresenceSteady
<1>3. CASE UNCHANGED vars
  BY <1>3 DEF vars, Follows, TypeOK, TrackFollows, RuleFollows, OneCue, SentFollows,
              CueEarned, PresenceSteady
<1> QED
  BY <1>1, <1>2, <1>3 DEF Next

-----------------------------------------------------------------------------
(* The theorems. *)

(* The engine's state follows the frames: the inductive invariant, and     *)
(* with it type correctness (face_cues.py, FaceCueEngine.update).          *)
THEOREM FollowsAlways == Spec => []Follows
<1> QED
  BY Begins, Keeps, PTL DEF Spec

(* Every cue was earned by an unbroken smile of one face (face_cues.py     *)
(* lines 121 to 136).                                                      *)
THEOREM CueEarnedAlways == Spec => []CueEarned
<1>1. Follows => CueEarned
  BY DEF Follows, SentFollows
<1> QED
  BY <1>1, FollowsAlways, PTL

(* No second cue before the mouth was calm (face_cues.py lines 122 to 127).*)
THEOREM OneCueAlways == Spec => []OneCue
<1>1. Follows => OneCue
  BY DEF Follows
<1> QED
  BY <1>1, FollowsAlways, PTL

(* Presence and absence are told of only when they have lasted             *)
(* (face_cues.py lines 83 to 117).                                         *)
THEOREM PresenceSteadyAlways == Spec => []PresenceSteady
<1>1. Follows => PresenceSteady
  BY DEF Follows, SentFollows
<1> QED
  BY <1>1, FollowsAlways, PTL
=============================================================================
