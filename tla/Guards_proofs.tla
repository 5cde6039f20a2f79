---------------------------- MODULE Guards_proofs ---------------------------
(***************************************************************************)
(* MotorsCared, for any number of faults and of failing calls.  The        *)
(* motors of a daemon that runs are a matter of who restarted it, and the  *)
(* restart has to be followed from the moment its job was accepted: two    *)
(* watchers may each have asked for it, and each gives up by itself.       *)
(***************************************************************************)
EXTENDS Guards, TLAPS

\* Somebody waits for every restart under way, unless a call failed.
RestartAwaited ==
  trouble = 0 /\ (daemon.job \/ daemon.state = "starting") =>
    guard.at = "waits" \/ watch.at = "polls"

Cared == TypeOK /\ RestartAwaited /\ MotorsCared

\* What one action of a watcher or of the world may do to them.
LEMMA TroubleCounts ==
  ASSUME TypeOK, Trouble
  PROVE  trouble' \in 0 .. MaxTrouble /\ trouble' # 0
BY BoundsAssumption DEF TypeOK, Trouble

LEMMA GuardFailsTyped ==
  ASSUME GuardFails
  PROVE  guard' \in [at : {"idle", "posts", "waits", "enables", "verifies"}, held : BOOLEAN]
BY DEF GuardFails

LEMMA GuardingTyped ==
  ASSUME TypeOK, NEW at \in {"idle", "posts", "waits", "enables", "verifies"}, Guarding(at)
  PROVE  /\ guard' \in [at : {"idle", "posts", "waits", "enables", "verifies"}, held : BOOLEAN]
         /\ guard'.at = at
BY DEF Guarding, TypeOK

Watchings == [at : {"idle", "posts", "polls", "enables", "stops", "launches"},
              reviving : BOOLEAN, held : BOOLEAN, fixHeld : BOOLEAN]

LEMMA WatchingTyped ==
  ASSUME TypeOK, NEW at \in {"idle", "posts", "polls", "enables", "stops", "launches"}, Watching(at)
  PROVE  watch' \in Watchings /\ watch'.at = at
BY DEF Watching, TypeOK, Watchings

LEMMA WatchDoneTyped ==
  ASSUME TypeOK, WatchDone \/ WatchRaises
  PROVE  watch' \in Watchings /\ watch'.at = "idle"
<1>1. CASE WatchDone
  <2>1. /\ (watch.held \/ ~watch.reviving) \in BOOLEAN
        /\ (watch.fixHeld \/ watch.reviving) \in BOOLEAN
    BY DEF TypeOK
  <2> QED
    BY <1>1, <2>1 DEF WatchDone, TypeOK, Watchings
<1>2. CASE WatchRaises
  BY <1>2 DEF WatchRaises, TypeOK, Watchings
<1> QED
  BY <1>1, <1>2

LEMMA MotorsEnabled ==
  ASSUME TypeOK, EnablesMotors
  PROVE  /\ daemon' \in [state : {"running", "error", "stopped", "starting"},
                         motors : BOOLEAN, job : BOOLEAN]
         /\ daemon'.state = daemon.state /\ daemon'.job = daemon.job
         /\ Enabled => daemon'.motors
BY DEF EnablesMotors, TypeOK

LEMMA Begins == Init => Cared
BY BoundsAssumption DEF Init, Cared, TypeOK, RestartAwaited, MotorsCared, Fresh

LEMMA WorldKeeps ==
  ASSUME Cared, Daemon \/ World \/ HubReturns
  PROVE  Cared'
<1> USE DEF Cared
<1>1. CASE MotorFault
  BY <1>1 DEF MotorFault, BackendGone, TypeOK, RestartAwaited, MotorsCared, Running
<1>2. CASE JobBegins
  BY <1>2 DEF JobBegins, TypeOK, RestartAwaited, MotorsCared, Running
<1>3. CASE JobEnds
  BY <1>3 DEF JobEnds, TypeOK, RestartAwaited, MotorsCared, Running
<1>4. CASE HubDrops \/ HubReturns
  <2>1. hub' \in BOOLEAN /\ UNCHANGED <<daemon, app, guard, watch, trouble>>
    BY <1>4 DEF HubDrops, HubReturns
  <2>2. faults' \in 0 .. MaxFaults
    BY <1>4, BoundsAssumption DEF HubDrops, HubReturns, TypeOK
  <2>3. TypeOK'
    BY <2>1, <2>2 DEF TypeOK
  <2> QED
    BY <2>1, <2>3 DEF RestartAwaited, MotorsCared, Running
<1>5. CASE OperatorStops
  <2>1. faults' \in 0 .. MaxFaults
    BY <1>5, BoundsAssumption DEF OperatorStops, TypeOK
  <2>2. TypeOK' /\ daemon'.state = "stopped" /\ daemon'.job = daemon.job
    BY <1>5, <2>1 DEF OperatorStops, BackendGone, TypeOK
  <2> QED
    BY <1>5, <2>2 DEF OperatorStops, RestartAwaited, MotorsCared, Running
<1>6. CASE UserSpeaks \/ Answers \/ SendsAge
  BY <1>6 DEF UserSpeaks, Answers, SendsAge, TypeOK, RestartAwaited, MotorsCared, Running
<1>7. CASE SessionFails
  BY <1>7, BoundsAssumption DEF SessionFails, TypeOK, RestartAwaited, MotorsCared, Running
<1> QED
  BY <1>1, <1>2, <1>3, <1>4, <1>5, <1>6, <1>7 DEF Daemon, World

LEMMA GuardKeeps ==
  ASSUME Cared, Guard \/ GuardReady
  PROVE  Cared'
<1> USE DEF Cared
<1>1. CASE GuardSees
  BY <1>1, GuardingTyped DEF GuardSees, TypeOK, RestartAwaited, MotorsCared, Running, FaultStates
<1>2. CASE GuardPosts
  <2>1. CASE Accepted /\ Guarding("waits") /\ NoTrouble
    <3>1. guard' \in [at : {"idle", "posts", "waits", "enables", "verifies"}, held : BOOLEAN]
          /\ guard'.at = "waits"
      BY <2>1, GuardingTyped
    <3>2. TypeOK' /\ daemon'.job
      BY <1>2, <2>1, <3>1 DEF GuardPosts, Accepted, NoTrouble, TypeOK
    <3> QED
      BY <3>1, <3>2 DEF RestartAwaited, MotorsCared
  <2>2. CASE GuardFails /\ Trouble /\ UNCHANGED daemon
    BY <1>2, <2>2, GuardFailsTyped, TroubleCounts DEF GuardPosts, TypeOK, RestartAwaited, MotorsCared
  <2> QED
    BY <1>2, <2>1, <2>2 DEF GuardPosts
<1>3. CASE GuardWaits
  <2>1. CASE CameBack /\ Guarding("enables") /\ NoTrouble
    BY <1>3, <2>1, GuardingTyped DEF GuardWaits, CameBack, NoTrouble, TypeOK, RestartAwaited, MotorsCared, Running
  <2>2. CASE daemon.state \in {"error", "stopped"} /\ GuardFails /\ NoTrouble
    BY <1>3, <2>2, GuardFailsTyped DEF GuardWaits, NoTrouble, TypeOK, RestartAwaited, MotorsCared, Running
  <2>3. CASE GuardFails /\ Trouble
    BY <1>3, <2>3, GuardFailsTyped, TroubleCounts DEF GuardWaits, TypeOK, RestartAwaited, MotorsCared
  <2> QED
    BY <1>3, <2>1, <2>2, <2>3 DEF GuardWaits
<1>4. CASE GuardEnables
  <2>1. CASE EnablesMotors /\ NoTrouble /\ (IF Enabled THEN Guarding("verifies") ELSE GuardFails)
    <3>1. guard' \in [at : {"idle", "posts", "waits", "enables", "verifies"}, held : BOOLEAN]
      BY <2>1, GuardFailsTyped, GuardingTyped
    <3> QED
      BY <1>4, <2>1, <3>1, MotorsEnabled DEF GuardEnables, NoTrouble, Enabled, TypeOK, RestartAwaited, MotorsCared, Running
  <2>2. CASE GuardFails /\ Trouble /\ UNCHANGED daemon
    BY <1>4, <2>2, GuardFailsTyped, TroubleCounts DEF GuardEnables, TypeOK, RestartAwaited, MotorsCared
  <2> QED
    BY <1>4, <2>1, <2>2 DEF GuardEnables
<1>5. CASE GuardVerifies
  <2>1. guard' \in [at : {"idle", "posts", "waits", "enables", "verifies"}, held : BOOLEAN]
    BY <1>5, GuardFailsTyped, GuardingTyped DEF GuardVerifies, RestartConversation
  <2>2. /\ UNCHANGED <<hub, daemon, watch, faults, app>> /\ guard.at = "verifies"
        /\ NoTrouble \/ Trouble
    BY <1>5 DEF GuardVerifies, RestartConversation
  <2>3. CASE NoTrouble
    BY <2>1, <2>2, <2>3 DEF NoTrouble, TypeOK, RestartAwaited, MotorsCared, Running
  <2>4. CASE Trouble
    BY <2>1, <2>2, <2>4, TroubleCounts DEF TypeOK, RestartAwaited, MotorsCared
  <2> QED
    BY <2>2, <2>3, <2>4
<1>6. CASE GuardReady
  <2>1. guard'.at = guard.at /\ UNCHANGED <<hub, daemon, app, watch, faults, trouble>>
    BY <1>6 DEF GuardReady, TypeOK
  <2>2. TypeOK'
    BY <1>6, <2>1 DEF GuardReady, TypeOK
  <2> QED
    BY <2>1, <2>2 DEF RestartAwaited, MotorsCared, Running
<1> QED
  BY <1>1, <1>2, <1>3, <1>4, <1>5, <1>6 DEF Guard

LEMMA WatchKeeps ==
  ASSUME Cared, Watch \/ WatchReady
  PROVE  Cared'
<1> USE DEF Cared, Watchings
<1>1. CASE WatchSees
  BY <1>1 DEF WatchSees, SeesError, TypeOK, RestartAwaited, MotorsCared, Running
<1>2. CASE WatchJudges
  <2>1. watch' \in Watchings /\ watch.at = "idle" /\ UNCHANGED <<hub, daemon, app, guard, faults>>
    BY <1>2, WatchingTyped DEF WatchJudges
  <2>2. CASE NoTrouble
    BY <2>1, <2>2 DEF NoTrouble, TypeOK, RestartAwaited, MotorsCared, Running
  <2>3. CASE Trouble
    BY <2>1, <2>3, TroubleCounts DEF TypeOK, RestartAwaited, MotorsCared
  <2> QED
    BY <1>2, <2>2, <2>3 DEF WatchJudges
<1>3. CASE WatchPosts
  <2>1. CASE Accepted /\ Watching("polls") /\ NoTrouble
    BY <1>3, <2>1, WatchingTyped DEF WatchPosts, Accepted, NoTrouble, TypeOK, RestartAwaited, MotorsCared
  <2>2. CASE WatchDone /\ Trouble /\ UNCHANGED daemon
    BY <1>3, <2>2, WatchDoneTyped, TroubleCounts DEF WatchPosts, TypeOK, RestartAwaited, MotorsCared
  <2> QED
    BY <1>3, <2>1, <2>2 DEF WatchPosts
<1>4. CASE WatchPolls
  <2>1. CASE Running /\ Watching("enables") /\ NoTrouble
    BY <1>4, <2>1, WatchingTyped DEF WatchPolls, NoTrouble, TypeOK, RestartAwaited, MotorsCared, Running
  <2>2. CASE daemon.state \in {"error", "stopped"} /\ WatchDone /\ NoTrouble
    BY <1>4, <2>2, WatchDoneTyped DEF WatchPolls, NoTrouble, TypeOK, RestartAwaited, MotorsCared, Running
  <2>3. CASE WatchDone /\ Trouble
    BY <1>4, <2>3, WatchDoneTyped, TroubleCounts DEF WatchPolls, TypeOK, RestartAwaited, MotorsCared
  <2> QED
    BY <1>4, <2>1, <2>2, <2>3 DEF WatchPolls
<1>5. CASE WatchEnables
  <2>1. watch' \in Watchings /\ watch'.at = "stops" /\ watch.at = "enables"
        /\ UNCHANGED <<hub, app, guard, faults>>
    BY <1>5, WatchingTyped DEF WatchEnables
  <2>2. CASE EnablesMotors /\ NoTrouble
    BY <2>1, <2>2, MotorsEnabled DEF NoTrouble, Enabled, TypeOK, RestartAwaited, MotorsCared, Running
  <2>3. CASE UNCHANGED daemon /\ Trouble
    BY <2>1, <2>3, TroubleCounts DEF TypeOK, RestartAwaited, MotorsCared
  <2> QED
    BY <1>5, <2>2, <2>3 DEF WatchEnables
<1>6. CASE WatchStops
  <2>1. watch' \in Watchings /\ watch.at = "stops" /\ UNCHANGED <<hub, daemon, guard, faults>>
    BY <1>6, WatchingTyped, WatchDoneTyped DEF WatchStops
  <2>2. app' \in [up : BOOLEAN, attached : BOOLEAN, session : {"live", "dead", "deaf"},
                  log : {"quiet", "answered", "heard", "deaf"}]
    BY <1>6 DEF WatchStops, TypeOK
  <2>3. CASE NoTrouble
    BY <2>1, <2>2, <2>3 DEF NoTrouble, TypeOK, RestartAwaited, MotorsCared, Running
  <2>4. CASE Trouble
    BY <2>1, <2>2, <2>4, TroubleCounts DEF TypeOK, RestartAwaited, MotorsCared
  <2> QED
    BY <1>6, <2>3, <2>4 DEF WatchStops
<1>7. CASE WatchLaunches
  <2>1. watch' \in Watchings
    BY <1>7, WatchDoneTyped DEF WatchLaunches
  <2> QED
    BY <1>7, <2>1 DEF WatchLaunches, Fresh, TypeOK, RestartAwaited, MotorsCared, Running
<1>8. CASE WatchReady
  <2>1. watch' \in Watchings /\ watch'.at = watch.at /\ UNCHANGED <<hub, daemon, app, guard, faults, trouble>>
    BY <1>8 DEF WatchReady, TypeOK
  <2>2. TypeOK'
    BY <2>1 DEF TypeOK
  <2> QED
    BY <2>1, <2>2 DEF RestartAwaited, MotorsCared, Running
<1> QED
  BY <1>1, <1>2, <1>3, <1>4, <1>5, <1>6, <1>7, <1>8 DEF Watch

(* The inductive invariant: types, awaited restarts and cared motors       *)
(* (robot_guard.py recover, conversation_watchdog.py revive_daemon).       *)
THEOREM CaredAlways == Spec => []Cared
<1>1. Cared /\ UNCHANGED vars => Cared'
  BY DEF vars, Cared, TypeOK, RestartAwaited, MotorsCared, Running
<1>2. Cared /\ [Next]_vars => Cared'
  BY <1>1, WorldKeeps, GuardKeeps, WatchKeeps DEF Next
<1> QED
  BY <1>2, Begins, PTL DEF Spec

(* Motors that came back disabled have somebody who enables them           *)
(* (robot_guard.py lines 129 to 155).                                      *)
THEOREM MotorsCaredAlways == Spec => []MotorsCared
<1>1. Cared => MotorsCared
  BY DEF Cared
<1> QED
  BY <1>1, CaredAlways, PTL
=============================================================================
