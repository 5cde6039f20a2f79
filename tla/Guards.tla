------------------------------- MODULE Guards -------------------------------
(***************************************************************************)
(* The two watchers of the robot, tools/robot_guard.py and                 *)
(* tools/conversation_watchdog.py, each a process that polls, and what     *)
(* they watch: the daemon, whose motors hang off a USB hub that drops off  *)
(* the bus, and the conversation app, whose session goes quiet and whose   *)
(* link to a daemon that went away does not come back.                     *)
(*                                                                         *)
(* Both restart the same daemon, and neither knows of the other.  The      *)
(* cooldowns and the backoff are flags that time clears at any moment, the *)
(* app's log is what scan makes of it, and the memory facts are left out.  *)
(* A restart has begun before anybody reads the daemon again: the guard    *)
(* waits SETTLE seconds and the watchdog three.                            *)
(***************************************************************************)
EXTENDS Naturals

CONSTANTS
  MaxFaults,   \* bound: how often the hub drops or the daemon is stopped
  MaxTrouble   \* bound: calls that fail although the daemon runs

ASSUME BoundsAssumption == MaxFaults \in Nat /\ MaxTrouble \in Nat

VARIABLES
  hub,      \* the motors' serial port is there
  daemon,   \* state, motors, and a lifecycle job that was accepted
  app,      \* up, its link to the daemon, its session, and what its log shows
  guard,    \* robot_guard: where it is, and whether it holds off
  watch,    \* conversation_watchdog: where it is, what for, and its cooldowns
  faults, trouble

vars == <<hub, daemon, app, guard, watch, faults, trouble>>

TypeOK ==
  /\ hub \in BOOLEAN
  /\ daemon \in [state : {"running", "error", "stopped", "starting"},
                 motors : BOOLEAN, job : BOOLEAN]
  /\ app \in [up : BOOLEAN, attached : BOOLEAN, session : {"live", "dead", "deaf"},
              log : {"quiet", "answered", "heard", "deaf"}]
  /\ guard \in [at : {"idle", "posts", "waits", "enables", "verifies"}, held : BOOLEAN]
  /\ watch \in [at : {"idle", "posts", "polls", "enables", "stops", "launches"},
                reviving : BOOLEAN, held : BOOLEAN, fixHeld : BOOLEAN]
  /\ faults \in 0 .. MaxFaults /\ trouble \in 0 .. MaxTrouble

Fresh == [up |-> TRUE, attached |-> TRUE, session |-> "live", log |-> "quiet"]

Init ==
  /\ hub = TRUE
  /\ daemon = [state |-> "running", motors |-> TRUE, job |-> FALSE]
  /\ app = Fresh
  /\ guard = [at |-> "idle", held |-> FALSE]
  /\ watch = [at |-> "idle", reviving |-> FALSE, held |-> FALSE, fixHeld |-> FALSE]
  /\ faults = 0 /\ trouble = 0

Running == daemon.state = "running"
Trouble == trouble < MaxTrouble /\ trouble' = trouble + 1
NoTrouble == UNCHANGED trouble

-----------------------------------------------------------------------------
(* The daemon and the hub. *)

\* The backend is gone, and with it every link of a client.
BackendGone(state) ==
  /\ daemon' = [daemon EXCEPT !.state = state, !.motors = FALSE]
  /\ app' = [app EXCEPT !.attached = FALSE]

HubDrops ==
  /\ hub /\ faults < MaxFaults
  /\ hub' = FALSE /\ faults' = faults + 1
  /\ UNCHANGED <<daemon, app, guard, watch, trouble>>

HubReturns ==
  /\ ~hub /\ hub' = TRUE
  /\ UNCHANGED <<daemon, app, guard, watch, faults, trouble>>

MotorFault ==
  /\ Running /\ ~hub /\ BackendGone("error")
  /\ UNCHANGED <<hub, guard, watch, faults, trouble>>

OperatorStops ==
  /\ Running /\ faults < MaxFaults
  /\ BackendGone("stopped") /\ faults' = faults + 1
  /\ UNCHANGED <<hub, guard, watch, trouble>>

JobBegins ==
  /\ daemon.job
  /\ daemon' = [state |-> "starting", motors |-> FALSE, job |-> FALSE]
  /\ app' = [app EXCEPT !.attached = FALSE]
  /\ UNCHANGED <<hub, guard, watch, faults, trouble>>

JobEnds ==
  /\ daemon.state = "starting" /\ ~daemon.job
  /\ daemon' = [daemon EXCEPT !.state = IF hub THEN "running" ELSE "error"]
  /\ UNCHANGED <<hub, app, guard, watch, faults, trouble>>

Accepted == daemon' = [daemon EXCEPT !.job = TRUE]

Enabled == Running /\ ~daemon.job
EnablesMotors == IF Enabled THEN daemon' = [daemon EXCEPT !.motors = TRUE] ELSE UNCHANGED daemon

-----------------------------------------------------------------------------
(* The conversation app and the people in the room. *)

UserSpeaks ==
  /\ app.up /\ app.attached
  /\ app' = [app EXCEPT !.log = IF app.session = "deaf" THEN "deaf" ELSE "heard"]
  /\ UNCHANGED <<hub, daemon, guard, watch, faults, trouble>>

Answers ==
  /\ app.up /\ app.session = "live" /\ app.log = "heard"
  /\ app' = [app EXCEPT !.log = "answered"]
  /\ UNCHANGED <<hub, daemon, guard, watch, faults, trouble>>

SessionFails ==
  /\ app.up /\ app.session = "live" /\ faults < MaxFaults
  /\ \E session \in {"dead", "deaf"} : app' = [app EXCEPT !.session = session]
  /\ faults' = faults + 1
  /\ UNCHANGED <<hub, daemon, guard, watch, trouble>>

\* Nothing was sent for deaf_grace seconds.
SendsAge ==
  /\ app.log = "deaf" /\ watch.at = "idle"
  /\ app' = [app EXCEPT !.log = "quiet"]
  /\ UNCHANGED <<hub, daemon, guard, watch, faults, trouble>>

-----------------------------------------------------------------------------
(* robot_guard. *)

Guarding(at) == guard' = [guard EXCEPT !.at = at]

\* The attempt counts: the next one waits for the backoff.
GuardFails == guard' = [at |-> "idle", held |-> TRUE]

\* MUTANT: only the error of the daemon is a fault.
ErrorOnly == {"error"}

FaultStates == {"error", "stopped"}

GuardSees ==
  /\ guard.at = "idle" /\ ~guard.held /\ ~daemon.job
  /\ daemon.state \in FaultStates
  /\ Guarding("posts")
  /\ UNCHANGED <<hub, daemon, app, watch, faults, trouble>>

GuardPosts ==
  /\ guard.at = "posts"
  /\ \/ Accepted /\ Guarding("waits") /\ NoTrouble
     \/ GuardFails /\ Trouble /\ UNCHANGED daemon
  /\ UNCHANGED <<hub, app, watch, faults>>

\* MUTANT: whatever is no error has come back.
NoError == daemon.state # "error"

CameBack == Running

\* wait_for_running, up to its deadline.
GuardWaits ==
  /\ guard.at = "waits" /\ ~daemon.job
  /\ \/ CameBack /\ Guarding("enables") /\ NoTrouble
     \/ daemon.state = "error" /\ GuardFails /\ NoTrouble
     \/ daemon.state = "stopped" /\ GuardFails /\ NoTrouble
     \/ GuardFails /\ Trouble
  /\ UNCHANGED <<hub, daemon, app, watch, faults>>

GuardEnables ==
  /\ guard.at = "enables"
  /\ \/ EnablesMotors /\ NoTrouble
        /\ IF Enabled THEN Guarding("verifies") ELSE GuardFails
     \/ GuardFails /\ Trouble /\ UNCHANGED daemon
  /\ UNCHANGED <<hub, app, watch, faults>>

\* restart_conversation names ROOT, which the module does not define: the tick
\* ends in the handler of main, and neither the app nor the attempt is touched.
RestartConversation == Guarding("idle") /\ UNCHANGED app

GuardVerifies ==
  /\ guard.at = "verifies"
  /\ \/ /\ Running /\ daemon.motors
        /\ RestartConversation /\ NoTrouble
     \/ /\ ~(Running /\ daemon.motors)
        /\ GuardFails /\ NoTrouble /\ UNCHANGED app
     \/ GuardFails /\ Trouble /\ UNCHANGED app
  /\ UNCHANGED <<hub, daemon, watch, faults>>

GuardReady ==
  /\ guard.at = "idle" /\ guard.held
  /\ guard' = [guard EXCEPT !.held = FALSE]
  /\ UNCHANGED <<hub, daemon, app, watch, faults, trouble>>

-----------------------------------------------------------------------------
(* conversation_watchdog. *)

Watching(at) == watch' = [watch EXCEPT !.at = at]

\* The tick is over, and its cooldown begins.
WatchDone ==
  watch' = [watch EXCEPT !.at = "idle", !.reviving = FALSE,
                         !.held = @ \/ ~watch.reviving,
                         !.fixHeld = @ \/ watch.reviving]

\* The tick raised: no cooldown is recorded.
WatchRaises == watch' = [watch EXCEPT !.at = "idle", !.reviving = FALSE]

SeesError == daemon.state = "error" /\ ~watch.fixHeld

WatchSees ==
  /\ watch.at = "idle" /\ ~daemon.job /\ SeesError
  /\ watch' = [watch EXCEPT !.at = "posts", !.reviving = TRUE]
  /\ UNCHANGED <<hub, daemon, app, guard, faults, trouble>>

\* Audio goes out, and not even a partial transcript comes back.
Deaf == app.log = "deaf"

\* The grace is over at any moment: a slow answer may be on its way.
Unanswered == app.log = "heard"

WatchJudges ==
  /\ watch.at = "idle" /\ ~watch.held
  /\ \/ ~SeesError /\ NoTrouble
     \/ SeesError /\ Trouble
  /\ Deaf \/ Unanswered
  /\ Watching("stops")
  /\ UNCHANGED <<hub, daemon, app, guard, faults>>

\* revive_daemon.
WatchPosts ==
  /\ watch.at = "posts"
  /\ \/ Accepted /\ Watching("polls") /\ NoTrouble
     \/ WatchDone /\ Trouble /\ UNCHANGED daemon
  /\ UNCHANGED <<hub, app, guard, faults>>

WatchPolls ==
  /\ watch.at = "polls" /\ ~daemon.job
  /\ \/ Running /\ Watching("enables") /\ NoTrouble
     \/ daemon.state \in {"error", "stopped"} /\ WatchDone /\ NoTrouble
     \/ WatchDone /\ Trouble
  /\ UNCHANGED <<hub, daemon, app, guard, faults>>

\* The answer of the daemon is not looked at.
WatchEnables ==
  /\ watch.at = "enables" /\ Watching("stops")
  /\ \/ EnablesMotors /\ NoTrouble
     \/ UNCHANGED daemon /\ Trouble
  /\ UNCHANGED <<hub, app, guard, faults>>

\* restart: TimeoutExpired is neither OSError nor ValueError.
WatchStops ==
  /\ watch.at = "stops"
  /\ \/ app' = [app EXCEPT !.up = FALSE] /\ Watching("launches") /\ NoTrouble
     \/ app' \in {app, [app EXCEPT !.up = FALSE]} /\ WatchRaises /\ Trouble
  /\ UNCHANGED <<hub, daemon, guard, faults>>

\* start_conversation.ps1 refuses unless the daemon runs; the log starts anew.
WatchLaunches ==
  /\ watch.at = "launches" /\ WatchDone
  /\ app' = IF Running THEN Fresh ELSE app
  /\ UNCHANGED <<hub, daemon, guard, faults, trouble>>

WatchReady ==
  /\ watch.at = "idle"
  /\ \/ watch.held /\ watch' = [watch EXCEPT !.held = FALSE]
     \/ watch.fixHeld /\ watch' = [watch EXCEPT !.fixHeld = FALSE]
  /\ UNCHANGED <<hub, daemon, app, guard, faults, trouble>>

-----------------------------------------------------------------------------
Daemon == MotorFault \/ JobBegins \/ JobEnds
World == HubDrops \/ OperatorStops \/ UserSpeaks \/ Answers \/ SessionFails \/ SendsAge
Guard == GuardSees \/ GuardPosts \/ GuardWaits \/ GuardEnables \/ GuardVerifies
Watch == WatchSees \/ WatchJudges \/ WatchPosts \/ WatchPolls \/ WatchEnables
         \/ WatchStops \/ WatchLaunches

Next == Daemon \/ World \/ HubReturns \/ Guard \/ GuardReady \/ Watch \/ WatchReady

Spec == Init /\ [][Next]_vars

\* The hub comes back, jobs and polls run, and cooldowns end.
FairSpec ==
  Spec /\ WF_vars(Daemon) /\ WF_vars(HubReturns) /\ WF_vars(Guard)
       /\ WF_vars(GuardReady) /\ WF_vars(Watch) /\ WF_vars(WatchReady)

-----------------------------------------------------------------------------
(* Motors that came back disabled are enabled by whoever restarted the     *)
(* daemon last, although the other watcher restarts it as well: unless a   *)
(* call failed, a running daemon without motors has one of the two on the  *)
(* way to enable them (robot_guard.py lines 129 to 133).                   *)
MotorsCared ==
  Running /\ ~daemon.motors /\ ~daemon.job /\ trouble = 0 =>
    \/ guard.at \in {"waits", "enables"}
    \/ watch.at \in {"polls", "enables"}

(* The daemon is brought back from every fault that ends, also when both   *)
(* watchers restart it at once (robot_guard.py lines 213 to 251).          *)
DaemonReturns == []<>Running

(* A user who was heard is answered, or the session is replaced            *)
(* (conversation_watchdog.py lines 262 to 275).                            *)
HeardEnds == app.log = "heard" ~> app.log # "heard"

(* What the two watchers are for.                                          *)
AllRevived == DaemonReturns /\ HeardEnds

(* start_guards.ps1, lines 3 to 5: robot_guard revives the daemon and      *)
(* re-enables the motors, then restarts the conversation app so it         *)
(* re-attaches to it.                                                      *)
AppReattached ==
  [][guard.at = "verifies" /\ guard'.at = "idle" /\ ~guard'.held /\ app.up
     => app'.attached]_vars
=============================================================================
