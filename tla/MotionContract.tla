--------------------------- MODULE MotionContract ---------------------------
(***************************************************************************)
(* What pet_motion promises to a program that uses it: the view of         *)
(* MotionExecutor that the interaction controller relies on.  Requests are *)
(* accepted and their results awaited; one control operation at a time     *)
(* (stop, turn change, close, retirement, review) holds the executor, and  *)
(* when it returns nothing that was asked for is left.  An interrupt that   *)
(* cuts short the hold of the robot after a failure undoes what concerns   *)
(* the request it served: its result and its posture.                      *)
(***************************************************************************)
CONSTANTS
  Ids,     \* requests
  Turns,   \* turn tokens
  Holders, \* who may hold the executor for a control operation
  Free,    \* the holder when no control operation is under way
  Nothing  \* no turn, no baseline on offer

VARIABLES
  awaited,  \* the requests whose result is not known yet
  holder,   \* who has a control operation under way
  token,    \* the turn whose requests are accepted
  broken,   \* a fault is latched
  shut,     \* the executor is closed
  offer,    \* the held posture that return_to_start may name
  undone    \* a hold of the robot was cut short by an interrupt

contractVars == <<awaited, holder, token, broken, shut, offer, undone>>

Begins ==
  /\ awaited = {} /\ holder = Free /\ token = Nothing
  /\ broken = FALSE /\ shut = FALSE /\ offer = Nothing /\ undone = FALSE

\* A request of the current turn is queued; none is while the executor is
\* held, broken or shut.
Accept(id, turn) ==
  /\ holder = Free /\ ~broken /\ ~shut /\ turn = token
  /\ id \notin awaited
  /\ awaited' = awaited \cup {id}
  /\ UNCHANGED <<holder, token, broken, shut, offer, undone>>

\* The executor works by itself: results arrive, a posture is held or given
\* up, a fault is latched, after which no posture is on offer.
Work ==
  /\ awaited' \in SUBSET awaited
  /\ broken' \in {broken, TRUE} /\ undone' \in {undone, TRUE}
  /\ undone' \/ (offer' \in {offer, Nothing} \cup awaited /\ (broken' => offer' = Nothing))
  /\ UNCHANGED <<holder, token, shut>>

\* A control operation takes the executor and tells what runs to stop.
Hold(who, turn, last) ==
  /\ holder = Free /\ holder' = who
  /\ token' = turn
  /\ shut' = (shut \/ last)
  /\ awaited' \in SUBSET awaited
  /\ offer' \in {offer, Nothing}
  /\ undone' \in {undone, TRUE}
  /\ UNCHANGED broken

\* It returns when no result is awaited any more.
Release(who) ==
  /\ holder = who /\ who # Free
  /\ undone \/ awaited = {}
  /\ awaited' \in SUBSET awaited
  /\ holder' = Free
  /\ offer' \in {offer, Nothing}
  /\ UNCHANGED <<token, broken, shut, undone>>

Proceeds ==
  \/ \E id \in Ids, turn \in Turns : Accept(id, turn)
  \/ Work
  \/ \E who \in Holders, turn \in Turns \cup {Nothing}, last \in BOOLEAN : Hold(who, turn, last)
  \/ \E who \in Holders : Release(who)

Promise == Begins /\ [][Proceeds]_contractVars

=============================================================================
