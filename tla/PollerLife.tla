------------------------------ MODULE PollerLife ------------------------------
(***************************************************************************)
(* The life of one PolledConnector's poller, as the models of the          *)
(* platforms take it from Notifier: its callback runs only while it is     *)
(* registered and only because its timer has expired since, and one that   *)
(* is disarmed is not called again before it has been stopped and started. *)
(* It lives like this until the loop ends: on its way out the process may  *)
(* destroy pollers that are armed.                                         *)
(***************************************************************************)
VARIABLES made,    \* PolledConnector::poller holds a value
          armed,   \* registered with epoll
          due,     \* its timer has expired and it has not been called since
          called   \* its callback runs

vars == <<made, armed, due, called>>

Init == ~made /\ ~armed /\ ~due /\ ~called

(* A poller that cannot be armed is made nonetheless.                      *)
Start == ~made /\ made' /\ armed' \in BOOLEAN /\ UNCHANGED <<due, called>>

(* The timer may also expire while the callback runs.                      *)
Expire == armed /\ due' /\ UNCHANGED <<made, armed, called>>

Call == due /\ ~called /\ called' /\ ~due' /\ UNCHANGED <<made, armed>>

Return == called /\ ~called' /\ UNCHANGED <<made, armed, due>>

(* Only its own callback disarms a poller that is made.                    *)
Disarm == called /\ ~called' /\ ~armed' /\ ~due' /\ UNCHANGED made

(* ... and only when that does not run is it destroyed.                    *)
Stop == made /\ ~called /\ ~made' /\ ~armed' /\ ~due' /\ UNCHANGED called

Next == Start \/ Expire \/ Call \/ Return \/ Disarm \/ Stop

Spec == Init /\ [][Next]_vars
==============================================================================
