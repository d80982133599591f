------------------------------ MODULE TaskTable ------------------------------
(***************************************************************************)
(* What the task endpoints promise about the table: each task is created   *)
(* at most once, moved while it exists, and deleted for good.              *)
(***************************************************************************)
CONSTANTS Task, Status   \* neither "unborn" nor "dead" is a status

VARIABLE life   \* the status of each task, or where it is in its life

Init == life \in [Task -> Status \cup {"unborn"}]

Create(t, s) == life[t] = "unborn" /\ life' = [life EXCEPT ![t] = s]

Move(t, s) == life[t] \in Status /\ life' = [life EXCEPT ![t] = s]

Delete(t) == life[t] \in Status /\ life' = [life EXCEPT ![t] = "dead"]

(* The creation failed: its id is never used again.                        *)
Discard(t) == life[t] = "unborn" /\ life' = [life EXCEPT ![t] = "dead"]

Next == \E t \in Task : Delete(t) \/ Discard(t) \/ \E s \in Status : Create(t, s) \/ Move(t, s)

Spec == Init /\ [][Next]_life
=============================================================================
