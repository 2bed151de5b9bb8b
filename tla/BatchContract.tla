---------------------------- MODULE BatchContract ----------------------------
(***************************************************************************)
(* What an invocation batch promises the rest of the system, evaluations   *)
(* above all: the questions that have a result only grow in number, the    *)
(* batch says completed only while every question has one, and a deleted   *)
(* batch stays deleted.  InvocationBatch implements this specification;    *)
(* Evaluation does for its samples while nobody retries.                   *)
(***************************************************************************)
CONSTANT Questions
VARIABLES status, covered

vars == <<status, covered>>

Live == {"pending", "running", "completed", "failed", "cancelled"}

Init == status = "pending" /\ covered = {}

\* a handler or a task moves the batch to another state
Move(s) ==
    /\ status # "gone" /\ s \in Live
    /\ s = "completed" => covered = Questions
    /\ status' = s
    /\ UNCHANGED covered

\* results are written
Record(S) ==
    /\ status # "gone"
    /\ covered' = covered \cup S
    /\ UNCHANGED status

Drop ==
    /\ status # "gone"
    /\ status' = "gone"
    /\ covered' = {}

Next ==
    \/ \E s \in Live : Move(s)
    \/ \E S \in SUBSET Questions : Record(S)
    \/ Drop

Spec == Init /\ [][Next]_vars

\* A completed batch has a result for every question.
Delivered ==
    /\ covered \subseteq Questions
    /\ status = "completed" => covered = Questions
=============================================================================
