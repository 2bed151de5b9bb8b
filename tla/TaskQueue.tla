----------------------------- MODULE TaskQueue -----------------------------
(***************************************************************************)
(* What the background jobs of jq-eval have in common: the row of the job, *)
(* the handlers that read it, check it and commit later, the broker that   *)
(* delivers a message again when the worker dies before its                *)
(* acknowledgement, and mark_task_failed.                                  *)
(*                                                                         *)
(* A job module EXTENDS this one, gives `job` its columns and adds the     *)
(* rows its task writes.  A frame is one task execution: where it is, the  *)
(* message it runs and the local values it has read.                       *)
(***************************************************************************)
EXTENDS Naturals, FiniteSets

CONSTANTS
    Workers,       \* Celery worker processes
    Clients,       \* concurrent API requests
    MaxRequests,   \* bound: API requests of one behaviour
    Budget         \* bound: how many faults of each kind may occur

\* crash : the worker or its broker connection is lost before the ack
\* kill  : the hard time limit fires, the message is acknowledged
\* db    : a database statement or commit fails
\* broker: .delay() raises
FaultKinds == {"crash", "kill", "db", "broker"}

ASSUME MaxRequestsAssumption == MaxRequests \in Nat
ASSUME BudgetAssumption == Budget \in [FaultKinds -> Nat]

VARIABLES
    job,      \* the row of the job; status "none" before it, "gone" after it
    queue,    \* ids of the messages the broker holds
    nextMid,
    frame,    \* one task execution per worker
    call,     \* one request handler per client: its operation, what it read
    requests,
    faults    \* faults left, by kind

taskVars == <<job, queue, nextMid, frame, call, requests, faults>>

IdleFrame == [pc |-> "idle", mid |-> 0, loc |-> <<>>]
NoCall == [op |-> "none", seen |-> "none"]

QueueInit ==
    /\ queue = {} /\ nextMid = 1
    /\ frame = [w \in Workers |-> IdleFrame]
    /\ call = [c \in Clients |-> NoCall]
    /\ requests = 0
    /\ faults = Budget

Fault(k) == faults[k] > 0 /\ faults' = [faults EXCEPT ![k] = @ - 1]
Exists == job.status \notin {"none", "gone"}

-----------------------------------------------------------------------------
(* Handlers.  A handler reads the row (Receive) and commits later; whatever *)
(* it checked may have changed in between.                                  *)

\* the guard of the handler holds of the row it reads
Receive(c, op) ==
    /\ call[c].op = "none" /\ requests < MaxRequests
    /\ Exists
    /\ requests' = requests + 1
    /\ call' = [call EXCEPT ![c] = [op |-> op, seen |-> job.status]]
    /\ UNCHANGED <<job, queue, nextMid, frame, faults>>

Finish(c) == call' = [call EXCEPT ![c] = NoCall]

\* the commit of start_task; an update of a deleted row raises
StartTask(c) ==
    /\ call[c].op = "run"
    /\ \/ /\ Exists
          /\ job' = [job EXCEPT !.status = "running"]
          /\ call' = [call EXCEPT ![c].op = "dispatch"]
       \/ /\ ~Exists
          /\ Finish(c) /\ UNCHANGED job
    /\ UNCHANGED <<queue, nextMid, frame, requests, faults>>

\* .delay() puts the message into the broker
Dispatch(c) ==
    /\ call[c].op = "dispatch"
    /\ queue' = queue \cup {nextMid} /\ nextMid' = nextMid + 1
    /\ Finish(c)
    /\ UNCHANGED <<job, frame, requests, faults>>

\* .delay() raises: start_task restores the status it had read
DispatchFails(c) ==
    /\ call[c].op = "dispatch" /\ Fault("broker")
    /\ job' = IF Exists THEN [job EXCEPT !.status = call[c].seen] ELSE job
    /\ Finish(c)
    /\ UNCHANGED <<queue, nextMid, frame, requests>>

\* .delay() raises where no start_task surrounds it
DelayFails(c) ==
    /\ call[c].op = "dispatch" /\ Fault("broker")
    /\ Finish(c)
    /\ UNCHANGED <<job, queue, nextMid, frame, requests>>

-----------------------------------------------------------------------------
(* Tasks *)

At(w, pc) == frame[w].pc = pc
Loc(w) == frame[w].loc
Goto(w, pc, loc) == frame' = [frame EXCEPT ![w].pc = pc, ![w].loc = loc]

Take(w) ==
    /\ At(w, "idle")
    /\ \E m \in queue :
          /\ queue' = queue \ {m}
          /\ frame' = [frame EXCEPT ![w] = [IdleFrame EXCEPT !.pc = "open", !.mid = m]]
    /\ UNCHANGED <<job, nextMid, call, requests, faults>>

\* the task returned or raised: the message is acknowledged
Ack(w) ==
    /\ At(w, "ack")
    /\ frame' = [frame EXCEPT ![w] = IdleFrame]
    /\ UNCHANGED <<job, queue, nextMid, call, requests, faults>>

\* task_acks_late, task_reject_on_worker_lost: the message is delivered again
Crash(w) ==
    /\ ~At(w, "idle") /\ Fault("crash")
    /\ queue' = queue \cup {frame[w].mid}
    /\ frame' = [frame EXCEPT ![w] = IdleFrame]
    /\ UNCHANGED <<job, nextMid, call, requests>>

Kill(w) ==
    /\ ~At(w, "idle") /\ Fault("kill")
    /\ frame' = [frame EXCEPT ![w] = IdleFrame]
    /\ UNCHANGED <<job, queue, nextMid, call, requests>>

\* the first transaction of a task stands outside its try
Open(w, loc) ==
    /\ At(w, "open")
    /\ \/ /\ Exists
          /\ job' = [job EXCEPT !.status = "running"]
          /\ Goto(w, "begin", loc) /\ UNCHANGED faults
       \/ /\ ~Exists
          /\ Goto(w, "ack", <<>>) /\ UNCHANGED <<job, faults>>
       \/ /\ Fault("db")
          /\ Goto(w, "ack", <<>>) /\ UNCHANGED job
    /\ UNCHANGED <<queue, nextMid, call, requests>>

\* an exception inside the try; what the session had not committed is lost
Raise(w, pcs) ==
    /\ frame[w].pc \in pcs
    /\ Goto(w, "except", <<>>)
    /\ UNCHANGED <<job, queue, nextMid, call, requests, faults>>

DbError(w, pcs) ==
    /\ frame[w].pc \in pcs /\ Fault("db")
    /\ Goto(w, "except", <<>>)
    /\ UNCHANGED <<job, queue, nextMid, call, requests>>

\* the except branch: rollback, read the row again, failed
MarkFailed(w) ==
    /\ frame[w].pc \in {"except", "except_fresh"}
    /\ job' = IF Exists THEN [job EXCEPT !.status = "failed"] ELSE job
    /\ Goto(w, "ack", <<>>)
    /\ UNCHANGED <<queue, nextMid, call, requests, faults>>

\* mark_task_failed tries a fresh session once more, then only logs
MarkFailedLost(w) ==
    /\ frame[w].pc \in {"except", "except_fresh"} /\ Fault("db")
    /\ Goto(w, IF At(w, "except") THEN "except_fresh" ELSE "ack", <<>>)
    /\ UNCHANGED <<job, queue, nextMid, call, requests>>

\* an except branch that commits failed without mark_task_failed
FailedLost(w) ==
    /\ At(w, "except") /\ Fault("db")
    /\ Goto(w, "ack", <<>>)
    /\ UNCHANGED <<job, queue, nextMid, call, requests>>

\* delivery and loss, common to every job
Delivery(w) == Take(w) \/ Ack(w) \/ Crash(w) \/ Kill(w)

=============================================================================
