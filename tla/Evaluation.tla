----------------------------- MODULE Evaluation -----------------------------
(***************************************************************************)
(* One evaluation: the REST handlers that run, cancel, retry and delete    *)
(* it, its Celery messages, and evaluation_task, which scores the samples  *)
(* batch by batch, persists each batch in a transaction of its own and     *)
(* derives the final state from the result rows (_finalize).               *)
(*                                                                         *)
(* Handlers and final states follow the conventions of InvocationBatch:    *)
(* READ COMMITTED transactions and Assign for the columns SQLAlchemy finds *)
(* changed.                                                                *)
(***************************************************************************)
EXTENDS Naturals, FiniteSets

CONSTANTS
    NQA,           \* samples of the evaluation
    BatchSize,     \* samples scored and persisted together
    Workers,       \* Celery worker processes
    Clients,       \* concurrent API requests
    Ops,           \* the operations the clients may request
    MaxRequests,   \* bound: API requests of one behaviour
    Attempts,      \* commit_with_retry(attempts=3)
    Budget         \* bound: how many faults of each kind may occur

\* "run" starts a pending evaluation, "rerun" one that has already settled:
\* POST /run admits both
AllOps == {"run", "rerun", "cancel", "force", "retry", "delete"}

\* crash : the worker or its broker connection is lost before the ack
\* kill  : the hard time limit fires, the message is acknowledged
\* soft  : the soft time limit raises in the coroutine of the task
\* escape: it raises in the event loop, outside the coroutine
\* db    : a database statement or commit reports an error, or the soft limit
\*         raises where such errors are caught (_cancel_checker, commit_with_retry)
\* broker: .delay() raises
FaultKinds == {"crash", "kill", "soft", "escape", "db", "broker"}

ASSUME NQAAssumption == NQA \in Nat
ASSUME BatchSizeAssumption == BatchSize \in Nat \ {0}
ASSUME OpsAssumption == Ops \subseteq AllOps
ASSUME AttemptsAssumption == Attempts \in Nat \ {0}
ASSUME MaxRequestsAssumption == MaxRequests \in Nat
ASSUME BudgetAssumption == Budget \in [FaultKinds -> Nat]

Sample == 1..NQA
Terminal == {"completed", "failed", "cancelled"}
Statuses == Terminal \cup {"pending", "running", "gone"}   \* gone: no such row

\* error: there is an error message; summary: the execution that computed it, 0
\* for none
Eval == [status : Statuses, cancel : BOOLEAN, error : BOOLEAN, summary : Nat]
\* exec: the execution whose scores the row holds
Row == [qa : Sample, exec : Nat]

PCs == {"idle", "open", "begin", "prepare", "check", "score", "persist", "commit",
        "report", "final", "final_commit", "ack"}
\* how the task reached _finalize: with a summary, an error, or TaskCancelled
Outcomes == {"summary", "error", "cancelled"}
Task == [pc : PCs, mid : Nat, exec : Nat, seen : Eval, at : Nat, expected : Nat,
         outcome : Outcomes, snap : SUBSET Row, verdict : Eval, tries : Nat]

VARIABLES
    ev,       \* the row of evaluations
    rows,     \* the rows of eval_results of this evaluation
    queue,    \* ids of the messages the broker holds
    nextMid, nextExec,
    faults,   \* faults left, by kind
    rpc, rop, rseen, requests,   \* one request handler per client
    task      \* one task execution per worker

apiVars == <<rpc, rop, rseen, requests>>
vars == <<ev, rows, queue, nextMid, nextExec, faults, apiVars, task>>

-----------------------------------------------------------------------------
\* the value of a column after an ORM commit that loaded `loaded`, set `new`
\* and finds `now` in the row
Assign(loaded, new, now) == IF new = loaded THEN now ELSE new
\* the same for a message: it may be the very text that was loaded
AssignError(loaded, new, now) ==
    IF loaded /\ new THEN {TRUE, now} ELSE {Assign(loaded, new, now)}

\* the batch evaluate_batch takes at index i
Chunk(i) == {q \in Sample : i <= q /\ q < i + BatchSize}

NewEval == [status |-> "pending", cancel |-> FALSE, error |-> FALSE, summary |-> 0]
NoTask == [pc |-> "idle", mid |-> 0, exec |-> 0, seen |-> NewEval, at |-> 1,
           expected |-> 0, outcome |-> "error", snap |-> {}, verdict |-> NewEval,
           tries |-> 0]

\* create_evaluation
Init ==
    /\ ev = NewEval /\ rows = {}
    /\ queue = {} /\ nextMid = 1 /\ nextExec = 1
    /\ faults = Budget
    /\ rpc = [c \in Clients |-> "idle"]
    /\ rop = [c \in Clients |-> "run"]
    /\ rseen = [c \in Clients |-> NewEval]
    /\ requests = 0
    /\ task = [w \in Workers |-> NoTask]

-----------------------------------------------------------------------------
(* The API handlers.  Each reads the evaluation, decides, and commits later. *)

Admits(op, e) ==
    CASE op = "run"               -> e.status = "pending"
      [] op = "rerun"             -> e.status \in Terminal
      [] op \in {"cancel", "force"} -> e.status = "running"
      [] op = "retry"             -> e.status \in {"failed", "cancelled"}
      [] op = "delete"            -> e.status # "gone"

Request(c, op) ==
    /\ rpc[c] = "idle" /\ op \in Ops /\ requests < MaxRequests
    /\ Admits(op, ev)
    /\ rpc' = [rpc EXCEPT ![c] = "read"]
    /\ rop' = [rop EXCEPT ![c] = op]
    /\ rseen' = [rseen EXCEPT ![c] = ev]
    /\ requests' = requests + 1
    /\ UNCHANGED <<ev, rows, queue, nextMid, nextExec, faults, task>>

Reply(c, label) ==
    /\ rpc' = [rpc EXCEPT ![c] = label]
    /\ UNCHANGED <<rop, rseen, requests, nextExec, task>>

\* an UPDATE of a deleted row matches nothing: the handler answers an error
RequestLost(c) ==
    /\ rpc[c] = "read" /\ ev.status = "gone"
    /\ Reply(c, "idle")
    /\ UNCHANGED <<ev, rows, queue, nextMid, faults>>

\* run_evaluation: start_task commits running; the earlier results, their
\* summary and error, and the cancel flag stay
RunEvaluation(c) ==
    /\ rpc[c] = "read" /\ rop[c] \in {"run", "rerun"} /\ ev.status # "gone"
    /\ ev' = [ev EXCEPT !.status = Assign(rseen[c].status, "running", @)]
    /\ Reply(c, "dispatch")
    /\ UNCHANGED <<rows, queue, nextMid, faults>>

\* retry_evaluation: the old results are deleted in the transaction that
\* commits running; the summary stays
RetryEvaluation(c) ==
    /\ rpc[c] = "read" /\ rop[c] = "retry" /\ ev.status # "gone"
    /\ ev' = [ev EXCEPT !.status = "running",
                        !.cancel = Assign(rseen[c].cancel, FALSE, @),
                        !.error = Assign(rseen[c].error, FALSE, @)]
    /\ rows' = {}
    /\ Reply(c, "dispatch")
    /\ UNCHANGED <<queue, nextMid, faults>>

Dispatch(c) ==
    /\ rpc[c] = "dispatch"
    /\ queue' = queue \cup {nextMid}
    /\ nextMid' = nextMid + 1
    /\ Reply(c, "idle")
    /\ UNCHANGED <<ev, rows, faults>>

\* .delay() raised: the status goes back, after a retry to pending
DispatchFails(c) ==
    /\ rpc[c] = "dispatch" /\ faults["broker"] > 0
    /\ faults' = [faults EXCEPT !["broker"] = @ - 1]
    /\ LET back == IF rop[c] = "retry" THEN "pending" ELSE rseen[c].status
       IN  ev' = IF ev.status = "gone" THEN ev
                 ELSE [ev EXCEPT !.status = Assign("running", back, @)]
    /\ Reply(c, "idle")
    /\ UNCHANGED <<rows, queue, nextMid>>

CancelEvaluation(c) ==
    /\ rpc[c] = "read" /\ rop[c] = "cancel" /\ ev.status # "gone"
    /\ ev' = [ev EXCEPT !.cancel = Assign(rseen[c].cancel, TRUE, @)]
    /\ Reply(c, "idle")
    /\ UNCHANGED <<rows, queue, nextMid, faults>>

ForceCancelEvaluation(c) ==
    /\ rpc[c] = "read" /\ rop[c] = "force" /\ ev.status # "gone"
    /\ \E error \in AssignError(rseen[c].error, TRUE, ev.error) :
         ev' = [ev EXCEPT !.status = "cancelled", !.error = error,
                          !.cancel = Assign(rseen[c].cancel, FALSE, @)]
    /\ Reply(c, "idle")
    /\ UNCHANGED <<rows, queue, nextMid, faults>>

\* no guard on the status; the results go with it (cascade all, delete-orphan)
DeleteEvaluation(c) ==
    /\ rpc[c] = "read" /\ rop[c] = "delete" /\ ev.status # "gone"
    /\ ev' = [ev EXCEPT !.status = "gone"]
    /\ rows' = {}
    /\ Reply(c, "idle")
    /\ UNCHANGED <<queue, nextMid, faults>>

-----------------------------------------------------------------------------
(* The broker and the worker process *)

Take(w, m) ==
    /\ task[w].pc = "idle" /\ m \in queue
    /\ queue' = queue \ {m}
    /\ task' = [task EXCEPT ![w] = [NoTask EXCEPT !.pc = "open", !.mid = m,
                                                  !.exec = nextExec]]
    /\ nextExec' = nextExec + 1
    /\ UNCHANGED <<ev, rows, nextMid, faults, apiVars>>

Release(w) == task' = [task EXCEPT ![w] = NoTask]

Ack(w) ==
    /\ task[w].pc = "ack"
    /\ Release(w)
    /\ UNCHANGED <<ev, rows, queue, nextMid, nextExec, faults, apiVars>>

\* mutant: acks_late off, a message dies with its worker
CrashAfterEarlyAck(w) ==
    /\ task[w].pc # "idle" /\ faults["crash"] > 0
    /\ faults' = [faults EXCEPT !["crash"] = @ - 1]
    /\ Release(w)
    /\ UNCHANGED <<ev, rows, queue, nextMid, nextExec, apiVars>>

\* acks_late: a worker lost before the ack puts the message back
Crash(w) ==
    /\ task[w].pc # "idle" /\ faults["crash"] > 0
    /\ faults' = [faults EXCEPT !["crash"] = @ - 1]
    /\ queue' = queue \cup {task[w].mid}
    /\ Release(w)
    /\ UNCHANGED <<ev, rows, nextMid, nextExec, apiVars>>

\* time_limit: the process is killed and its message acknowledged
Kill(w) ==
    /\ task[w].pc # "idle" /\ faults["kill"] > 0
    /\ faults' = [faults EXCEPT !["kill"] = @ - 1]
    /\ Release(w)
    /\ UNCHANGED <<ev, rows, queue, nextMid, nextExec, apiVars>>
-----------------------------------------------------------------------------
(* evaluation_task *)

idleVars == <<queue, nextMid, nextExec, apiVars>>

\* mutant: the guard against redelivery knows only completed
OpenChecksCompleted(w) ==
    /\ task[w].pc = "open"
    /\ task' = [task EXCEPT
                  ![w].pc = IF ev.status \in {"gone", "completed"}
                            THEN "ack" ELSE "begin",
                  ![w].seen = ev]
    /\ UNCHANGED <<ev, rows, faults, idleVars>>

\* the first read of the evaluation, with the guard against redelivery
Open(w) ==
    /\ task[w].pc = "open"
    /\ task' = [task EXCEPT
                  ![w].pc = IF ev.status \in {"gone", "completed", "cancelled"}
                            THEN "ack" ELSE "begin",
                  ![w].seen = ev]
    /\ UNCHANGED <<ev, rows, faults, idleVars>>

\* running is committed again; for a deleted row the UPDATE fails and the task
\* ends with the exception
Begin(w) ==
    /\ task[w].pc = "begin"
    /\ ev' = IF ev.status = "gone" THEN ev
             ELSE [ev EXCEPT !.status = Assign(task[w].seen.status, "running", @)]
    /\ task' = [task EXCEPT ![w].pc = IF ev.status = "gone" THEN "ack" ELSE "prepare"]
    /\ UNCHANGED <<rows, faults, idleVars>>

\* up to this commit no handler guards the task: an error of the database ends
\* it and its message is acknowledged
SessionError(w) ==
    /\ task[w].pc \in {"open", "begin"} /\ faults["db"] > 0
    /\ faults' = [faults EXCEPT !["db"] = @ - 1]
    /\ task' = [task EXCEPT ![w].pc = "ack"]
    /\ UNCHANGED <<ev, rows, idleVars>>

\* mutant: the outcome is named like the status it leads to
ConcludeByStatus(w, outcome) ==
    task' = [task EXCEPT ![w].pc = "final", ![w].tries = 0,
                         ![w].outcome = IF outcome = "error" THEN "failed" ELSE outcome]

Conclude(w, outcome) ==
    task' = [task EXCEPT ![w].pc = "final", ![w].outcome = outcome, ![w].tries = 0]

\* the samples of the scope become eval_data; expected_count is known from here
Prepare(w) ==
    /\ task[w].pc = "prepare"
    /\ task' = [task EXCEPT ![w].pc = IF NQA = 0 THEN "final" ELSE "check",
                            ![w].expected = NQA,
                            ![w].outcome = "summary"]
    /\ UNCHANGED <<ev, rows, faults, idleVars>>

\* a dataset, a model or a metric is missing, or the database fails
PrepareRaises(w) ==
    /\ task[w].pc = "prepare"
    /\ Conclude(w, "error")
    /\ UNCHANGED <<ev, rows, faults, idleVars>>

\* evaluate_batch asks for the cancel flag before every batch
CheckCancel(w) ==
    /\ task[w].pc = "check"
    /\ IF ev.cancel /\ ev.status # "gone"
       THEN Conclude(w, "cancelled")
       ELSE task' = [task EXCEPT ![w].pc = "score"]
    /\ UNCHANGED <<ev, rows, faults, idleVars>>

\* the flag could not be read: the evaluation goes on
CancelUnread(w) ==
    /\ task[w].pc = "check" /\ faults["db"] > 0
    /\ faults' = [faults EXCEPT !["db"] = @ - 1]
    /\ task' = [task EXCEPT ![w].pc = "score"]
    /\ UNCHANGED <<ev, rows, idleVars>>

\* the metrics of one batch; their own failures are scores
Score(w) ==
    /\ task[w].pc = "score"
    /\ task' = [task EXCEPT ![w].pc = "persist", ![w].tries = 0]
    /\ UNCHANGED <<ev, rows, faults, idleVars>>

SoftLimit(w) ==
    /\ task[w].pc \in {"check", "score", "persist", "report"} /\ faults["soft"] > 0
    /\ faults' = [faults EXCEPT !["soft"] = @ - 1]
    /\ Conclude(w, "error")
    /\ UNCHANGED <<ev, rows, idleVars>>

\* the soft limit raises in the event loop: run_until_complete ends with it, no
\* handler of the coroutine runs and the message is acknowledged
SoftLimitEscapes(w) ==
    /\ task[w].pc \notin {"idle", "ack"} /\ faults["escape"] > 0
    /\ faults' = [faults EXCEPT !["escape"] = @ - 1]
    /\ task' = [task EXCEPT ![w].pc = "ack"]
    /\ UNCHANGED <<ev, rows, idleVars>>

\* mutant: the rows of an earlier execution stay
OldRowsKept(w) == {}

\* mutant: the DELETE forgets the samples of the batch
OldRowsOfEval(w) == rows

\* persist_batch: what the DELETE of this transaction sees
OldRows(w) == {r \in rows : r.qa \in Chunk(task[w].at)}

PersistOpen(w) ==
    /\ task[w].pc = "persist"
    /\ task' = [task EXCEPT ![w].pc = "commit", ![w].snap = OldRows(w)]
    /\ UNCHANGED <<ev, rows, faults, idleVars>>

Scored(w) == (rows \ task[w].snap)
             \cup {[qa |-> q, exec |-> task[w].exec] : q \in Chunk(task[w].at)}

PersistCommit(w) ==
    /\ task[w].pc = "commit" /\ ev.status # "gone"
    /\ rows' = Scored(w)
    /\ task' = [task EXCEPT ![w].pc = "report", ![w].at = @ + BatchSize, ![w].tries = 0]
    /\ UNCHANGED <<ev, faults, idleVars>>

\* the progress of the batch is reported; the last one is followed by the summary
Report(w) ==
    /\ task[w].pc = "report"
    /\ task' = [task EXCEPT ![w].pc = IF task[w].at <= NQA THEN "check" ELSE "final"]
    /\ UNCHANGED <<ev, rows, faults, idleVars>>

\* update_state, or the computation of the summary, raises
ReportRaises(w) ==
    /\ task[w].pc = "report"
    /\ Conclude(w, "error")
    /\ UNCHANGED <<ev, rows, faults, idleVars>>

\* the commit reports an error, whether or not the server applied it
PersistError(w, applied) ==
    /\ task[w].pc = "commit" /\ ev.status # "gone" /\ faults["db"] > 0
    /\ faults' = [faults EXCEPT !["db"] = @ - 1]
    /\ rows' = IF applied THEN Scored(w) ELSE rows
    /\ IF task[w].tries + 1 < Attempts
       THEN task' = [task EXCEPT ![w].pc = "persist", ![w].tries = @ + 1]
       ELSE Conclude(w, "error")
    /\ UNCHANGED <<ev, idleVars>>

\* the evaluation is gone: the foreign key refuses the rows at every attempt
PersistRefused(w) ==
    /\ task[w].pc = "commit" /\ ev.status = "gone"
    /\ Conclude(w, "error")
    /\ UNCHANGED <<ev, rows, faults, idleVars>>

-----------------------------------------------------------------------------
(* _finalize *)

\* mutant: the rows are not counted
VerdictUncounted(w) ==
    IF task[w].outcome = "cancelled" \/ ev.cancel
    THEN [ev EXCEPT !.status = "cancelled", !.cancel = FALSE, !.error = TRUE]
    ELSE IF task[w].expected > 0
    THEN [ev EXCEPT !.status = "completed", !.error = task[w].outcome = "error",
                    !.summary = IF task[w].outcome = "summary" THEN task[w].exec ELSE @]
    ELSE [ev EXCEPT !.status = "failed", !.error = TRUE]

\* mutant: a completed evaluation has no error
VerdictNoError(w) ==
    IF task[w].outcome = "cancelled" \/ ev.cancel
    THEN [ev EXCEPT !.status = "cancelled", !.cancel = FALSE, !.error = TRUE]
    ELSE IF task[w].expected > 0 /\ Cardinality(rows) >= task[w].expected
    THEN [ev EXCEPT !.status = "completed", !.error = FALSE,
                    !.summary = IF task[w].outcome = "summary" THEN task[w].exec ELSE @]
    ELSE [ev EXCEPT !.status = "failed", !.error = TRUE]

\* completed when as many result rows as samples exist, whatever ended the
\* execution: an error is recorded and leaves the earlier summary
Verdict(w) ==
    IF task[w].outcome = "cancelled" \/ ev.cancel
    THEN [ev EXCEPT !.status = "cancelled", !.cancel = FALSE, !.error = TRUE]
    ELSE IF task[w].expected > 0 /\ Cardinality(rows) >= task[w].expected
    THEN [ev EXCEPT !.status = "completed", !.error = task[w].outcome = "error",
                    !.summary = IF task[w].outcome = "summary" THEN task[w].exec ELSE @]
    ELSE [ev EXCEPT !.status = "failed", !.error = TRUE]

FinalRead(w) ==
    /\ task[w].pc = "final"
    /\ task' = IF ev.status = "gone" THEN [task EXCEPT ![w].pc = "ack"]
               ELSE [task EXCEPT ![w].pc = "final_commit", ![w].seen = ev,
                                 ![w].verdict = Verdict(w)]
    /\ UNCHANGED <<ev, rows, faults, idleVars>>

ApplyVerdict(w) ==
    LET t == task[w]
    IN  \E error \in AssignError(t.seen.error, t.verdict.error, ev.error) :
          ev' = [status  |-> Assign(t.seen.status, t.verdict.status, ev.status),
                 cancel  |-> Assign(t.seen.cancel, t.verdict.cancel, ev.cancel),
                 error   |-> error,
                 summary |-> Assign(t.seen.summary, t.verdict.summary, ev.summary)]

FinalCommit(w) ==
    /\ task[w].pc = "final_commit"
    /\ IF ev.status = "gone" THEN UNCHANGED ev ELSE ApplyVerdict(w)
    /\ task' = [task EXCEPT ![w].pc = "ack"]
    /\ UNCHANGED <<rows, faults, idleVars>>

\* after the last attempt the state is "unknown" and the message acknowledged
FinalError(w, applied) ==
    /\ task[w].pc = "final_commit" /\ ev.status # "gone" /\ faults["db"] > 0
    /\ faults' = [faults EXCEPT !["db"] = @ - 1]
    /\ IF applied THEN ApplyVerdict(w) ELSE UNCHANGED ev
    /\ task' = IF task[w].tries + 1 < Attempts
               THEN [task EXCEPT ![w].pc = "final", ![w].tries = @ + 1]
               ELSE [task EXCEPT ![w].pc = "ack"]
    /\ UNCHANGED <<rows, idleVars>>

-----------------------------------------------------------------------------
Handler(c) ==
    \/ RequestLost(c) \/ RunEvaluation(c) \/ RetryEvaluation(c) \/ Dispatch(c)
    \/ CancelEvaluation(c) \/ ForceCancelEvaluation(c) \/ DeleteEvaluation(c)

TaskStep(w) ==
    \/ Open(w) \/ Begin(w) \/ Prepare(w) \/ PrepareRaises(w)
    \/ CheckCancel(w) \/ Score(w) \/ PersistOpen(w) \/ PersistCommit(w)
    \/ PersistRefused(w) \/ Report(w) \/ ReportRaises(w)
    \/ FinalRead(w) \/ FinalCommit(w) \/ Ack(w)

Fault(w) ==
    \/ Crash(w) \/ Kill(w) \/ SoftLimit(w) \/ SoftLimitEscapes(w)
    \/ SessionError(w) \/ CancelUnread(w)
    \/ \E applied \in BOOLEAN : PersistError(w, applied) \/ FinalError(w, applied)

Next ==
    \/ \E c \in Clients, op \in AllOps : Request(c, op)
    \/ \E c \in Clients : Handler(c) \/ DispatchFails(c)
    \/ \E w \in Workers : (\E m \in queue : Take(w, m)) \/ TaskStep(w) \/ Fault(w)

Spec == Init /\ [][Next]_vars

\* handlers and tasks run on once started and an idle worker takes what the
\* broker holds; clients and faults owe nothing
Fairness ==
    /\ \A c \in Clients : WF_vars(Handler(c))
    /\ \A w \in Workers : WF_vars(TaskStep(w)) /\ WF_vars(\E m \in queue : Take(w, m))

FairSpec == Spec /\ Fairness
-----------------------------------------------------------------------------
(* Properties *)

\* Every variable keeps its type.
TypeOK ==
    /\ ev \in Eval /\ rows \in SUBSET Row
    /\ queue \in SUBSET Nat /\ nextMid \in Nat /\ nextExec \in Nat
    /\ faults \in [FaultKinds -> Nat]
    /\ rpc \in [Clients -> {"idle", "read", "dispatch"}]
    /\ rop \in [Clients -> AllOps]
    /\ rseen \in [Clients -> Eval]
    /\ requests \in Nat
    /\ task \in [Workers -> Task]

\* A sample has at most one result row, whatever is redelivered or retried:
\* a second row would count the same answer twice in every mean.
OneScorePerSample == \A r, s \in rows : r.qa = s.qa => r = s

\* An evaluation that says completed has a result for every sample, although
\* _finalize counts rows and never looks at the samples.
CompletedIsScored == ev.status = "completed" => {r.qa : r \in rows} = Sample

\* The summary of an evaluation that completed without an error was computed
\* from the very scores the result rows hold, whatever earlier executions left
\* of rows and of summaries.
SummaryIsOfResults ==
    ev.status = "completed" /\ ~ev.error => \A r \in rows : r.exec = ev.summary

\* So was the summary of one that completed with an error: an execution that
\* fails after its last batch, or over the rows of an earlier one, refutes it.
AnySummaryIsOfResults ==
    ev.status = "completed" /\ ev.summary # 0 => \A r \in rows : r.exec = ev.summary

\* Only a request moves an evaluation out of cancelled: neither a redelivered
\* message nor the task that was told to stop revives it.
CancelledStays == [][ev.status = "cancelled" /\ rpc' = rpc => ev'.status = "cancelled"]_vars

\* Scores that are persisted stay until the user retries or deletes: no error,
\* cancellation or redelivery throws away what was paid for.
ScoresSurvive ==
    [][rpc' = rpc => {r.qa : r \in rows} \subseteq {r.qa : r \in rows'}]_vars

\* A dispatched evaluation settles, whatever error, crash or soft limit stops
\* its execution, unless a time limit ends the task past its handlers.
Abandoned == \E k \in {"kill", "escape"} : faults[k] < Budget[k]
RunSettles == ev.status = "running" ~> (ev.status # "running" \/ Abandoned)

\* Every dispatched evaluation settles: a soft limit in the event loop refutes it.
RunAlwaysSettles == ev.status = "running" ~> ev.status # "running"

-----------------------------------------------------------------------------
\* While nobody retries, an evaluation promises its readers what a batch does:
\* scored samples only grow in number, and completed is said only of all.
Contract == INSTANCE BatchContract
              WITH Questions <- Sample, status <- ev.status, covered <- {r.qa : r \in rows}
ImplementsContract == Contract!Spec
=============================================================================
