--------------------------- MODULE InvocationBatch ---------------------------
(***************************************************************************)
(* One invocation batch: the REST handlers that run, cancel, retry and     *)
(* delete it, the Celery queue between them and the workers, and the two   *)
(* worker tasks (invocation_task, retry_invocation_task) with every        *)
(* database transaction they make.  Batches share nothing but the worker   *)
(* pool, so one batch is enough.                                           *)
(*                                                                         *)
(* PostgreSQL runs at READ COMMITTED and SQLAlchemy writes only the        *)
(* columns whose value differs from the one it loaded, so a transaction    *)
(* that reads in one step and commits in another uses Assign below.        *)
(***************************************************************************)
EXTENDS Naturals, FiniteSets

CONSTANTS
    NQA,           \* questions in the sampling scope of the batch
    Workers,       \* Celery worker processes
    Clients,       \* concurrent API requests
    Ops,           \* the operations the clients may request
    MaxRequests,   \* bound: API requests of one behaviour
    Attempts,      \* commit_with_retry(attempts=3)
    Budget         \* bound: how many faults of each kind may occur

AllOps == {"run", "cancel", "force", "retry", "retry_one", "delete"}

\* crash : the worker or its broker connection is lost before the ack
\* kill  : the hard time limit fires, the message is acknowledged
\* db    : a database statement or commit reports an error
\* broker: .delay() raises
FaultKinds == {"crash", "kill", "db", "broker"}

ASSUME NQAAssumption == NQA \in Nat \ {0}
ASSUME OpsAssumption == Ops \subseteq AllOps
ASSUME AttemptsAssumption == Attempts \in Nat \ {0}
ASSUME MaxRequestsAssumption == MaxRequests \in Nat
ASSUME BudgetAssumption == Budget \in [FaultKinds -> Nat]

QA == 1..NQA
Terminal == {"completed", "failed", "cancelled"}
Statuses == Terminal \cup {"pending", "running", "gone"}   \* gone: no such row
Batch == [status : Statuses, cancel : BOOLEAN, started : BOOLEAN,
          ok : Nat, failed : Nat]
Row == [id : Nat, qa : QA, ok : BOOLEAN]
Message == [mid : Nat, kind : {"run", "retry"}, ids : SUBSET Nat]
NoMessage == [mid |-> 0, kind |-> "run", ids |-> {}]
NoRow(q) == [id |-> 0, qa |-> q, ok |-> FALSE]

VARIABLES
    batch,    \* the row of invocation_batches
    rows,     \* the rows of invocation_results of this batch
    nextId,   \* row ids grow in the order of created_at
    queue,    \* messages the broker holds, the unacknowledged ones excluded
    nextMid,  \* next message id
    faults,   \* faults left, by kind
    \* one request handler per client
    rpc,      \* where the handler is
    rop,      \* the operation
    rseen,    \* the batch it read
    rids,     \* the result ids it will dispatch
    rmissing, \* the questions it found without a result
    requests, \* requests made so far
    \* one task execution per worker
    pc, job, todo, cur, good, fallback, tally, snap, seen, verdict, tries, passes

dbVars == <<batch, rows, nextId>>
apiVars == <<rpc, rop, rseen, rids, rmissing, requests>>
itemVars == <<todo, cur, good, fallback, tally>>
txnVars == <<snap, seen, verdict, tries, passes>>
vars == <<batch, rows, nextId, queue, nextMid, faults,
          rpc, rop, rseen, rids, rmissing, requests,
          pc, job, todo, cur, good, fallback, tally,
          snap, seen, verdict, tries, passes>>

-----------------------------------------------------------------------------
(* Pure parts *)

\* the value of a column after an ORM commit that loaded `loaded`, set `new`
\* and finds `now` in the row
Assign(loaded, new, now) == IF new = loaded THEN now ELSE new

\* batch_in_flight: total_count is NQA from creation on
InFlight(b) == b.status = "running" /\ b.ok + b.failed < NQA

Covered(rs) == {r.qa : r \in rs}

\* the row written last for a question decides its status
LastOk(rs, q) == \E r \in rs : /\ r.qa = q /\ r.ok
                               /\ \A s \in rs : s.qa = q => s.id <= r.id

SucceededQA(rs) == {q \in Covered(rs) : LastOk(rs, q)}

\* mutant: completed by the number of rows, not of questions
VerdictByRows(b, rs) ==
    [ok     |-> Cardinality(SucceededQA(rs)),
     failed |-> Cardinality(Covered(rs) \ SucceededQA(rs)),
     status |-> IF b.cancel THEN "cancelled"
                ELSE IF Cardinality(rs) >= NQA THEN "completed"
                ELSE "failed",
     cancel |-> FALSE, started |-> b.started]

\* what _reconcile_terminal_state computes from the batch and its results
Verdict(b, rs) ==
    [ok     |-> Cardinality(SucceededQA(rs)),
     failed |-> Cardinality(Covered(rs) \ SucceededQA(rs)),
     status |-> IF b.cancel THEN "cancelled"
                ELSE IF Cardinality(Covered(rs)) >= NQA THEN "completed"
                ELSE "failed",
     cancel |-> FALSE, started |-> b.started]

-----------------------------------------------------------------------------
(* The API handlers.  Each reads the batch, decides, and commits later. *)

NewBatch == [status |-> "pending", cancel |-> FALSE, started |-> FALSE,
             ok |-> 0, failed |-> 0]
ZeroTally == [ok |-> 0, failed |-> 0]

\* create_invocation_batch
Init ==
    /\ batch = NewBatch
    /\ rows = {} /\ nextId = 1
    /\ queue = {} /\ nextMid = 1
    /\ faults = Budget
    /\ rpc = [c \in Clients |-> "idle"]
    /\ rop = [c \in Clients |-> "run"]
    /\ rseen = [c \in Clients |-> NewBatch]
    /\ rids = [c \in Clients |-> {}]
    /\ rmissing = [c \in Clients |-> {}]
    /\ requests = 0
    /\ pc = [w \in Workers |-> "idle"]
    /\ job = [w \in Workers |-> NoMessage]
    /\ todo = [w \in Workers |-> {}]
    /\ cur = [w \in Workers |-> NoRow(1)]
    /\ good = [w \in Workers |-> FALSE]
    /\ fallback = [w \in Workers |-> FALSE]
    /\ tally = [w \in Workers |-> ZeroTally]
    /\ snap = [w \in Workers |-> {}]
    /\ seen = [w \in Workers |-> NewBatch]
    /\ verdict = [w \in Workers |-> NewBatch]
    /\ tries = [w \in Workers |-> 0]
    /\ passes = [w \in Workers |-> 0]

workerVars == <<pc, job, itemVars, txnVars>>

\* get_or_404 and the guard of the handler; "retry" and "retry_one" are
\* refused while the batch is in flight, as "run" and "delete" are
Admits(op, b) ==
    /\ b.status # "gone"
    /\ IF op \in {"cancel", "force"} THEN b.status \in {"running", "pending"}
                                     ELSE ~InFlight(b)

Request(c, op) ==
    /\ rpc[c] = "idle" /\ op \in Ops /\ requests < MaxRequests
    /\ Admits(op, batch)
    /\ rpc' = [rpc EXCEPT ![c] = "read"]
    /\ rop' = [rop EXCEPT ![c] = op]
    /\ rseen' = [rseen EXCEPT ![c] = batch]
    /\ requests' = requests + 1
    /\ UNCHANGED <<dbVars, queue, nextMid, faults, rids, rmissing, workerVars>>

\* the batch was deleted since it was read: an UPDATE matches no row, and the
\* foreign key refuses a placeholder.  The handler answers an error.
RequestLost(c) ==
    /\ batch.status = "gone"
    /\ \/ rpc[c] = "read" /\ rop[c] \notin {"retry", "retry_one"}
       \/ rpc[c] = "fill"
    /\ rpc' = [rpc EXCEPT ![c] = "idle"]
    /\ rmissing' = [rmissing EXCEPT ![c] = {}]
    /\ UNCHANGED <<dbVars, queue, nextMid, faults, rop, rseen, rids, requests,
                   workerVars>>

\* run_invocation_batch and start_task: running is committed, with started_at
\* cleared, before the dispatch
StartTask(c) ==
    /\ rpc[c] = "read" /\ rop[c] = "run" /\ batch.status # "gone"
    /\ batch' = [batch EXCEPT !.status = Assign(rseen[c].status, "running", @),
                              !.started = Assign(rseen[c].started, FALSE, @)]
    /\ rpc' = [rpc EXCEPT ![c] = "dispatch"]
    /\ rids' = [rids EXCEPT ![c] = {}]
    /\ UNCHANGED <<rows, nextId, queue, nextMid, faults, rop, rseen, rmissing, requests,
                   workerVars>>

CancelBatch(c) ==
    /\ rpc[c] = "read" /\ rop[c] = "cancel" /\ batch.status # "gone"
    /\ batch' = [batch EXCEPT !.cancel = Assign(rseen[c].cancel, TRUE, @)]
    /\ rpc' = [rpc EXCEPT ![c] = "idle"]
    /\ UNCHANGED <<rows, nextId, queue, nextMid, faults, rop, rseen, rids, rmissing,
                   requests, workerVars>>

ForceCancelBatch(c) ==
    /\ rpc[c] = "read" /\ rop[c] = "force" /\ batch.status # "gone"
    /\ batch' = [batch EXCEPT !.status = "cancelled",
                              !.cancel = Assign(rseen[c].cancel, FALSE, @)]
    /\ rpc' = [rpc EXCEPT ![c] = "idle"]
    /\ UNCHANGED <<rows, nextId, queue, nextMid, faults, rop, rseen, rids, rmissing,
                   requests, workerVars>>

\* retry_invocation_batch reads the failed results; for a batch that was over
\* when it was read it goes on to look for questions without a result
FindFailed(c) ==
    /\ rpc[c] = "read" /\ rop[c] = "retry"
    /\ LET failed == {r.id : r \in {row \in rows : ~row.ok}}
       IN  /\ rids' = [rids EXCEPT ![c] = failed]
           /\ rpc' = [rpc EXCEPT ![c] = IF rseen[c].status \in Terminal THEN "have"
                                        ELSE IF failed = {} THEN "idle"
                                        ELSE "dispatch"]
    /\ UNCHANGED <<dbVars, queue, nextMid, faults, rop, rseen, rmissing, requests,
                   workerVars>>

\* have and missing_qa_in_scope
FindMissing(c) ==
    /\ rpc[c] = "have" /\ rop[c] = "retry"
    /\ LET missing == QA \ Covered(rows)
       IN  /\ rmissing' = [rmissing EXCEPT ![c] = missing]
           /\ rpc' = [rpc EXCEPT ![c] = IF missing # {} THEN "fill"
                                        ELSE IF rids[c] = {} THEN "idle"
                                        ELSE "dispatch"]
    /\ UNCHANGED <<dbVars, queue, nextMid, faults, rop, rseen, rids, requests,
                   workerVars>>

Placeholders(missing) ==
    {[id |-> nextId + q, qa |-> q, ok |-> FALSE] : q \in missing}

\* the commit of a failed placeholder for each of them, whatever the workers
\* have written since
FillMissing(c) ==
    /\ rpc[c] = "fill" /\ rop[c] = "retry" /\ batch.status # "gone"
    /\ LET holders == Placeholders(rmissing[c])
       IN  /\ rows' = rows \cup holders
           /\ rids' = [rids EXCEPT ![c] = @ \cup {h.id : h \in holders}]
    /\ nextId' = nextId + NQA + 1
    /\ rpc' = [rpc EXCEPT ![c] = "dispatch"]
    /\ rmissing' = [rmissing EXCEPT ![c] = {}]
    /\ UNCHANGED <<batch, queue, nextMid, faults, rop, rseen, requests, workerVars>>

\* retry_single_result, or retry with explicit result_ids
RetryOne(c) ==
    /\ rpc[c] = "read" /\ rop[c] = "retry_one"
    /\ \E rs \in SUBSET rows \ {{}} : rids' = [rids EXCEPT ![c] = {r.id : r \in rs}]
    /\ rpc' = [rpc EXCEPT ![c] = "dispatch"]
    /\ UNCHANGED <<dbVars, queue, nextMid, faults, rop, rseen, rmissing, requests,
                   workerVars>>

\* the ids given are of no result of this batch
RetryNothing(c) ==
    /\ rpc[c] = "read" /\ rop[c] = "retry_one"
    /\ rpc' = [rpc EXCEPT ![c] = "idle"]
    /\ UNCHANGED <<dbVars, queue, nextMid, faults, rop, rseen, rids, rmissing, requests,
                   workerVars>>

\* mutant: the operation's own name as the task
KindByName(op) == op

Kind(op) == IF op = "run" THEN "run" ELSE "retry"

Dispatch(c) ==
    /\ rpc[c] = "dispatch"
    /\ queue' = queue \cup {[mid |-> nextMid, kind |-> Kind(rop[c]), ids |-> rids[c]]}
    /\ nextMid' = nextMid + 1
    /\ rpc' = [rpc EXCEPT ![c] = "idle"]
    /\ UNCHANGED <<dbVars, faults, rop, rseen, rids, rmissing, requests, workerVars>>

\* .delay() raised: start_task puts the status back, the retry handlers do not
DispatchFails(c) ==
    /\ rpc[c] = "dispatch" /\ faults["broker"] > 0
    /\ faults' = [faults EXCEPT !["broker"] = @ - 1]
    /\ batch' = IF rop[c] = "run" /\ batch.status # "gone"
                THEN [batch EXCEPT !.status = Assign("running", rseen[c].status, @)]
                ELSE batch
    /\ rpc' = [rpc EXCEPT ![c] = "idle"]
    /\ UNCHANGED <<rows, nextId, queue, nextMid, rop, rseen, rids, rmissing, requests,
                   workerVars>>

\* mutant: the results stay behind
DeleteBatchOnly(c) ==
    /\ rpc[c] = "read" /\ rop[c] = "delete" /\ batch.status # "gone"
    /\ batch' = [batch EXCEPT !.status = "gone"]
    /\ rpc' = [rpc EXCEPT ![c] = "idle"]
    /\ UNCHANGED <<rows, nextId, queue, nextMid, faults, rop, rseen, rids, rmissing, requests,
                   workerVars>>

\* the results go with the batch (cascade all, delete-orphan)
DeleteBatch(c) ==
    /\ rpc[c] = "read" /\ rop[c] = "delete" /\ batch.status # "gone"
    /\ batch' = [batch EXCEPT !.status = "gone"]
    /\ rows' = {}
    /\ rpc' = [rpc EXCEPT ![c] = "idle"]
    /\ UNCHANGED <<nextId, queue, nextMid, faults, rop, rseen, rids, rmissing, requests,
                   workerVars>>

-----------------------------------------------------------------------------
(* The broker and the worker process *)

Take(w, m) ==
    /\ pc[w] = "idle" /\ m \in queue
    /\ queue' = queue \ {m}
    /\ job' = [job EXCEPT ![w] = m]
    /\ pc' = [pc EXCEPT ![w] = "open"]
    /\ UNCHANGED <<dbVars, nextMid, faults, apiVars, itemVars, txnVars>>

\* the execution ends; its locals die with it
Release(w) ==
    /\ pc' = [pc EXCEPT ![w] = "idle"]
    /\ job' = [job EXCEPT ![w] = NoMessage]
    /\ todo' = [todo EXCEPT ![w] = {}]
    /\ cur' = [cur EXCEPT ![w] = NoRow(1)]
    /\ good' = [good EXCEPT ![w] = FALSE]
    /\ fallback' = [fallback EXCEPT ![w] = FALSE]
    /\ tally' = [tally EXCEPT ![w] = ZeroTally]
    /\ snap' = [snap EXCEPT ![w] = {}]
    /\ seen' = [seen EXCEPT ![w] = NewBatch]
    /\ verdict' = [verdict EXCEPT ![w] = NewBatch]
    /\ tries' = [tries EXCEPT ![w] = 0]
    /\ passes' = [passes EXCEPT ![w] = 0]

Ack(w) ==
    /\ pc[w] = "ack"
    /\ Release(w)
    /\ UNCHANGED <<dbVars, queue, nextMid, faults, apiVars>>

\* mutant: acks_late off, a message dies with its worker
CrashAfterEarlyAck(w) ==
    /\ pc[w] # "idle" /\ faults["crash"] > 0
    /\ faults' = [faults EXCEPT !["crash"] = @ - 1]
    /\ Release(w)
    /\ UNCHANGED <<dbVars, queue, nextMid, apiVars>>

\* acks_late: a worker or connection lost anywhere before the ack, after the
\* last commit too, puts the message back
Crash(w) ==
    /\ pc[w] # "idle" /\ faults["crash"] > 0
    /\ faults' = [faults EXCEPT !["crash"] = @ - 1]
    /\ queue' = queue \cup {job[w]}
    /\ Release(w)
    /\ UNCHANGED <<dbVars, nextMid, apiVars>>

\* time_limit: the process is killed and its message acknowledged
Kill(w) ==
    /\ pc[w] # "idle" /\ faults["kill"] > 0
    /\ faults' = [faults EXCEPT !["kill"] = @ - 1]
    /\ Release(w)
    /\ UNCHANGED <<dbVars, queue, nextMid, apiVars>>

-----------------------------------------------------------------------------
(* The tasks *)

Goto(w, label) == pc' = [pc EXCEPT ![w] = label]

\* reconcile n times: _run_retry reconciles and raises, and the guard around
\* it reconciles again
Settle(w, n) ==
    /\ Goto(w, "settle")
    /\ passes' = [passes EXCEPT ![w] = n]
    /\ tries' = [tries EXCEPT ![w] = 0]

\* mutant: a running batch is taken for somebody else's and skipped
OpenRunSkipsRunning(w) ==
    /\ pc[w] = "open" /\ job[w].kind = "run"
    /\ Goto(w, IF batch.status \in {"gone", "completed", "cancelled"}
                  \/ (batch.status = "running" /\ batch.started)
               THEN "ack" ELSE "begin")
    /\ seen' = [seen EXCEPT ![w] = batch]
    /\ todo' = [todo EXCEPT ![w] = {NoRow(q) : q \in QA}]
    /\ tally' = [tally EXCEPT ![w] = ZeroTally]
    /\ UNCHANGED <<dbVars, queue, nextMid, faults, apiVars, job, cur, good,
                   fallback, snap, verdict, tries, passes>>

\* the first read of the batch, with the redelivery guard of _run_invocation
OpenRun(w) ==
    /\ pc[w] = "open" /\ job[w].kind = "run"
    /\ Goto(w, IF batch.status \in {"gone", "completed", "cancelled"}
               THEN "ack" ELSE "begin")
    /\ seen' = [seen EXCEPT ![w] = batch]
    /\ todo' = [todo EXCEPT ![w] = {NoRow(q) : q \in QA}]
    /\ tally' = [tally EXCEPT ![w] = ZeroTally]
    /\ UNCHANGED <<dbVars, queue, nextMid, faults, apiVars, job, cur, good,
                   fallback, snap, verdict, tries, passes>>

\* _run_retry looks its rows up by id and has no guard on the status
OpenRetry(w) ==
    /\ pc[w] = "open" /\ job[w].kind = "retry"
    /\ LET found == {r \in rows : r.id \in job[w].ids}
       IN  /\ Goto(w, IF found = {} THEN "ack" ELSE "begin")
           /\ todo' = [todo EXCEPT ![w] = found]
    /\ seen' = [seen EXCEPT ![w] = batch]
    /\ UNCHANGED <<dbVars, queue, nextMid, faults, apiVars, job, cur, good,
                   fallback, tally, snap, verdict, tries, passes>>

\* mutant: the task does not announce itself
BeginSilently(w) ==
    /\ pc[w] = "begin" /\ batch.status # "gone"
    /\ Goto(w, "check")
    /\ UNCHANGED <<dbVars, queue, nextMid, faults, apiVars, job, itemVars,
                   txnVars>>

Begin(w) ==
    /\ pc[w] = "begin" /\ batch.status # "gone"
    /\ batch' = [batch EXCEPT !.status = Assign(seen[w].status, "running", @),
                              !.started = @ \/ job[w].kind = "run"]
    /\ Goto(w, "check")
    /\ UNCHANGED <<rows, nextId, queue, nextMid, faults, apiVars, job, itemVars,
                   txnVars>>

\* the batch was deleted since it was read: the UPDATE matches no row
UpdateLost(w) ==
    /\ pc[w] \in {"begin", "cancel_commit"} /\ batch.status = "gone"
    /\ Settle(w, 1)
    /\ UNCHANGED <<dbVars, queue, nextMid, faults, apiVars, job, itemVars, snap,
                   seen, verdict>>

\* a statement of the task's own session fails: the exception reaches the
\* handler that reconciles
SessionError(w) ==
    /\ pc[w] \in {"open", "begin", "check", "cancelled", "cancel_commit"} /\ faults["db"] > 0
    /\ faults' = [faults EXCEPT !["db"] = @ - 1]
    /\ Settle(w, IF job[w].kind = "retry" /\ pc[w] = "check" THEN 2 ELSE 1)
    /\ UNCHANGED <<dbVars, queue, nextMid, apiVars, job, itemVars, snap, seen,
                   verdict>>

\* _raise_if_cancelled at the boundary of two questions; a run takes them in
\* the order of the dataset, a retry in the order the query returned them
NextItem(w) ==
    /\ pc[w] = "check" /\ todo[w] # {} /\ ~batch.cancel
    /\ \E r \in todo[w] :
         /\ job[w].kind = "run" => \A s \in todo[w] : r.qa <= s.qa
         /\ cur' = [cur EXCEPT ![w] = r]
    /\ Goto(w, "query")
    /\ UNCHANGED <<dbVars, queue, nextMid, faults, apiVars, job, todo, good,
                   fallback, tally, txnVars>>

SeeCancel(w) ==
    /\ pc[w] = "check" /\ todo[w] # {} /\ batch.cancel
    /\ Goto(w, "cancelled")
    /\ UNCHANGED <<dbVars, queue, nextMid, faults, apiVars, job, itemVars, txnVars>>

EndLoop(w) ==
    /\ pc[w] = "check" /\ todo[w] = {}
    /\ Settle(w, 1)
    /\ UNCHANGED <<dbVars, queue, nextMid, faults, apiVars, job, itemVars, snap,
                   seen, verdict>>

Count(w, success) ==
    LET t == tally[w]
    IN  tally' = [tally EXCEPT
                    ![w] = IF success THEN [ok |-> t.ok + 1, failed |-> t.failed]
                                      ELSE [ok |-> t.ok, failed |-> t.failed + 1]]

\* adapter.query succeeds, reports a failure, or raises into the fallback that
\* writes a failed row
Query(w) ==
    /\ pc[w] = "query"
    /\ \E success, raised \in BOOLEAN :
         /\ ~(success /\ raised)
         /\ good' = [good EXCEPT ![w] = success]
         /\ fallback' = [fallback EXCEPT ![w] = raised]
         /\ Count(w, success)
    /\ Goto(w, "write")
    /\ tries' = [tries EXCEPT ![w] = 0]
    /\ UNCHANGED <<dbVars, queue, nextMid, faults, apiVars, job, todo, cur, snap,
                   seen, verdict, passes>>

\* mutant: the rows of the same question stay
OldRowsKept(w) == IF job[w].kind = "run" THEN {}
                                         ELSE {r \in rows : r.id = cur[w].id}

\* mutant: the DELETE of a run forgets the question
OldRowsOfBatch(w) == IF job[w].kind = "run" THEN rows
                                            ELSE {r \in rows : r.id = cur[w].id}

\* _write: what the DELETE of this transaction sees
OldRows(w) == IF job[w].kind = "run" THEN {r \in rows : r.qa = cur[w].qa}
                                     ELSE {r \in rows : r.id = cur[w].id}

WriteOpen(w) ==
    /\ pc[w] = "write"
    /\ snap' = [snap EXCEPT ![w] = OldRows(w)]
    /\ seen' = [seen EXCEPT ![w] = batch]
    /\ Goto(w, "commit")
    /\ UNCHANGED <<dbVars, queue, nextMid, faults, apiVars, job, itemVars,
                   verdict, tries, passes>>

\* the deletes, the insert and, in a run, the counters of one transaction
Apply(w) ==
    /\ rows' = (rows \ snap[w])
               \cup {[id |-> nextId, qa |-> cur[w].qa, ok |-> good[w]]}
    /\ nextId' = nextId + 1
    /\ batch' = IF job[w].kind = "retry" THEN batch
                ELSE [batch EXCEPT
                        !.ok = Assign(seen[w].ok, tally[w].ok, @),
                        !.failed = Assign(seen[w].failed, tally[w].failed, @)]

WriteCommit(w) ==
    /\ pc[w] = "commit" /\ batch.status # "gone"
    /\ Apply(w)
    /\ todo' = [todo EXCEPT ![w] = @ \ {cur[w]}]
    /\ Goto(w, "check")
    /\ UNCHANGED <<queue, nextMid, faults, apiVars, job, cur, good, fallback,
                   tally, txnVars>>

\* after a failed attempt: try again, else leave for the fallback row, else
\* leave the loop
AfterFailedWrite(w, left) ==
    IF left
    THEN /\ Goto(w, "write")
         /\ tries' = [tries EXCEPT ![w] = @ + 1]
         /\ UNCHANGED <<good, fallback, tally, passes>>
    ELSE IF ~fallback[w]
    THEN /\ good' = [good EXCEPT ![w] = FALSE]
         /\ fallback' = [fallback EXCEPT ![w] = TRUE]
         /\ Count(w, FALSE)
         /\ Goto(w, "write")
         /\ tries' = [tries EXCEPT ![w] = 0]
         /\ UNCHANGED passes
    ELSE /\ Settle(w, IF job[w].kind = "retry" THEN 2 ELSE 1)
         /\ UNCHANGED <<good, fallback, tally>>

\* the commit reports an error, whether or not the server applied it
WriteError(w, applied) ==
    /\ pc[w] = "commit" /\ batch.status # "gone" /\ faults["db"] > 0
    /\ faults' = [faults EXCEPT !["db"] = @ - 1]
    /\ IF applied THEN Apply(w) ELSE UNCHANGED dbVars
    /\ AfterFailedWrite(w, tries[w] + 1 < Attempts)
    /\ UNCHANGED <<queue, nextMid, apiVars, job, todo, cur, snap, seen, verdict>>

\* the batch is gone: the foreign key refuses the row at every attempt
WriteRefused(w) ==
    /\ pc[w] = "commit" /\ batch.status = "gone"
    /\ AfterFailedWrite(w, FALSE)
    /\ UNCHANGED <<dbVars, queue, nextMid, faults, apiVars, job, todo, cur, snap,
                   seen, verdict>>

\* the handler of TaskCancelled: the rows written so far stay
CancelRead(w) ==
    /\ pc[w] = "cancelled"
    /\ seen' = [seen EXCEPT ![w] = batch]
    /\ Goto(w, IF batch.status = "gone" THEN "ack" ELSE "cancel_commit")
    /\ UNCHANGED <<dbVars, queue, nextMid, faults, apiVars, job, itemVars, snap,
                   verdict, tries, passes>>

FinishCancelled(w) ==
    /\ pc[w] = "cancel_commit" /\ batch.status # "gone"
    /\ batch' = [batch EXCEPT !.status = Assign(seen[w].status, "cancelled", @),
                              !.cancel = Assign(seen[w].cancel, FALSE, @)]
    /\ Goto(w, "ack")
    /\ UNCHANGED <<rows, nextId, queue, nextMid, faults, apiVars, job, itemVars,
                   txnVars>>

-----------------------------------------------------------------------------
(* _reconcile_terminal_state *)

PassDone(w) ==
    /\ Goto(w, IF passes[w] > 1 THEN "settle" ELSE "ack")
    /\ passes' = [passes EXCEPT ![w] = @ - 1]
    /\ tries' = [tries EXCEPT ![w] = 0]

SettleRead(w) ==
    /\ pc[w] = "settle" /\ batch.status # "gone"
    /\ seen' = [seen EXCEPT ![w] = batch]
    /\ verdict' = [verdict EXCEPT ![w] = Verdict(batch, rows)]
    /\ Goto(w, "settle_commit")
    /\ UNCHANGED <<dbVars, queue, nextMid, faults, apiVars, job, itemVars, snap,
                   tries, passes>>

\* the batch was deleted: "missing"
SettleMissing(w) ==
    /\ pc[w] \in {"settle", "settle_commit"} /\ batch.status = "gone"
    /\ PassDone(w)
    /\ UNCHANGED <<dbVars, queue, nextMid, faults, apiVars, job, itemVars, snap,
                   seen, verdict>>

\* mutant: only the status is settled
ApplyVerdictStatus(w) ==
    batch' = [batch EXCEPT
                !.status = Assign(seen[w].status, verdict[w].status, @),
                !.cancel = Assign(seen[w].cancel, FALSE, @)]

\* cancel_requested is written only by the branch that found it set
ApplyVerdict(w) ==
    batch' = [batch EXCEPT
                !.status = Assign(seen[w].status, verdict[w].status, @),
                !.cancel = Assign(seen[w].cancel, FALSE, @),
                !.ok = Assign(seen[w].ok, verdict[w].ok, @),
                !.failed = Assign(seen[w].failed, verdict[w].failed, @)]

SettleCommit(w) ==
    /\ pc[w] = "settle_commit" /\ batch.status # "gone"
    /\ ApplyVerdict(w)
    /\ PassDone(w)
    /\ UNCHANGED <<rows, nextId, queue, nextMid, faults, apiVars, job, itemVars,
                   snap, seen, verdict>>

\* an attempt fails, applied or not; after the last one the state is "unknown"
SettleError(w, applied) ==
    /\ pc[w] = "settle_commit" /\ batch.status # "gone" /\ faults["db"] > 0
    /\ faults' = [faults EXCEPT !["db"] = @ - 1]
    /\ IF applied THEN ApplyVerdict(w) ELSE UNCHANGED batch
    /\ IF tries[w] + 1 < Attempts
       THEN /\ Goto(w, "settle")
            /\ tries' = [tries EXCEPT ![w] = @ + 1]
            /\ UNCHANGED passes
       ELSE PassDone(w)
    /\ UNCHANGED <<rows, nextId, queue, nextMid, apiVars, job, itemVars, snap,
                   seen, verdict>>

-----------------------------------------------------------------------------
(* The specification *)

Handler(c) ==
    \/ RequestLost(c) \/ StartTask(c) \/ CancelBatch(c) \/ ForceCancelBatch(c)
    \/ FindFailed(c) \/ FindMissing(c) \/ FillMissing(c) \/ RetryOne(c) \/ RetryNothing(c) \/ DeleteBatch(c)
    \/ Dispatch(c)

TaskStep(w) ==
    \/ OpenRun(w) \/ OpenRetry(w) \/ Begin(w) \/ UpdateLost(w)
    \/ NextItem(w) \/ SeeCancel(w) \/ EndLoop(w)
    \/ Query(w) \/ WriteOpen(w) \/ WriteCommit(w) \/ WriteRefused(w)
    \/ CancelRead(w) \/ FinishCancelled(w)
    \/ SettleRead(w) \/ SettleMissing(w) \/ SettleCommit(w)
    \/ Ack(w)

Fault(w) ==
    \/ Crash(w) \/ Kill(w) \/ SessionError(w)
    \/ \E applied \in BOOLEAN : WriteError(w, applied) \/ SettleError(w, applied)

Next ==
    \/ \E c \in Clients, op \in AllOps : Request(c, op)
    \/ \E c \in Clients : Handler(c) \/ DispatchFails(c)
    \/ \E w \in Workers : (\E m \in queue : Take(w, m)) \/ TaskStep(w) \/ Fault(w)

Spec == Init /\ [][Next]_vars

\* a handler and a task run on once started, and an idle worker takes what the
\* broker holds; clients and faults owe nothing
Fairness ==
    /\ \A c \in Clients : WF_vars(Handler(c))
    /\ \A w \in Workers : WF_vars(TaskStep(w)) /\ WF_vars(\E m \in queue : Take(w, m))

FairSpec == Spec /\ Fairness
-----------------------------------------------------------------------------
(* Properties *)

PCs == {"idle", "open", "begin", "check", "query", "write", "commit",
        "cancelled", "cancel_commit", "settle", "settle_commit", "ack"}

\* Every variable keeps its type.
TypeOK ==
    /\ batch \in Batch
    /\ rows \in SUBSET Row /\ nextId \in Nat
    /\ queue \in SUBSET Message /\ nextMid \in Nat
    /\ faults \in [FaultKinds -> Nat]
    /\ rpc \in [Clients -> {"idle", "read", "have", "fill", "dispatch"}]
    /\ rop \in [Clients -> AllOps]
    /\ rseen \in [Clients -> Batch]
    /\ rids \in [Clients -> SUBSET Nat]
    /\ rmissing \in [Clients -> SUBSET QA]
    /\ requests \in Nat
    /\ pc \in [Workers -> PCs]
    /\ job \in [Workers -> Message]
    /\ todo \in [Workers -> SUBSET Row]
    /\ cur \in [Workers -> Row]
    /\ good \in [Workers -> BOOLEAN]
    /\ fallback \in [Workers -> BOOLEAN]
    /\ tally \in [Workers -> [ok : Nat, failed : Nat]]
    /\ snap \in [Workers -> SUBSET Row]
    /\ seen \in [Workers -> Batch]
    /\ verdict \in [Workers -> Batch]
    /\ tries \in [Workers -> Nat]
    /\ passes \in [Workers -> Nat]

Quiet ==
    /\ queue = {}
    /\ \A w \in Workers : pc[w] = "idle"
    /\ \A c \in Clients : rpc[c] = "idle"

\* A batch that says completed has a result for every question of its scope:
\* what create_evaluation relies on when it demands a completed batch.  It must
\* survive stale verdicts, concurrent tasks and a dispatch that fails.
CompletedIsCovered == batch.status = "completed" => Covered(rows) = QA

\* No step but the deletion of the batch takes away the last result of a
\* question: _write deletes the old row and inserts the new one together.
ResultsNeverVanish ==
    [][batch'.status # "gone" => Covered(rows) \subseteq Covered(rows')]_vars

\* When nothing is queued or executing, the batch is not left in running: the
\* order of start_task, the guards around both tasks and the reconciliation.
QuietIsSettled == Quiet => batch.status # "running"

\* A question has at most one result in a batch, whatever is redelivered.
OneRowPerQuestion == \A r, s \in rows : r.qa = s.qa => r = s

\* When nothing is queued or executing, the counters of a completed or failed
\* batch are those of the last row of every question.
SettledCounts ==
    Quiet /\ batch.status \in {"completed", "failed"} =>
        /\ batch.ok = Cardinality(SucceededQA(rows))
        /\ batch.ok + batch.failed = Cardinality(Covered(rows))

\* A completed batch, which an evaluation may be reading, loses no result and
\* gains none but the failed placeholders of a retry that read the batch before
\* it completed (invocations.py:267).  A worker that is still writing has left
\* completed first.
FillOf(q) ==
    \E c \in Clients : rpc[c] = "fill" /\ q \in rmissing[c]
                       /\ rseen[c].status \in {"failed", "cancelled"}
CompletedIsFrozen ==
    [][batch.status = "completed" =>
         \/ batch'.status = "gone"
         \/ rows \subseteq rows' /\ \A r \in rows' \ rows : ~r.ok /\ FillOf(r.qa)]_vars

\* Refuted: a retry of a batch that was cancelled by force reads `have`, the
\* worker that was not dead writes the last result and completes the batch, and
\* the handler commits its placeholder.
CompletedIsUntouched ==
    [][batch.status = "completed" => rows' = rows \/ batch'.status = "gone"]_vars

\* running without started_at means dispatched and not yet claimed, which is
\* what the interface shows as queued.
Unclaimed ==
    \/ \E c \in Clients : rpc[c] = "dispatch" /\ rop[c] = "run"
    \/ \E m \in queue : m.kind = "run"
    \/ \E w \in Workers : pc[w] \in {"open", "begin", "settle", "settle_commit", "ack"}
QueuedState == batch.status = "running" /\ ~batch.started => Unclaimed

\* A running batch whose counters are full, which the handlers no longer take
\* for in flight, has no message queued and no task with a question to ask.
NotInFlightHasNoWork ==
    batch.status = "running" /\ ~InFlight(batch) =>
        queue = {} /\ \A w \in Workers : todo[w] = {} \/ pc[w] = "ack"

\* A dispatched batch settles: every exit of both tasks writes a final state,
\* and a message outlives the worker that held it.
RunSettles == batch.status = "running" ~> batch.status # "running"

-----------------------------------------------------------------------------
(* Why CompletedIsCovered holds: what a handler or a task carries from an     *)
(* earlier read is still true of the rows, because a row id is never reused   *)
(* and no step uncovers a question.                                           *)

\* the id of row t is in use and belongs to t's question
Known(t) == t.id < nextId /\ \A r \in rows : r.id = t.id => r.qa = t.qa

RowIds == nextId >= 1 /\ \A r \in rows : r.id >= 1 /\ Known(r)

TaskIds == \A w \in Workers : Known(cur[w]) /\ \A t \in todo[w] : Known(t)

\* what a transaction is about to delete belongs to the question it inserts
SnapsOneQuestion ==
    \A w \in Workers : pc[w] = "commit" => \A r \in snap[w] : r.qa = cur[w].qa

AllCovered == batch.status = "gone" \/ Covered(rows) = QA

\* a state that is carried to a later write
Carried(b) == b.status # "gone" /\ (b.status = "completed" => AllCovered)

SeenCovered == \A c \in Clients : rpc[c] # "idle" => Carried(rseen[c])
VerdictCovered == \A w \in Workers : pc[w] = "settle_commit" => Carried(verdict[w])

CoverInv ==
    /\ RowIds /\ TaskIds /\ SnapsOneQuestion
    /\ CompletedIsCovered /\ SeenCovered /\ VerdictCovered

\* InvocationBatch implements BatchContract.
Contract == INSTANCE BatchContract
              WITH Questions <- QA, status <- batch.status, covered <- Covered(rows)
ImplementsContract == Contract!Spec
=============================================================================
