------------------------ MODULE InvocationRuns_proofs ------------------------
(***************************************************************************)
(* The executions of a batch.                                              *)
(*                                                                         *)
(* Without retries.  A question has one result: the DELETE of _write sees  *)
(* every row of the question, and with one worker no other transaction     *)
(* inserts one before the commit.  A retry deletes its row by id, so that  *)
(* a commit it repeats finds nothing to delete.                            *)
(*                                                                         *)
(* Without retries that are redelivered.  A batch is not left in running:  *)
(* whoever commits running has a dispatch, a message or an execution       *)
(* before it, and that one commits a final state.  A retry that is         *)
(* redelivered after its last row does not.                                *)
(*                                                                         *)
(* With retries, for one worker.  An execution that works on questions has *)
(* announced itself, so a completed batch keeps its results; it gains only *)
(* placeholders of a retry that read the batch before it completed.        *)
(* The counters are those of the results unless a retry that will find one *)
(* of them is still to run, or an execution is about to count.             *)
(***************************************************************************)
EXTENDS InvocationBatch_proofs

OneWorker == \A v, w \in Workers : v = w
NoRetry == Ops \cap {"retry", "retry_one"} = {}

\* no handler, message or task is a retry
OnlyRuns ==
    /\ \A c \in Clients : /\ rop[c] \notin {"retry", "retry_one"}
                          /\ rpc[c] = "dispatch" => rop[c] = "run"
    /\ \A m \in queue : m.kind = "run"
    /\ \A w \in Workers : job[w].kind = "run"

\* a transaction is about to delete every row of its question
SnapsWhole ==
    \A w \in Workers : pc[w] = "commit" =>
        \A r \in rows : r.qa = cur[w].qa => r \in snap[w]

RowInv == TypeInv /\ OnlyRuns /\ SnapsWhole /\ OneRowPerQuestion

-----------------------------------------------------------------------------
LEMMA OnlyRunsKept == ASSUME NoRetry, TypeInv, OnlyRuns, [Next]_vars PROVE OnlyRuns'
<1> USE DEF TypeInv, TypeOK, OnlyRuns, apiVars, itemVars, txnVars, dbVars, workerVars
<1>1. CASE UNCHANGED vars BY <1>1 DEF vars
<1>2. ASSUME NEW c \in Clients, NEW op \in AllOps, Request(c, op) PROVE OnlyRuns'
  <2>1. /\ op \notin {"retry", "retry_one"} /\ rop' = [rop EXCEPT ![c] = op]
        /\ rpc' = [rpc EXCEPT ![c] = "read"] /\ UNCHANGED <<queue, job>>
    BY <1>2 DEF Request, NoRetry
  <2>2. \A d \in Clients : /\ rop'[d] \notin {"retry", "retry_one"}
                          /\ rpc'[d] = "dispatch" => rop'[d] = "run"
    BY <2>1
  <2> QED BY <2>1, <2>2
<1>3. ASSUME NEW c \in Clients, Dispatch(c) PROVE OnlyRuns'
  <2>1. /\ queue' = queue \cup {[mid |-> nextMid, kind |-> Kind(rop[c]), ids |-> rids[c]]}
        /\ rpc[c] = "dispatch" /\ rpc' = [rpc EXCEPT ![c] = "idle"] /\ UNCHANGED <<rop, job>>
    BY <1>3 DEF Dispatch
  <2>2. \A m \in queue' : m.kind = "run"
    BY <2>1 DEF Kind
  <2> QED BY <2>1, <2>2
<1>4. ASSUME NEW c \in Clients, (Handler(c) /\ ~Dispatch(c)) \/ DispatchFails(c) PROVE OnlyRuns'
  BY <1>4 DEF Handler, RequestLost, StartTask, CancelBatch, ForceCancelBatch, FindFailed, FindMissing, FillMissing, RetryOne,
         RetryNothing, DeleteBatch, DispatchFails
<1>5. ASSUME NEW w \in Workers, NEW m \in queue, Take(w, m) PROVE OnlyRuns'
  BY <1>5 DEF Take
<1>6. ASSUME NEW w \in Workers, TaskStep(w) \/ Fault(w)
      PROVE  /\ UNCHANGED <<rop, rpc>>
             /\ queue' = queue \/ queue' = queue \cup {job[w]}
             /\ job' = job \/ job' = [job EXCEPT ![w] = NoMessage]
  <2>1. CASE Ack(w) \/ Crash(w) \/ Kill(w)
    BY <2>1 DEF Ack, Crash, Kill, Release
  <2>2. CASE TaskStep(w) /\ ~Ack(w)
    BY <2>2 DEF TaskStep, OpenRun, OpenRetry, Begin, UpdateLost, NextItem, SeeCancel, EndLoop, Query,
           WriteOpen, WriteCommit, WriteRefused, CancelRead, FinishCancelled, SettleRead, SettleMissing, SettleCommit
  <2>3. CASE SessionError(w) \/ \E applied \in BOOLEAN : WriteError(w, applied) \/ SettleError(w, applied)
    BY <2>3 DEF SessionError, WriteError, SettleError
  <2> QED BY <1>6, <2>1, <2>2, <2>3 DEF Fault
<1>7. ASSUME NEW w \in Workers, TaskStep(w) \/ Fault(w) PROVE OnlyRuns'
  <2>1. /\ UNCHANGED <<rop, rpc>>
        /\ queue' = queue \/ queue' = queue \cup {job[w]}
        /\ job' = job \/ job' = [job EXCEPT ![w] = NoMessage]
    BY <1>6, <1>7
  <2>2. NoMessage.kind = "run" /\ DOMAIN job = Workers
    BY DEF NoMessage
  <2> HIDE DEF NoMessage
  <2>3. \A v \in Workers : job'[v].kind = "run"
    BY <2>1, <2>2
  <2>4. \A m \in queue' : m.kind = "run"
    BY <2>1
  <2> QED BY <2>1, <2>3, <2>4
<1> QED BY <1>1, <1>2, <1>3, <1>4, <1>5, <1>7 DEF Next

\* the steps that write rows
Writes(w) ==
    /\ pc[w] = "commit" /\ pc'[w] # "commit"
    /\ rows' = (rows \ snap[w]) \cup {[id |-> nextId, qa |-> cur[w].qa, ok |-> good[w]]}

LEMMA RowSteps ==
    ASSUME TypeInv, OnlyRuns, [Next]_vars
    PROVE  \/ UNCHANGED rows \/ rows' = {}
           \/ \E w \in Workers : Writes(w)
<1> USE DEF TypeInv, TypeOK, dbVars
<1>1. CASE UNCHANGED vars BY <1>1 DEF vars
<1>2. ASSUME NEW c \in Clients, Handler(c) \/ DispatchFails(c) \/ \E op \in AllOps : Request(c, op)
      PROVE  UNCHANGED rows \/ rows' = {}
  BY <1>2 DEF OnlyRuns, Handler, RequestLost, StartTask, CancelBatch, ForceCancelBatch, FindFailed, FindMissing, FillMissing,
         RetryOne, RetryNothing, DeleteBatch, Dispatch, DispatchFails, Request
<1>3. ASSUME NEW w \in Workers, TaskStep(w) \/ Fault(w) \/ \E m \in queue : Take(w, m)
      PROVE  UNCHANGED rows \/ Writes(w)
  <2>1. CASE WriteCommit(w) BY <2>1 DEF WriteCommit, Apply, Goto, Writes
  <2>2. ASSUME NEW applied \in BOOLEAN, WriteError(w, applied) PROVE UNCHANGED rows \/ Writes(w)
    <3>1. pc[w] = "commit" /\ (Apply(w) \/ UNCHANGED rows)
      BY <2>2 DEF WriteError
    <3>2. pc' = [pc EXCEPT ![w] = "write"] \/ pc' = [pc EXCEPT ![w] = "settle"]
      BY <2>2 DEF WriteError, AfterFailedWrite, Goto, Settle
    <3> QED BY <3>1, <3>2 DEF Apply, Writes
  <2>3. CASE ~WriteCommit(w) /\ ~\E applied \in BOOLEAN : WriteError(w, applied)
    BY <1>3, <2>3 DEF TaskStep, Fault, Take, OpenRun, OpenRetry, Begin, UpdateLost, NextItem, SeeCancel,
           EndLoop, Query, WriteOpen, WriteRefused, CancelRead, FinishCancelled, SettleRead, SettleMissing,
           SettleCommit, Ack, Crash, Kill, SessionError, SettleError
  <2> QED BY <2>1, <2>2, <2>3
<1> QED BY <1>1, <1>2, <1>3 DEF Next

\* A task that is about to commit has just opened its transaction or waited.
LEMMA CommitSteps ==
    ASSUME TypeInv, OnlyRuns, [Next]_vars, NEW w \in Workers, pc'[w] = "commit"
    PROVE  /\ cur'[w] = cur[w]
           /\ \/ pc[w] = "commit" /\ snap'[w] = snap[w]
              \/ snap'[w] = {r \in rows : r.qa = cur[w].qa} /\ UNCHANGED rows
<1> USE DEF TypeInv, TypeOK, apiVars, itemVars, txnVars, dbVars, workerVars, Goto, Settle
<1> DEFINE Same == pc'[w] = pc[w] /\ cur'[w] = cur[w] /\ snap'[w] = snap[w]
<1>1. CASE UNCHANGED vars BY <1>1 DEF vars
<1>2. ASSUME NEW v \in Workers, TaskStep(v) \/ Fault(v) \/ \E m \in queue : Take(v, m), v # w
      PROVE  Same
  BY <1>2 DEF TaskStep, Fault, Take, OpenRun, OpenRetry, Begin, UpdateLost, NextItem, SeeCancel,
         EndLoop, Query, WriteOpen, WriteCommit, WriteRefused, WriteError, AfterFailedWrite,
         CancelRead, FinishCancelled, SettleRead, SettleMissing, SettleCommit, SettleError, PassDone, Ack, Crash,
         Kill, SessionError, Release
<1>3. CASE WriteOpen(w) BY <1>3 DEF WriteOpen, OldRows, OnlyRuns
<1>4. CASE TaskStep(w) /\ ~WriteOpen(w)
  <2>1. pc'[w] # "commit"
    BY <1>4 DEF TaskStep, OpenRun, OpenRetry, Begin, UpdateLost, NextItem, SeeCancel, EndLoop, Query,
           WriteCommit, WriteRefused, AfterFailedWrite, CancelRead, FinishCancelled, SettleRead, SettleMissing,
           SettleCommit, PassDone, Ack, Release
  <2> QED BY <2>1
<1>5. CASE Fault(w)
  <2>1. pc'[w] # "commit"
    BY <1>5 DEF Fault, WriteError, AfterFailedWrite, SettleError, PassDone, Crash, Kill, SessionError,
           Release
  <2> QED BY <2>1
<1>6. ASSUME NEW m \in queue, Take(w, m) PROVE FALSE BY <1>6 DEF Take
<1>7. ASSUME NEW c \in Clients, Handler(c) \/ DispatchFails(c) \/ \E op \in AllOps : Request(c, op)
      PROVE  Same
  BY <1>7 DEF Handler, Request, RequestLost, StartTask, CancelBatch, ForceCancelBatch, FindFailed, FindMissing, FillMissing,
         RetryOne, RetryNothing, DeleteBatch, Dispatch, DispatchFails
<1> QED BY <1>1, <1>2, <1>3, <1>4, <1>5, <1>6, <1>7 DEF Next

LEMMA WholeKept ==
    ASSUME OneWorker, TypeInv, OnlyRuns, SnapsWhole, [Next]_vars PROVE SnapsWhole'
<1> SUFFICES ASSUME NEW w \in Workers, pc'[w] = "commit", NEW r \in rows', r.qa = cur'[w].qa
             PROVE  r \in snap'[w]
  BY DEF SnapsWhole
<1>1. UNCHANGED rows
  BY RowSteps DEF Writes, OneWorker
<1> QED BY <1>1, CommitSteps DEF SnapsWhole

LEMMA OneRowKept ==
    ASSUME TypeInv, OnlyRuns, SnapsWhole, OneRowPerQuestion, [Next]_vars PROVE OneRowPerQuestion'
<1>1. ASSUME NEW w \in Workers, Writes(w) PROVE OneRowPerQuestion'
  <2> DEFINE new == [id |-> nextId, qa |-> cur[w].qa, ok |-> good[w]]
  <2>1. new.qa = cur[w].qa
    OBVIOUS
  <2>2. rows' = (rows \ snap[w]) \cup {new}
    BY <1>1 DEF Writes
  <2>3. \A r \in rows \ snap[w] : r.qa # new.qa
    BY <1>1, <2>1 DEF Writes, SnapsWhole
  <2> HIDE DEF new
  <2> QED BY <2>2, <2>3 DEF OneRowPerQuestion
<1> QED BY <1>1, RowSteps DEF OneRowPerQuestion

LEMMA InitRowInv == Init => RowInv
BY InitTypeInv DEF Init, RowInv, OnlyRuns, SnapsWhole, OneRowPerQuestion, NoMessage

\* With one worker and no retry a question has at most one result, whatever is
\* redelivered, cancelled or reported as an error after it was applied, for
\* any number of questions, clients and faults (invocation_tasks.py:57).
THEOREM OneRowPerQuestionThm == ASSUME OneWorker, NoRetry PROVE Spec => []OneRowPerQuestion
<1>1. RowInv /\ [Next]_vars => RowInv'
  BY NextTypeInv, OnlyRunsKept, WholeKept, OneRowKept DEF RowInv
<1>2. RowInv => OneRowPerQuestion
  BY DEF RowInv
<1> QED BY <1>1, <1>2, InitRowInv, PTL DEF Spec

-----------------------------------------------------------------------------
NoCrash == Budget["crash"] = 0

\* An execution that will commit a final state.  A reconciliation that found
\* the state it decided writes nothing, and a retry that finds no row ends.
Obliged(w) ==
    \/ pc[w] = "open" /\ job[w].kind = "run"
    \/ pc[w] \in {"begin", "check", "query", "write", "commit", "cancelled", "settle"}
    \/ pc[w] = "cancel_commit" /\ seen[w].status # "cancelled"
    \/ pc[w] = "settle_commit" /\ verdict[w].status # seen[w].status

RunQueued == \E m \in queue : m.kind = "run"

Pending ==
    \/ \E c \in Clients : rpc[c] = "dispatch" /\ rop[c] = "run"
    \/ RunQueued
    \/ \E w \in Workers : Obliged(w)

\* faults that commit_with_retry outlives: fewer database errors than
\* attempts, no kill at the time limit, no dispatch that fails
FewFaults == Budget["kill"] = 0 /\ Budget["broker"] = 0 /\ Budget["db"] < Attempts

\* the reconciliation has an attempt left for every database error to come
AttemptsLeft ==
    /\ faults["kill"] = 0 /\ faults["broker"] = 0 /\ faults["db"] <= Budget["db"]
    /\ \A w \in Workers :
          /\ pc[w] \in {"settle", "settle_commit"} => tries[w] + faults["db"] <= Budget["db"]
          /\ pc[w] = "settle_commit" => verdict[w].status \in Terminal

\* no retry is delivered twice
RetriesOnce == IF NoCrash THEN faults["crash"] = 0 ELSE OnlyRuns

SettleInv == TypeInv /\ RetriesOnce /\ AttemptsLeft /\ (batch.status = "running" => Pending)

\* what one step of execution w does to the state of the batch
Answers(w) ==
    \/ Obliged(w)' \/ batch'.status # "running" \/ RunQueued'
    \/ ~Obliged(w) /\ batch'.status = batch.status /\ (RunQueued => RunQueued')

LEMMA TaskAnswers ==
    ASSUME FewFaults, TypeInv, RetriesOnce, AttemptsLeft, NEW w \in Workers,
           TaskStep(w) \/ Fault(w) \/ \E m \in queue : Take(w, m)
    PROVE  Answers(w)
<1> USE DEF TypeInv, TypeOK, Answers, Obliged, RunQueued, Goto, Settle, itemVars, txnVars, dbVars
<1>1. ASSUME NEW m \in queue, Take(w, m) PROVE Answers(w) BY <1>1 DEF Take
<1>2. CASE OpenRun(w) BY <1>2 DEF OpenRun
<1>3. CASE OpenRetry(w) BY <1>3 DEF OpenRetry
<1>4. CASE Begin(w) \/ UpdateLost(w) \/ NextItem(w) \/ SeeCancel(w) \/ EndLoop(w) \/ Query(w)
  BY <1>4 DEF Begin, UpdateLost, NextItem, SeeCancel, EndLoop, Query
<1>5. CASE WriteOpen(w) \/ WriteCommit(w) \/ WriteRefused(w)
  BY <1>5 DEF WriteOpen, WriteCommit, WriteRefused, AfterFailedWrite
<1>6. CASE CancelRead(w) \/ FinishCancelled(w)
  <2>1. CASE CancelRead(w) BY <2>1 DEF CancelRead
  <2>2. CASE FinishCancelled(w)
    <3>1. /\ batch'.status = Assign(seen[w].status, "cancelled", batch.status)
          /\ pc[w] = "cancel_commit" /\ queue' = queue
      BY <2>2 DEF FinishCancelled, Batch
    <3> QED BY <3>1 DEF Assign
  <2> QED BY <1>6, <2>1, <2>2
<1>7. CASE SettleRead(w)
  <2>1. Verdict(batch, rows).status \in Terminal BY DEF Verdict, Terminal
  <2>2. seen'[w] = batch /\ verdict'[w] = Verdict(batch, rows) /\ pc'[w] = "settle_commit" /\ batch' = batch
    BY <1>7 DEF SettleRead
  <2> QED BY <2>1, <2>2 DEF Terminal
<1>8. CASE SettleMissing(w) BY <1>8 DEF SettleMissing
<1>9. CASE SettleCommit(w)
  <2>1. batch'.status = Assign(seen[w].status, verdict[w].status, batch.status) /\ queue' = queue
    BY <1>9 DEF SettleCommit, ApplyVerdict, Batch
  <2>2. verdict[w].status \in Terminal /\ pc[w] = "settle_commit"
    BY <1>9 DEF SettleCommit, AttemptsLeft
  <2> QED BY <2>1, <2>2 DEF Assign, Terminal
<1>10. CASE Ack(w) BY <1>10 DEF Ack
<1>11. CASE Crash(w)
  <2>1. pc[w] # "idle" /\ faults["crash"] > 0 /\ queue' = queue \cup {job[w]}
    BY <1>11 DEF Crash
  <2>2. job[w].kind = "run"
    BY <2>1 DEF RetriesOnce, OnlyRuns
  <2> QED BY <2>1, <2>2
<1>12. CASE Kill(w) BY <1>12 DEF Kill, AttemptsLeft
<1>13. CASE SessionError(w) BY <1>13 DEF SessionError
<1>14. ASSUME NEW applied \in BOOLEAN, WriteError(w, applied) PROVE Answers(w)
  BY <1>14 DEF WriteError, AfterFailedWrite
<1>15. ASSUME NEW applied \in BOOLEAN, SettleError(w, applied) PROVE Answers(w)
  <2>1. tries[w] + 1 < Attempts
    BY <1>15, AttemptsAssumption, BudgetAssumption DEF SettleError, AttemptsLeft, FewFaults, FaultKinds
  <2> QED BY <1>15, <2>1 DEF SettleError
<1> QED BY <1>1, <1>2, <1>3, <1>4, <1>5, <1>6, <1>7, <1>8, <1>9, <1>10, <1>11, <1>12, <1>13, <1>14,
           <1>15 DEF TaskStep, Fault

LEMMA HandlersIdle ==
    ASSUME NEW w \in Workers, TaskStep(w) \/ Fault(w) \/ \E m \in queue : Take(w, m)
    PROVE  rpc' = rpc /\ rop' = rop
BY DEF TaskStep, Fault, Take, OpenRun, OpenRetry, Begin, UpdateLost, NextItem, SeeCancel, EndLoop,
       Query, WriteOpen, WriteCommit, WriteRefused, WriteError, CancelRead, FinishCancelled, SettleRead,
       SettleMissing, SettleCommit, SettleError, Ack, Crash, Kill, SessionError, apiVars

\* one execution leaves the others alone
LEMMA OthersStay ==
    ASSUME TypeInv, NEW w \in Workers, NEW v \in Workers \ {w},
           TaskStep(w) \/ Fault(w) \/ \E m \in queue : Take(w, m)
    PROVE  /\ Obliged(v)' <=> Obliged(v)
           /\ pc'[v] = pc[v] /\ tries'[v] = tries[v] /\ verdict'[v] = verdict[v]
           /\ seen'[v] = seen[v] /\ job'[v] = job[v]
<1> USE DEF TypeInv, TypeOK, apiVars, itemVars, txnVars, dbVars, Goto, Settle
<1>1. /\ pc'[v] = pc[v] /\ seen'[v] = seen[v] /\ verdict'[v] = verdict[v]
      /\ tries'[v] = tries[v] /\ job'[v] = job[v]
  BY DEF TaskStep, Fault, Take, OpenRun, OpenRetry, Begin, UpdateLost, NextItem, SeeCancel,
         EndLoop, Query, WriteOpen, WriteCommit, WriteRefused, WriteError, AfterFailedWrite,
         CancelRead, FinishCancelled, SettleRead, SettleMissing, SettleCommit, SettleError, PassDone, Ack, Crash,
         Kill, SessionError, Release
<1> QED BY <1>1 DEF Obliged

LEMMA HandlersAnswer ==
    ASSUME TypeInv, AttemptsLeft, NEW c \in Clients,
           Handler(c) \/ DispatchFails(c) \/ \E op \in AllOps : Request(c, op)
    PROVE  \/ rpc'[c] = "dispatch" /\ rop'[c] = "run"
           \/ batch'.status # "running" \/ RunQueued'
           \/ /\ batch'.status = batch.status /\ (RunQueued => RunQueued')
              /\ \A d \in Clients : rpc[d] = "dispatch" /\ rop[d] = "run"
                                     => rpc'[d] = "dispatch" /\ rop'[d] = "run"
<1> USE DEF TypeInv, TypeOK, txnVars, itemVars, workerVars, dbVars, Batch, RunQueued
<1>1. CASE DispatchFails(c) BY <1>1 DEF DispatchFails, AttemptsLeft
<1>2. CASE Dispatch(c)
  <2> DEFINE m == [mid |-> nextMid, kind |-> Kind(rop[c]), ids |-> rids[c]]
  <2>1. queue' = queue \cup {m} /\ rpc' = [rpc EXCEPT ![c] = "idle"] /\ UNCHANGED <<batch, rop>>
    BY <1>2 DEF Dispatch
  <2>2. rop[c] = "run" => m.kind = "run"
    BY DEF Kind
  <2> HIDE DEF m
  <2> QED BY <2>1, <2>2
<1>3. CASE StartTask(c) BY <1>3 DEF StartTask
<1>4. CASE CancelBatch(c) \/ ForceCancelBatch(c) \/ DeleteBatch(c) \/ RequestLost(c)
           \/ FindFailed(c) \/ FindMissing(c) \/ FillMissing(c) \/ RetryOne(c) \/ RetryNothing(c) \/ \E op \in AllOps : Request(c, op)
  BY <1>4 DEF RequestLost, CancelBatch, ForceCancelBatch, FindFailed, FindMissing, FillMissing,
         RetryOne, RetryNothing, DeleteBatch, Request
<1> QED BY <1>1, <1>2, <1>3, <1>4 DEF Handler

Loop == {"check", "query", "write", "commit", "cancelled", "cancel_commit"}
Final == {"completed", "failed"}

\* handlers leave the executions and the counters alone and end no batch
LEMMA HandlersEnd ==
    ASSUME TypeInv, faults["broker"] = 0, NEW c \in Clients,
           Handler(c) \/ DispatchFails(c) \/ \E op \in AllOps : Request(c, op)
    PROVE  /\ UNCHANGED <<pc, job, seen, verdict, tries, passes, faults>>
           /\ batch'.status \in Final => batch'.status = batch.status
           /\ batch'.ok = batch.ok /\ batch'.failed = batch.failed
<1> USE DEF TypeInv, TypeOK, txnVars, itemVars, workerVars, dbVars, Batch, Final, Assign
<1>1. CASE DispatchFails(c) BY <1>1 DEF DispatchFails
<1>2. CASE Handler(c) \/ \E op \in AllOps : Request(c, op)
  <2>1. CASE StartTask(c) BY <2>1 DEF StartTask
  <2>2. CASE CancelBatch(c) \/ ForceCancelBatch(c) \/ DeleteBatch(c)
    BY <2>2 DEF CancelBatch, ForceCancelBatch, DeleteBatch
  <2>3. CASE RequestLost(c) \/ FindFailed(c) \/ FindMissing(c) \/ FillMissing(c) \/ RetryOne(c) \/ RetryNothing(c) \/ Dispatch(c)
    BY <2>3 DEF RequestLost, FindFailed, FindMissing, FillMissing, RetryOne, RetryNothing, Dispatch
  <2>4. CASE \E op \in AllOps : Request(c, op)
    BY <2>4 DEF Request
  <2> QED BY <1>2, <2>1, <2>2, <2>3, <2>4 DEF Handler
<1> QED BY <1>1, <1>2

LEMMA AttemptsKept == ASSUME TypeInv, AttemptsLeft, [Next]_vars PROVE AttemptsLeft'
<1> USE DEF TypeInv, TypeOK, AttemptsLeft
<1>1. CASE UNCHANGED vars BY <1>1 DEF vars
<1>2. ASSUME NEW c \in Clients, Handler(c) \/ DispatchFails(c) \/ \E op \in AllOps : Request(c, op)
      PROVE  AttemptsLeft'
  BY <1>2, HandlersEnd
<1>3. ASSUME NEW w \in Workers, TaskStep(w) \/ Fault(w) \/ \E m \in queue : Take(w, m)
      PROVE  AttemptsLeft'
  <2> DEFINE Strikes(k) == faults[k] > 0 /\ faults' = [faults EXCEPT ![k] = @ - 1]
             Cares == /\ UNCHANGED faults \/ \E k \in {"crash", "kill", "db"} : Strikes(k)
                      /\ pc'[w] \in {"settle", "settle_commit"} =>
                           \/ tries'[w] = 0
                           \/ pc[w] = "settle" /\ tries'[w] = tries[w]
                           \/ pc[w] = "settle_commit" /\ tries'[w] = tries[w] + 1 /\ Strikes("db")
                      /\ pc'[w] = "settle_commit" => verdict'[w].status \in Terminal
             Fewer == /\ faults["db"] \in Nat /\ Budget["db"] \in Nat /\ faults'["db"] \in Nat
                      /\ faults'["kill"] = 0 /\ faults'["broker"] = 0 /\ faults'["db"] <= faults["db"]
                      /\ Strikes("db") => faults'["db"] + 1 = faults["db"]
  <2>1. Cares
    <3> USE DEF Goto, Settle, itemVars, txnVars
    <3>1. CASE SettleRead(w)
      <4>1. Verdict(batch, rows).status \in Terminal BY DEF Verdict, Terminal
      <4> QED BY <3>1, <4>1 DEF SettleRead
    <3>2. ASSUME NEW applied \in BOOLEAN, SettleError(w, applied) PROVE Cares
      BY <3>2 DEF SettleError, PassDone
    <3>3. CASE TaskStep(w) /\ ~SettleRead(w)
      BY <3>3 DEF TaskStep, OpenRun, OpenRetry, Begin, UpdateLost, NextItem, SeeCancel, EndLoop, Query,
             WriteOpen, WriteCommit, WriteRefused, AfterFailedWrite, CancelRead, FinishCancelled, SettleMissing,
             SettleCommit, PassDone, Ack, Release
    <3>4. CASE Crash(w) \/ Kill(w) \/ SessionError(w)
      BY <3>4 DEF Crash, Kill, SessionError, Release
    <3>5. ASSUME NEW applied \in BOOLEAN, WriteError(w, applied) PROVE Cares
      BY <3>5 DEF WriteError, AfterFailedWrite
    <3>6. ASSUME NEW m \in queue, Take(w, m) PROVE Cares
      BY <3>6 DEF Take
    <3> QED BY <1>3, <3>1, <3>2, <3>3, <3>4, <3>5, <3>6 DEF Fault
  <2>2. Fewer
    <3>1. /\ DOMAIN faults = FaultKinds /\ \A k \in FaultKinds : faults[k] \in Nat /\ Budget[k] \in Nat
          /\ faults["kill"] = 0 /\ faults["broker"] = 0
      BY BudgetAssumption
    <3> HIDE DEF TypeInv, TypeOK, AttemptsLeft
    <3>2. CASE UNCHANGED faults BY <3>1, <3>2 DEF FaultKinds
    <3>3. ASSUME NEW k \in {"crash", "db"}, Strikes(k) PROVE Fewer
      BY <3>1, <3>3 DEF FaultKinds
    <3> QED BY <2>1, <3>1, <3>2, <3>3
  <2>3. pc'[w] \in {"settle", "settle_commit"} => tries'[w] + faults'["db"] <= Budget["db"]
    <3>1. tries[w] \in Nat /\ (pc[w] \in {"settle", "settle_commit"} => tries[w] + faults["db"] <= Budget["db"])
      OBVIOUS
    <3>2. faults["db"] <= Budget["db"]
      OBVIOUS
    <3> HIDE DEF TypeInv, TypeOK, AttemptsLeft
    <3> QED BY <2>1, <2>2, <3>1, <3>2
  <2>4. ASSUME NEW v \in Workers \ {w}
        PROVE  /\ pc'[v] \in {"settle", "settle_commit"} => tries'[v] + faults'["db"] <= Budget["db"]
               /\ pc'[v] = "settle_commit" => verdict'[v].status \in Terminal
    <3>1. pc'[v] = pc[v] /\ tries'[v] = tries[v] /\ verdict'[v] = verdict[v] /\ tries[v] \in Nat
      BY <1>3, OthersStay
    <3>2. /\ pc[v] \in {"settle", "settle_commit"} => tries[v] + faults["db"] <= Budget["db"]
          /\ pc[v] = "settle_commit" => verdict[v].status \in Terminal
      OBVIOUS
    <3> HIDE DEF TypeInv, TypeOK, AttemptsLeft
    <3> QED BY <2>2, <3>1, <3>2
  <2>5. faults'["db"] <= Budget["db"]
    BY <2>2
  <2>6. \A v \in Workers :
          /\ pc'[v] \in {"settle", "settle_commit"} => tries'[v] + faults'["db"] <= Budget["db"]
          /\ pc'[v] = "settle_commit" => verdict'[v].status \in Terminal
    BY <2>1, <2>3, <2>4
  <2> QED BY <2>2, <2>5, <2>6
<1> QED BY <1>1, <1>2, <1>3 DEF Next

\* no worker is lost that may not be
LEMMA CrashKept ==
    ASSUME TypeInv, faults["crash"] = 0, faults["broker"] = 0, [Next]_vars PROVE faults'["crash"] = 0
<1>1. CASE UNCHANGED vars BY <1>1 DEF vars
<1>2. ASSUME NEW c \in Clients, Handler(c) \/ DispatchFails(c) \/ \E op \in AllOps : Request(c, op)
      PROVE  faults'["crash"] = 0
  BY <1>2, HandlersEnd
<1>3. ASSUME NEW w \in Workers, TaskStep(w) \/ Fault(w) \/ \E m \in queue : Take(w, m)
      PROVE  faults'["crash"] = 0
  <2>0. ~Crash(w)
    BY DEF Crash
  <2>1. UNCHANGED faults \/ \E k \in {"kill", "db"} : faults' = [faults EXCEPT ![k] = @ - 1]
    BY <1>3, <2>0 DEF TaskStep, Fault, Take, OpenRun, OpenRetry, Begin, UpdateLost, NextItem, SeeCancel,
         EndLoop, Query, WriteOpen, WriteCommit, WriteRefused, WriteError, CancelRead,
         FinishCancelled,
         SettleRead, SettleMissing, SettleCommit, SettleError, Ack, Kill, SessionError
  <2>2. DOMAIN faults = FaultKinds
    BY DEF TypeInv, TypeOK
  <2>3. ASSUME NEW k \in {"kill", "db"}, faults' = [faults EXCEPT ![k] = @ - 1]
        PROVE  faults'["crash"] = faults["crash"]
    BY <2>2, <2>3 DEF FaultKinds
  <2> QED BY <2>1, <2>3
<1> QED BY <1>1, <1>2, <1>3 DEF Next

LEMMA PendingKept ==
    ASSUME FewFaults, SettleInv, [Next]_vars PROVE batch'.status = "running" => Pending'
<1>0. TypeInv /\ RetriesOnce /\ AttemptsLeft /\ (batch.status = "running" => Pending)
      /\ faults["broker"] = 0
  BY DEF SettleInv, AttemptsLeft
<1>1. CASE UNCHANGED vars BY <1>0, <1>1 DEF vars, Pending, Obliged, RunQueued
<1>2. ASSUME NEW c \in Clients, Handler(c) \/ DispatchFails(c) \/ \E op \in AllOps : Request(c, op)
      PROVE  batch'.status = "running" => Pending'
  <2>1. \A w \in Workers : Obliged(w)' <=> Obliged(w)
    BY <1>0, <1>2, HandlersEnd DEF Obliged
  <2> QED BY <1>0, <1>2, <2>1, HandlersAnswer DEF Pending
<1>3. ASSUME NEW w \in Workers, TaskStep(w) \/ Fault(w) \/ \E m \in queue : Take(w, m)
      PROVE  batch'.status = "running" => Pending'
  <2>1. Answers(w) BY <1>0, <1>3, TaskAnswers
  <2>2. rpc' = rpc /\ rop' = rop /\ \A v \in Workers \ {w} : Obliged(v)' <=> Obliged(v)
    BY <1>0, <1>3, OthersStay, HandlersIdle
  <2> QED BY <1>0, <2>1, <2>2 DEF Answers, Pending
<1> QED BY <1>1, <1>2, <1>3 DEF Next

LEMMA RetriesOnceKept ==
    ASSUME NoRetry \/ NoCrash, TypeInv, AttemptsLeft, RetriesOnce, [Next]_vars PROVE RetriesOnce'
<1>1. NoCrash => faults'["crash"] = 0
  BY CrashKept DEF RetriesOnce, AttemptsLeft
<1>2. ~NoCrash => OnlyRuns'
  BY OnlyRunsKept DEF RetriesOnce
<1> QED BY <1>1, <1>2 DEF RetriesOnce, NoCrash

LEMMA InitSettleInv == FewFaults /\ Init => SettleInv /\ OnlyRuns
BY InitTypeInv, BudgetAssumption DEF Init, SettleInv, OnlyRuns, RetriesOnce, NoCrash, AttemptsLeft,
   FewFaults, NewBatch, NoMessage, FaultKinds

\* A batch is not left in running, for any number of questions, workers and
\* clients, when the database fails less often than the commit is tried, and
\* when no retry is delivered twice, for nobody retries or no worker is lost:
\* start_task, the guards of both tasks and _reconcile_terminal_state
\* (invocation_tasks.py:127).
THEOREM QuietIsSettledThm ==
    ASSUME NoRetry \/ NoCrash, FewFaults PROVE Spec => []QuietIsSettled
<1>1. SettleInv /\ [Next]_vars => SettleInv'
  BY NextTypeInv, RetriesOnceKept, AttemptsKept, PendingKept DEF SettleInv
<1>2. SettleInv => QuietIsSettled
  BY DEF SettleInv, QuietIsSettled, Quiet, Pending, Obliged, RunQueued
<1> QED BY <1>1, <1>2, InitSettleInv, PTL DEF Spec

-----------------------------------------------------------------------------
(* What the interface shows as queued.  Only start_task clears started_at,  *)
(* and the execution it leads to sets it or settles the batch.              *)

Unstarted == batch.status = "running" /\ ~batch.started

\* an execution that will set started_at or commit a final state
Claims(w) ==
    \/ pc[w] \in {"open", "begin", "settle"}
    \/ pc[w] = "settle_commit" /\ verdict[w].status # seen[w].status

Awaited ==
    \/ \E c \in Clients : rpc[c] = "dispatch"
    \/ queue # {}
    \/ \E w \in Workers : Claims(w)

QueuedInv == TypeInv /\ OnlyRuns /\ AttemptsLeft /\ (Unstarted => Awaited)

\* what one step of execution w does to a batch that waits for its claim
ClaimAnswers(w) ==
    \/ Claims(w)' \/ ~Unstarted' \/ queue' # {}
    \/ ~Claims(w) /\ Unstarted' = Unstarted /\ queue' = queue

LEMMA TaskClaims ==
    ASSUME FewFaults, TypeInv, OnlyRuns, AttemptsLeft, NEW w \in Workers,
           TaskStep(w) \/ Fault(w) \/ \E m \in queue : Take(w, m)
    PROVE  ClaimAnswers(w)
<1> USE DEF TypeInv, TypeOK, ClaimAnswers, Claims, Unstarted, Goto, Settle, itemVars, txnVars, dbVars
<1>1. ASSUME NEW m \in queue, Take(w, m) PROVE ClaimAnswers(w) BY <1>1 DEF Take
<1>2. CASE OpenRun(w) BY <1>2 DEF OpenRun
<1>3. CASE OpenRetry(w) BY <1>3 DEF OpenRetry, OnlyRuns
<1>4. CASE Begin(w) BY <1>4 DEF Begin, OnlyRuns, Batch
<1>5. CASE UpdateLost(w) \/ NextItem(w) \/ SeeCancel(w) \/ EndLoop(w) \/ Query(w)
  BY <1>5 DEF UpdateLost, NextItem, SeeCancel, EndLoop, Query
<1>6. CASE WriteOpen(w) \/ WriteRefused(w)
  BY <1>6 DEF WriteOpen, WriteRefused, AfterFailedWrite
<1>7. CASE WriteCommit(w)
  <2>1. batch'.status = batch.status /\ batch'.started = batch.started
    BY <1>7 DEF WriteCommit, Apply, Batch
  <2> QED BY <1>7, <2>1 DEF WriteCommit
<1>8. ASSUME NEW applied \in BOOLEAN, WriteError(w, applied) PROVE ClaimAnswers(w)
  <2>1. batch'.status = batch.status /\ batch'.started = batch.started
    BY <1>8 DEF WriteError, Apply, Batch
  <2> QED BY <1>8, <2>1 DEF WriteError
<1>9. CASE CancelRead(w) \/ FinishCancelled(w)
  BY <1>9 DEF CancelRead, FinishCancelled, Assign, Batch
<1>10. CASE SettleRead(w)
  <2>1. Verdict(batch, rows).status \in Terminal BY DEF Verdict, Terminal
  <2>2. seen'[w] = batch /\ verdict'[w] = Verdict(batch, rows) /\ pc'[w] = "settle_commit" /\ batch' = batch
    BY <1>10 DEF SettleRead
  <2> QED BY <2>1, <2>2 DEF Terminal
<1>11. CASE SettleMissing(w) BY <1>11 DEF SettleMissing
<1>12. CASE SettleCommit(w)
  <2>1. /\ batch'.status = Assign(seen[w].status, verdict[w].status, batch.status) /\ queue' = queue
        /\ batch'.started = batch.started
    BY <1>12 DEF SettleCommit, ApplyVerdict, Batch
  <2>2. verdict[w].status \in Terminal /\ pc[w] = "settle_commit"
    BY <1>12 DEF SettleCommit, AttemptsLeft
  <2> QED BY <2>1, <2>2 DEF Assign, Terminal
<1>13. CASE Ack(w) BY <1>13 DEF Ack
<1>14. CASE Crash(w) BY <1>14 DEF Crash
<1>15. CASE Kill(w) BY <1>15 DEF Kill, AttemptsLeft
<1>16. CASE SessionError(w) BY <1>16 DEF SessionError
<1>17. ASSUME NEW applied \in BOOLEAN, SettleError(w, applied) PROVE ClaimAnswers(w)
  <2>1. tries[w] + 1 < Attempts
    BY <1>17, AttemptsAssumption, BudgetAssumption DEF SettleError, AttemptsLeft, FewFaults, FaultKinds
  <2> QED BY <1>17, <2>1 DEF SettleError
<1> QED BY <1>1, <1>2, <1>3, <1>4, <1>5, <1>6, <1>7, <1>8, <1>9, <1>10, <1>11, <1>12, <1>13, <1>14,
           <1>15, <1>16, <1>17 DEF TaskStep, Fault

LEMMA HandlersClaim ==
    ASSUME TypeInv, OnlyRuns, AttemptsLeft, NEW c \in Clients,
           Handler(c) \/ DispatchFails(c) \/ \E op \in AllOps : Request(c, op)
    PROVE  \/ rpc'[c] = "dispatch" \/ ~Unstarted' \/ queue' # {}
           \/ Unstarted' = Unstarted /\ queue' = queue
              /\ \A d \in Clients : rpc[d] = "dispatch" => rpc'[d] = "dispatch"
<1> USE DEF TypeInv, TypeOK, txnVars, itemVars, workerVars, dbVars, Batch, Unstarted
<1>1. CASE DispatchFails(c) BY <1>1 DEF DispatchFails, AttemptsLeft
<1>2. CASE Handler(c) \/ \E op \in AllOps : Request(c, op)
  BY <1>2 DEF OnlyRuns, Handler, RequestLost, StartTask, CancelBatch, ForceCancelBatch, FindFailed, FindMissing, FillMissing,
         RetryOne, RetryNothing, DeleteBatch, Dispatch, Request
<1> QED BY <1>1, <1>2

LEMMA AwaitedKept ==
    ASSUME FewFaults, QueuedInv, [Next]_vars PROVE Unstarted' => Awaited'
<1>0. TypeInv /\ OnlyRuns /\ AttemptsLeft /\ (Unstarted => Awaited) /\ faults["broker"] = 0
  BY DEF QueuedInv, AttemptsLeft
<1>1. CASE UNCHANGED vars BY <1>0, <1>1 DEF vars, Awaited, Claims, Unstarted
<1>2. ASSUME NEW c \in Clients, Handler(c) \/ DispatchFails(c) \/ \E op \in AllOps : Request(c, op)
      PROVE  Unstarted' => Awaited'
  <2>1. \A w \in Workers : Claims(w)' <=> Claims(w)
    BY <1>0, <1>2, HandlersEnd DEF Claims
  <2> QED BY <1>0, <1>2, <2>1, HandlersClaim DEF Awaited
<1>3. ASSUME NEW w \in Workers, TaskStep(w) \/ Fault(w) \/ \E m \in queue : Take(w, m)
      PROVE  Unstarted' => Awaited'
  <2>1. ClaimAnswers(w) BY <1>0, <1>3, TaskClaims
  <2>2. rpc' = rpc /\ \A v \in Workers \ {w} : Claims(v)' <=> Claims(v)
    BY <1>0, <1>3, OthersStay, HandlersIdle DEF Claims
  <2> QED BY <1>0, <2>1, <2>2 DEF ClaimAnswers, Awaited
<1> QED BY <1>1, <1>2, <1>3 DEF Next

LEMMA InitQueuedInv == FewFaults /\ Init => QueuedInv
BY InitSettleInv DEF SettleInv, QueuedInv, Init, NewBatch, Unstarted

\* A batch that is running without started_at is still to be claimed, so that
\* what the interface calls queued is: under the same faults, for any number
\* of workers and clients (invocation_tasks.py:399).
THEOREM QueuedStateThm == ASSUME NoRetry, FewFaults PROVE Spec => []QueuedState
<1>1. QueuedInv /\ [Next]_vars => QueuedInv'
  BY NextTypeInv, OnlyRunsKept, AttemptsKept, AwaitedKept DEF QueuedInv
<1>2. QueuedInv => QueuedState
  BY DEF QueuedInv, QueuedState, Unclaimed, Awaited, Claims, Unstarted, OnlyRuns
<1> QED BY <1>1, <1>2, InitQueuedInv, PTL DEF Spec

-----------------------------------------------------------------------------
(* Batches that are retried too.  A result of a batch that is over changes   *)
(* only under an execution that has announced itself, and a placeholder      *)
(* joins it only from a handler that had read the batch as over before.      *)

\* the batch of a task that works on questions does not say that it is over
Working ==
    \A w \in Workers :
      /\ pc[w] \in Loop => batch.status \notin Final
      /\ pc[w] = "begin" /\ seen[w].status = "running" => batch.status \notin Final

NoBroker == Budget["broker"] = 0

\* a retry looks for missing questions in a batch that it read as over, and it
\* finds one only if it did not read it as completed
Filling ==
    \A c \in Clients :
      /\ rpc[c] \in {"have", "fill"} => rseen[c].status \in Terminal
      /\ rpc[c] = "fill" /\ ~Gone => rseen[c].status # "completed"

WorkInv == TypeInv /\ CoverInv /\ faults["broker"] = 0 /\ Working /\ Filling

LEMMA BrokerKept == ASSUME TypeInv, faults["broker"] = 0, [Next]_vars PROVE faults'["broker"] = 0
<1>1. CASE UNCHANGED vars BY <1>1 DEF vars
<1>2. ASSUME NEW c \in Clients, Handler(c) \/ DispatchFails(c) \/ \E op \in AllOps : Request(c, op)
      PROVE  faults'["broker"] = 0
  BY <1>2, HandlersEnd
<1>3. ASSUME NEW w \in Workers, TaskStep(w) \/ Fault(w) \/ \E m \in queue : Take(w, m)
      PROVE  faults'["broker"] = 0
  <2>1. UNCHANGED faults \/ \E k \in {"crash", "kill", "db"} : faults' = [faults EXCEPT ![k] = @ - 1]
    BY <1>3 DEF TaskStep, Fault, Take, OpenRun, OpenRetry, Begin, UpdateLost, NextItem, SeeCancel,
         EndLoop, Query, WriteOpen, WriteCommit, WriteRefused, WriteError, CancelRead,
         FinishCancelled,
         SettleRead, SettleMissing, SettleCommit, SettleError, Ack, Crash, Kill, SessionError
  <2>2. DOMAIN faults = FaultKinds
    BY DEF TypeInv, TypeOK
  <2>3. ASSUME NEW k \in {"crash", "kill", "db"}, faults' = [faults EXCEPT ![k] = @ - 1]
        PROVE  faults'["broker"] = faults["broker"]
    BY <2>2, <2>3 DEF FaultKinds
  <2> QED BY <2>1, <2>3
<1> QED BY <1>1, <1>2, <1>3 DEF Next

\* where the steps of an execution lead
LEMMA TaskWorks ==
    ASSUME TypeInv, Working, NEW w \in Workers,
           TaskStep(w) \/ Fault(w) \/ \E m \in queue : Take(w, m)
    PROVE  /\ pc'[w] \in Loop => batch'.status \notin Final
           /\ pc'[w] = "begin" /\ seen'[w].status = "running" => batch'.status \notin Final
<1> USE DEF TypeInv, TypeOK, Working, Goto, Settle, itemVars, txnVars, dbVars, Loop, Final, Batch
<1> DEFINE Good == /\ pc'[w] \in Loop => batch'.status \notin Final
                   /\ pc'[w] = "begin" /\ seen'[w].status = "running" => batch'.status \notin Final
<1>1. ASSUME NEW m \in queue, Take(w, m) PROVE Good BY <1>1 DEF Take
<1>2. CASE OpenRun(w) BY <1>2 DEF OpenRun
<1>3. CASE OpenRetry(w) BY <1>3 DEF OpenRetry
<1>4. CASE Begin(w)
  <2>1. batch'.status = Assign(seen[w].status, "running", batch.status) /\ pc'[w] = "check" /\ pc[w] = "begin"
    BY <1>4 DEF Begin
  <2> QED BY <2>1 DEF Assign
<1>5. CASE UpdateLost(w) \/ NextItem(w) \/ SeeCancel(w) \/ EndLoop(w) \/ Query(w)
  BY <1>5 DEF UpdateLost, NextItem, SeeCancel, EndLoop, Query
<1>6. CASE WriteOpen(w) \/ WriteRefused(w)
  BY <1>6 DEF WriteOpen, WriteRefused, AfterFailedWrite
<1>7. ASSUME pc[w] = "commit", pc'[w] \in {"check", "write", "settle"}, Apply(w) \/ UNCHANGED batch PROVE Good
  BY <1>7 DEF Apply
<1>8. CASE WriteCommit(w) BY <1>7, <1>8 DEF WriteCommit
<1>9. ASSUME NEW applied \in BOOLEAN, WriteError(w, applied) PROVE Good
  BY <1>7, <1>9 DEF WriteError, AfterFailedWrite
<1>10. CASE CancelRead(w) \/ FinishCancelled(w)
  BY <1>10 DEF CancelRead, FinishCancelled, Assign
<1>11. CASE SettleRead(w) \/ SettleMissing(w) \/ SettleCommit(w)
  BY <1>11 DEF SettleRead, SettleMissing, SettleCommit, PassDone
<1>12. CASE Ack(w) \/ Crash(w) \/ Kill(w) BY <1>12 DEF Ack, Crash, Kill, Release
<1>13. CASE SessionError(w) BY <1>13 DEF SessionError
<1>14. ASSUME NEW applied \in BOOLEAN, SettleError(w, applied) PROVE Good
  BY <1>14 DEF SettleError, PassDone
<1> QED BY <1>1, <1>2, <1>3, <1>4, <1>5, <1>6, <1>8, <1>9, <1>10, <1>11, <1>12, <1>13, <1>14
        DEF TaskStep, Fault

LEMMA WorkKept == ASSUME OneWorker, TypeInv, faults["broker"] = 0, Working, [Next]_vars PROVE Working'
<1>1. CASE UNCHANGED vars BY <1>1 DEF vars, Working
<1>2. ASSUME NEW c \in Clients, Handler(c) \/ DispatchFails(c) \/ \E op \in AllOps : Request(c, op)
      PROVE  Working'
  BY <1>2, HandlersEnd DEF Working
<1>3. ASSUME NEW w \in Workers, TaskStep(w) \/ Fault(w) \/ \E m \in queue : Take(w, m)
      PROVE  Working'
  BY <1>3, TaskWorks DEF Working, OneWorker
<1> QED BY <1>1, <1>2, <1>3 DEF Next

\* what a handler does with the batch it read
LEMMA HandlersFill ==
    ASSUME TypeInv, CoverInv, Filling, NEW c \in Clients, NEW d \in Clients,
           Handler(c) \/ DispatchFails(c) \/ \E op \in AllOps : Request(c, op)
    PROVE  /\ rpc'[d] \in {"have", "fill"} => rseen'[d].status \in Terminal
           /\ rpc'[d] = "fill" /\ ~Gone => rseen'[d].status # "completed"
<1> USE DEF TypeInv, TypeOK, Filling
<1>1. CASE FindMissing(c)
  <2>1. /\ rpc[c] = "have" /\ rseen' = rseen
        /\ rpc'[c] = "fill" => QA \ Covered(rows) # {}
        /\ d # c => rpc'[d] = rpc[d]
    BY <1>1 DEF FindMissing
  <2>2. Carried(rseen[c])
    BY <2>1 DEF CoverInv, SeenCovered
  <2> QED BY <2>1, <2>2 DEF Carried, AllCovered, Gone
<1>2. CASE FindFailed(c) BY <1>2 DEF FindFailed
<1>3. CASE FillMissing(c) BY <1>3 DEF FillMissing
<1>4. ASSUME NEW op \in AllOps, Request(c, op)
      PROVE  /\ rpc'[d] \in {"have", "fill"} => rseen'[d].status \in Terminal
             /\ rpc'[d] = "fill" /\ ~Gone => rseen'[d].status # "completed"
  BY <1>4 DEF Request
<1>5. CASE RequestLost(c) \/ StartTask(c) \/ CancelBatch(c) \/ ForceCancelBatch(c) \/ RetryOne(c)
           \/ RetryNothing(c) \/ DeleteBatch(c) \/ Dispatch(c) \/ DispatchFails(c)
  BY <1>5 DEF RequestLost, StartTask, CancelBatch, ForceCancelBatch, RetryOne, RetryNothing,
         DeleteBatch, Dispatch, DispatchFails
<1> QED BY <1>1, <1>2, <1>3, <1>4, <1>5 DEF Handler

LEMMA FillingKept == ASSUME TypeInv, CoverInv, Filling, [Next]_vars PROVE Filling'
<1>1. Gone => Gone'
  BY NextShape DEF Shape, RowsStep
<1>2. CASE UNCHANGED vars BY <1>1, <1>2 DEF vars, Filling
<1>3. ASSUME NEW c \in Clients, Handler(c) \/ DispatchFails(c) \/ \E op \in AllOps : Request(c, op)
      PROVE  Filling'
  BY <1>1, <1>3, HandlersFill DEF Filling
<1>4. ASSUME NEW w \in Workers, TaskStep(w) \/ Fault(w) \/ \E m \in queue : Take(w, m)
      PROVE  Filling'
  <2>1. UNCHANGED <<rpc, rseen>>
    BY <1>4, TaskShapes DEF apiVars
  <2> QED BY <1>1, <2>1 DEF Filling
<1> QED BY <1>2, <1>3, <1>4 DEF Next

LEMMA InitWorkInv == NoBroker /\ Init => WorkInv
BY InitTypeInv, InitCoverInv DEF Init, WorkInv, Working, Filling, NoBroker, Loop

LEMMA WorkInvKept == ASSUME OneWorker, WorkInv, [Next]_vars PROVE WorkInv'
BY NextTypeInv, NextCoverInv, BrokerKept, WorkKept, FillingKept DEF WorkInv

\* the steps that change rows: a commit of an execution, placeholders, the deletion
LEMMA RowChanges ==
    ASSUME TypeInv, [Next]_vars
    PROVE  \/ UNCHANGED rows \/ batch'.status = "gone"
           \/ \E w \in Workers : pc[w] = "commit"
           \/ \E c \in Clients : FillMissing(c)
<1> USE DEF TypeInv, TypeOK, dbVars, Batch
<1>1. CASE UNCHANGED vars BY <1>1 DEF vars
<1>2. ASSUME NEW c \in Clients, Handler(c) \/ DispatchFails(c) \/ \E op \in AllOps : Request(c, op)
      PROVE  UNCHANGED rows \/ batch'.status = "gone" \/ FillMissing(c)
  BY <1>2 DEF Handler, RequestLost, StartTask, CancelBatch, ForceCancelBatch, FindFailed,
         FindMissing, RetryOne, RetryNothing, DeleteBatch, Dispatch, DispatchFails, Request
<1>3. ASSUME NEW w \in Workers, TaskStep(w) \/ Fault(w) \/ \E m \in queue : Take(w, m)
      PROVE  UNCHANGED rows \/ pc[w] = "commit"
  BY <1>3 DEF TaskStep, Fault, Take, OpenRun, OpenRetry, Begin, UpdateLost, NextItem, SeeCancel,
         EndLoop, Query, WriteOpen, WriteCommit, WriteError, WriteRefused, CancelRead, FinishCancelled, SettleRead,
         SettleMissing, SettleCommit, Ack, Crash, Kill, SessionError, SettleError
<1> QED BY <1>1, <1>2, <1>3 DEF Next

\* A completed batch loses no result and gains none but the failed placeholders
\* of a retry that read it as failed or cancelled, with one worker and a broker
\* that takes every message, for any number of questions, clients, retries and
\* other faults (invocations.py:267, evaluations.py:222).
THEOREM CompletedIsFrozenThm == ASSUME OneWorker, NoBroker PROVE Spec => CompletedIsFrozen
<1> DEFINE Frozen ==
      \/ batch'.status = "gone"
      \/ rows \subseteq rows' /\ \A r \in rows' \ rows : ~r.ok /\ FillOf(r.qa)
<1>1. WorkInv /\ [Next]_vars => WorkInv'
  BY WorkInvKept
<1>2. WorkInv /\ [Next]_vars => [batch.status = "completed" => Frozen]_vars
  <2> SUFFICES ASSUME WorkInv, [Next]_vars, batch.status = "completed" PROVE Frozen
    OBVIOUS
  <2>1. \A w \in Workers : pc[w] # "commit"
    BY DEF WorkInv, Working, Loop, Final
  <2>2. ASSUME NEW c \in Clients, FillMissing(c) PROVE Frozen
    <3>1. /\ rpc[c] = "fill" /\ batch.status # "gone"
          /\ rows' = rows \cup Placeholders(rmissing[c])
      BY <2>2 DEF FillMissing
    <3>2. \A h \in Placeholders(rmissing[c]) : ~h.ok /\ h.qa \in rmissing[c]
      BY DEF Placeholders
    <3>3. rseen[c].status \in {"failed", "cancelled"}
      BY <3>1 DEF WorkInv, Filling, Gone, Terminal
    <3>4. \A q \in rmissing[c] : FillOf(q)
      BY <3>1, <3>3 DEF FillOf
    <3> QED BY <3>1, <3>2, <3>4
  <2> QED BY <2>1, <2>2, RowChanges DEF WorkInv
<1>3. CompletedIsFrozen <=> [][batch.status = "completed" => Frozen]_vars
  BY PTL DEF CompletedIsFrozen
<1> QED BY <1>1, <1>2, <1>3, InitWorkInv, PTL DEF Spec

-----------------------------------------------------------------------------
(* The counters of a batch that is over.  They are wrong while a retry has   *)
(* stored failed placeholders and its message still finds them, or while an  *)
(* execution is about to settle.                                             *)

Matches(b) ==
    /\ b.ok = Cardinality(SucceededQA(rows))
    /\ b.failed = Cardinality(Covered(rows) \ SucceededQA(rows))

Finds(ids) == \E r \in rows : r.id \in ids
Dispatches(c) == rpc[c] = "dispatch" /\ rop[c] # "run" /\ Finds(rids[c])
Live ==
    \/ \E c \in Clients : Dispatches(c)
    \/ \E m \in queue : m.kind = "retry" /\ Finds(m.ids)
Owed(w) ==
    \/ pc[w] \in {"begin", "settle", "settle_commit"}
    \/ pc[w] = "open" /\ job[w].kind = "retry" /\ Finds(job[w].ids)

\* a verdict waits for its commit on the counters it has read
CountsSeen(w) == pc[w] = "settle_commit" =>
    /\ seen[w].ok = batch.ok /\ seen[w].failed = batch.failed
    /\ Matches(verdict[w]) \/ Live \/ Gone
Counted == batch.status \in Final => Matches(batch) \/ Live \/ \E w \in Workers : Owed(w)

CountInv ==
    /\ TypeInv /\ AttemptsLeft /\ faults["crash"] = 0 /\ Working
    /\ (\A w \in Workers : CountsSeen(w)) /\ Counted

\* a step that keeps the rows keeps what is found in them and what matches
LEMMA SameRows ==
    ASSUME UNCHANGED rows
    PROVE  /\ \A ids : Finds(ids)' <=> Finds(ids)
           /\ \A b : Matches(b)' <=> Matches(b)
BY DEF Finds, Matches

\* what a handler changes: nothing that is counted, or placeholders it will dispatch
LEMMA HandlersCount ==
    ASSUME CountInv, NEW c \in Clients,
           Handler(c) \/ DispatchFails(c) \/ \E op \in AllOps : Request(c, op)
    PROVE  \/ UNCHANGED rows /\ (Live => Live')
           \/ Live'
           \/ Gone'
<1> USE DEF CountInv, TypeInv, TypeOK, AttemptsLeft, Batch, Gone, dbVars
<1>1. CASE DispatchFails(c) BY <1>1 DEF DispatchFails
<1>2. CASE RequestLost(c) \/ StartTask(c) \/ CancelBatch(c) \/ ForceCancelBatch(c) \/ RetryNothing(c) \/ RetryOne(c)
           \/ FindFailed(c) \/ FindMissing(c) \/ \E op \in AllOps : Request(c, op)
  <2>1. UNCHANGED <<rows, queue>> /\ rpc[c] # "dispatch"
    BY <1>2 DEF RequestLost, StartTask, CancelBatch, ForceCancelBatch, RetryNothing, RetryOne,
           FindFailed, FindMissing, Request
  <2>2. \A d \in Clients \ {c} : rpc'[d] = rpc[d] /\ rop'[d] = rop[d] /\ rids'[d] = rids[d]
    BY <1>2 DEF RequestLost, StartTask, CancelBatch, ForceCancelBatch, RetryNothing, RetryOne,
           FindFailed, FindMissing, Request
  <2>3. \A d \in Clients : Dispatches(d) => Dispatches(d)'
    BY <2>1, <2>2, SameRows DEF Dispatches
  <2> QED BY <2>1, <2>3, SameRows DEF Live
<1>3. CASE DeleteBatch(c) BY <1>3 DEF DeleteBatch
<1>4. CASE FillMissing(c)
  <2> DEFINE holders == Placeholders(rmissing[c])
  <2>1. /\ rows' = rows \cup holders /\ rids' = [rids EXCEPT ![c] = @ \cup {h.id : h \in holders}]
        /\ rpc' = [rpc EXCEPT ![c] = "dispatch"] /\ UNCHANGED <<queue, rop>>
        /\ rpc[c] = "fill" /\ rop[c] = "retry"
    BY <1>4 DEF FillMissing
  <2> HIDE DEF holders
  <2>2. CASE holders = {}
    <3>1. rows' = rows
      BY <2>1, <2>2
    <3>2. \A d \in Clients \ {c} : rpc'[d] = rpc[d] /\ rop'[d] = rop[d] /\ rids'[d] = rids[d]
      BY <2>1
    <3>3. \A d \in Clients : Dispatches(d) => Dispatches(d)'
      BY <2>1, <3>1, <3>2, SameRows DEF Dispatches
    <3> QED BY <2>1, <3>1, <3>3, SameRows DEF Live
  <2>3. CASE holders # {}
    <3>1. PICK r \in holders : TRUE
      BY <2>3
    <3>2. r \in rows' /\ r.id \in rids'[c] /\ rpc'[c] = "dispatch" /\ rop'[c] # "run"
      BY <2>1, <2>3, <3>1
    <3> QED BY <3>2 DEF Live, Dispatches, Finds
  <2> QED BY <2>2, <2>3
<1>5. CASE Dispatch(c)
  <2> DEFINE m == [mid |-> nextMid, kind |-> Kind(rop[c]), ids |-> rids[c]]
  <2>1. /\ queue' = queue \cup {m} /\ UNCHANGED <<rows, rop, rids>>
        /\ rpc' = [rpc EXCEPT ![c] = "idle"]
    BY <1>5 DEF Dispatch
  <2>2. m.kind = Kind(rop[c]) /\ m.ids = rids[c]
    OBVIOUS
  <2> HIDE DEF m
  <2>3. Dispatches(c) => m.kind = "retry" /\ Finds(m.ids)
    BY <2>2 DEF Dispatches, Kind
  <2>4. \A d \in Clients \ {c} : Dispatches(d) => Dispatches(d)'
    BY <2>1, SameRows DEF Dispatches
  <2> QED BY <2>1, <2>3, <2>4, SameRows DEF Live
<1> QED BY <1>1, <1>2, <1>3, <1>4, <1>5 DEF Handler

LEMMA HandlerCounts ==
    ASSUME CountInv, NEW c \in Clients,
           Handler(c) \/ DispatchFails(c) \/ \E op \in AllOps : Request(c, op)
    PROVE  (\A w \in Workers : CountsSeen(w)') /\ Counted'
<1>1. /\ UNCHANGED <<pc, job, seen, verdict>>
      /\ batch'.status \in Final => batch'.status = batch.status
      /\ batch'.ok = batch.ok /\ batch'.failed = batch.failed
  BY HandlersEnd DEF CountInv, AttemptsLeft
<1>2. Matches(batch)' <=> /\ batch.ok = Cardinality(SucceededQA(rows'))
                          /\ batch.failed = Cardinality(Covered(rows') \ SucceededQA(rows'))
  BY <1>1 DEF Matches
<1>3. CASE UNCHANGED rows /\ (Live => Live')
  <2>1. /\ Matches(batch) => Matches(batch)'
        /\ \A w \in Workers : (Matches(verdict[w]) => Matches(verdict[w])') /\ (Owed(w) => Owed(w)')
    BY <1>1, <1>2, <1>3, SameRows DEF Matches, Owed
  <2>2. Gone => Gone' \/ batch'.status \notin Final
    BY <1>1 DEF Gone, Final
  <2>3. Gone => Gone'
    BY DEF Handler, RequestLost, StartTask, CancelBatch, ForceCancelBatch, FindFailed, FindMissing, FillMissing, RetryOne,
       RetryNothing, DeleteBatch, Dispatch, DispatchFails, Request, Gone, dbVars, Admits,
       CountInv, AttemptsLeft
  <2> QED BY <1>1, <1>3, <2>1, <2>2, <2>3 DEF CountInv, CountsSeen, Counted
<1>4. CASE Live'
  BY <1>1, <1>4 DEF CountInv, CountsSeen, Counted
<1>5. CASE Gone'
  BY <1>1, <1>5 DEF CountInv, CountsSeen, Counted, Gone, Final
<1> QED BY <1>3, <1>4, <1>5, HandlersCount

\* A step of an execution leaves what the handlers and the broker will bring, but for
\* the message it takes, as long as it writes no row.
LEMMA LiveStays ==
    ASSUME TypeInv, NEW w \in Workers, UNCHANGED rows, TaskStep(w) \/ Fault(w)
    PROVE  Live => Live'
<1>1. UNCHANGED <<rpc, rop, rids>> /\ queue \subseteq queue'
  BY DEF TaskStep, Fault, OpenRun, OpenRetry, Begin, UpdateLost, NextItem, SeeCancel,
         EndLoop, Query, WriteOpen, WriteCommit, WriteRefused, WriteError, CancelRead,
         FinishCancelled,
         SettleRead, SettleMissing, SettleCommit, SettleError, Ack, Crash, Kill, SessionError, apiVars
<1>2. \A c \in Clients : Dispatches(c) => Dispatches(c)'
  BY <1>1, SameRows DEF Dispatches
<1> QED BY <1>1, <1>2, SameRows DEF Live

\* the fields of Live that a step which takes a message touches
LEMMA TakeLives ==
    ASSUME TypeInv, NEW w \in Workers, NEW m \in queue, Take(w, m)
    PROVE  Live => Live' \/ Owed(w)'
<1>1. /\ UNCHANGED <<rpc, rop, rids, rows>> /\ queue' = queue \ {m}
      /\ pc'[w] = "open" /\ job'[w] = m
  BY DEF Take, apiVars, dbVars, TypeInv, TypeOK
<1>2. \A c \in Clients : Dispatches(c) => Dispatches(c)'
  BY <1>1, SameRows DEF Dispatches
<1>3. ASSUME m.kind = "retry", Finds(m.ids) PROVE Owed(w)'
  BY <1>1, <1>3, SameRows DEF Owed
<1> QED BY <1>1, <1>2, <1>3, SameRows DEF Live

\* the steps that settle an execution
LEMMA SettlingCounts ==
    ASSUME OneWorker, FewFaults, CountInv, NEW w \in Workers,
           SettleRead(w) \/ SettleMissing(w) \/ SettleCommit(w)
             \/ \E applied \in BOOLEAN : SettleError(w, applied)
    PROVE  CountsSeen(w)' /\ Counted'
<1> USE DEF CountInv, TypeInv, TypeOK, Goto, itemVars, txnVars, dbVars
<1>1. CASE SettleRead(w)
  <2>1. /\ pc'[w] = "settle_commit" /\ seen'[w] = batch /\ verdict'[w] = Verdict(batch, rows)
        /\ UNCHANGED <<batch, rows>>
    BY <1>1 DEF SettleRead
  <2>2. Matches(Verdict(batch, rows))
    BY DEF Matches, Verdict
  <2>3. Matches(verdict[w])'
    BY <2>1, <2>2 DEF Matches
  <2> QED BY <2>1, <2>3 DEF CountsSeen, Counted, Owed
<1>2. CASE SettleMissing(w)
  <2>1. batch'.status = "gone" /\ pc'[w] \in {"settle", "ack"}
    BY <1>2 DEF SettleMissing, PassDone
  <2> QED BY <2>1 DEF CountsSeen, Counted, Final
<1>3. CASE SettleCommit(w)
  <2>1. /\ pc[w] = "settle_commit" /\ batch.status # "gone" /\ pc'[w] \in {"settle", "ack"}
        /\ batch'.ok = Assign(seen[w].ok, verdict[w].ok, batch.ok)
        /\ batch'.failed = Assign(seen[w].failed, verdict[w].failed, batch.failed)
        /\ UNCHANGED rows
    BY <1>3 DEF SettleCommit, ApplyVerdict, PassDone, Batch
  <2>2. seen[w].ok = batch.ok /\ seen[w].failed = batch.failed /\ (Matches(verdict[w]) \/ Live)
    BY <2>1 DEF CountsSeen, Gone
  <2>3. batch'.ok = verdict[w].ok /\ batch'.failed = verdict[w].failed
    BY <2>1, <2>2 DEF Assign
  <2>4. Live => Live'
    BY <1>3, <2>1, LiveStays DEF TaskStep
  <2>5. Matches(verdict[w]) => Matches(batch)'
    BY <2>1, <2>3 DEF Matches
  <2> QED BY <2>1, <2>2, <2>4, <2>5 DEF CountsSeen, Counted
<1>4. ASSUME NEW applied \in BOOLEAN, SettleError(w, applied) PROVE CountsSeen(w)' /\ Counted'
  <2>1. tries[w] + 1 < Attempts
    BY <1>4, AttemptsAssumption, BudgetAssumption DEF SettleError, AttemptsLeft, FewFaults, FaultKinds
  <2>2. pc'[w] = "settle"
    BY <1>4, <2>1 DEF SettleError
  <2> QED BY <2>2 DEF CountsSeen, Counted, Owed
<1> QED BY <1>1, <1>2, <1>3, <1>4

\* the steps that work on the questions, and the start and the end of an execution
LEMMA TaskCounts ==
    ASSUME OneWorker, FewFaults, CountInv, NEW w \in Workers,
           TaskStep(w) \/ Fault(w) \/ \E m \in queue : Take(w, m)
    PROVE  CountsSeen(w)' /\ Counted'
<1> DEFINE Good == CountsSeen(w)' /\ Counted'
<1>0. TypeInv /\ Working /\ AttemptsLeft /\ faults["crash"] = 0 /\ Counted
      /\ \A v \in Workers : v = w
  BY DEF CountInv, OneWorker
<1>1. ASSUME pc'[w] = "settle" PROVE Good
  BY <1>1 DEF CountsSeen, Counted, Owed
<1>2. ASSUME pc'[w] \in Loop PROVE Good
  <2>1. batch'.status \notin Final
    BY <1>0, <1>2, TaskWorks
  <2> QED BY <1>2, <2>1 DEF CountsSeen, Counted, Loop
<1>3. ASSUME UNCHANGED <<batch, rows>>, pc'[w] # "settle_commit",
             ~Owed(w) \/ Owed(w)', Live => Live' \/ Owed(w)'
      PROVE  Good
  <2>1. Matches(batch) => Matches(batch)'
    BY <1>3 DEF Matches
  <2> QED BY <1>0, <1>3, <2>1 DEF CountsSeen, Counted
<1> USE DEF TypeInv, TypeOK, Goto, Settle, itemVars, txnVars, dbVars
<1>4. ASSUME NEW m \in queue, Take(w, m) PROVE Good
  <2>1. UNCHANGED <<batch, rows>> /\ pc[w] = "idle" /\ pc'[w] = "open"
    BY <1>0, <1>4 DEF Take
  <2> QED BY <1>0, <1>3, <1>4, <2>1, TakeLives DEF Owed
<1>5. CASE OpenRun(w) \/ OpenRetry(w)
  <2>1. UNCHANGED <<batch, rows>> /\ pc[w] = "open" /\ pc'[w] \in {"begin", "ack"}
    BY <1>0, <1>5 DEF OpenRun, OpenRetry
  <2>2. ~Owed(w) \/ pc'[w] = "begin"
    BY <1>0, <1>5 DEF OpenRun, OpenRetry, Owed, Finds
  <2>3. Live => Live'
    BY <1>0, <1>5, <2>1, LiveStays DEF TaskStep
  <2> QED BY <1>3, <2>1, <2>2, <2>3 DEF Owed
<1>6. CASE Begin(w) \/ NextItem(w) \/ SeeCancel(w) \/ Query(w) \/ WriteOpen(w) \/ WriteCommit(w)
  <2>1. pc'[w] \in Loop
    BY <1>0, <1>6 DEF Begin, NextItem, SeeCancel, Query, WriteOpen, WriteCommit, Loop
  <2> QED BY <1>2, <2>1
<1>7. CASE UpdateLost(w) \/ EndLoop(w) \/ SessionError(w)
  <2>1. pc'[w] = "settle"
    BY <1>0, <1>7 DEF UpdateLost, EndLoop, SessionError
  <2> QED BY <1>1, <2>1
<1>8. CASE WriteRefused(w) \/ \E applied \in BOOLEAN : WriteError(w, applied)
  <2>1. pc'[w] \in {"settle", "write"}
    BY <1>0, <1>8 DEF WriteRefused, WriteError, AfterFailedWrite
  <2> QED BY <1>1, <1>2, <2>1 DEF Loop
<1>12. CASE CancelRead(w)
  <2>1. batch'.status \notin Final /\ pc'[w] \in {"ack", "cancel_commit"}
    BY <1>0, <1>12 DEF CancelRead, Working, Loop
  <2> QED BY <2>1 DEF CountsSeen, Counted
<1>9. CASE FinishCancelled(w)
  <2>1. batch.status \notin Final /\ pc'[w] = "ack"
        /\ batch'.status = Assign(seen[w].status, "cancelled", batch.status)
    BY <1>0, <1>9 DEF FinishCancelled, Working, Loop, Batch
  <2>2. batch'.status \notin Final
    BY <2>1 DEF Assign, Final
  <2> QED BY <2>1, <2>2 DEF CountsSeen, Counted
<1>10. CASE Ack(w)
  <2>1. UNCHANGED <<batch, rows>> /\ pc[w] = "ack" /\ pc'[w] = "idle"
    BY <1>0, <1>10 DEF Ack, Release
  <2>2. Live => Live'
    BY <1>0, <1>10, <2>1, LiveStays DEF TaskStep
  <2> QED BY <1>3, <2>1, <2>2 DEF Owed
<1>11. ~Crash(w) /\ ~Kill(w)
  BY <1>0 DEF Crash, Kill, AttemptsLeft
<1> HIDE DEF TypeInv, TypeOK, Goto, Settle, itemVars, txnVars, dbVars
<1> QED BY <1>4, <1>5, <1>6, <1>7, <1>8, <1>9, <1>10, <1>11, <1>12,
           SettlingCounts DEF TaskStep, Fault

LEMMA CountKept ==
    ASSUME OneWorker, FewFaults, CountInv, [Next]_vars
    PROVE  (\A w \in Workers : CountsSeen(w)') /\ Counted'
<1>1. CASE UNCHANGED vars
  <2>1. UNCHANGED <<pc, batch, rows, seen, verdict, job, queue, rpc, rop, rids>>
    BY <1>1 DEF vars
  <2>2. (Live <=> Live') /\ (Gone <=> Gone') /\ \A w \in Workers : Owed(w) <=> Owed(w)'
    BY <2>1, SameRows DEF Live, Dispatches, Gone, Owed
  <2> QED BY <2>1, <2>2 DEF CountInv, CountsSeen, Counted, Matches
<1>2. ASSUME NEW c \in Clients, Handler(c) \/ DispatchFails(c) \/ \E op \in AllOps : Request(c, op)
      PROVE  (\A w \in Workers : CountsSeen(w)') /\ Counted'
  BY <1>2, HandlerCounts
<1>3. ASSUME NEW w \in Workers, TaskStep(w) \/ Fault(w) \/ \E m \in queue : Take(w, m)
      PROVE  (\A v \in Workers : CountsSeen(v)') /\ Counted'
  BY <1>3, TaskCounts DEF OneWorker
<1> QED BY <1>1, <1>2, <1>3 DEF Next

LEMMA InitCountInv == FewFaults /\ NoCrash /\ Init => CountInv
<1> SUFFICES ASSUME FewFaults, NoCrash, Init PROVE CountInv
  OBVIOUS
<1>1. TypeInv BY InitTypeInv
<1>2. AttemptsLeft
  BY BudgetAssumption DEF Init, AttemptsLeft, FewFaults, FaultKinds
<1>3. /\ faults["crash"] = 0 /\ Working /\ Counted /\ \A w \in Workers : CountsSeen(w)
  BY DEF Init, NoCrash, Working, Counted, CountsSeen, Final, Loop, NewBatch
<1> QED BY <1>1, <1>2, <1>3 DEF CountInv

\* When nothing is queued or executing, the counters of a batch that is over
\* are those of the last row of every question: with one worker, no crash and
\* fewer database errors than attempts, for any number of questions, clients
\* and retries (_reconcile_terminal_state, invocation_tasks.py:127).
THEOREM SettledCountsThm == ASSUME OneWorker, FewFaults, NoCrash PROVE Spec => []SettledCounts
<1>1. CountInv /\ [Next]_vars => CountInv'
  <2> SUFFICES ASSUME CountInv, [Next]_vars PROVE CountInv'
    OBVIOUS
  <2>1. TypeInv' /\ AttemptsLeft'
    BY NextTypeInv, AttemptsKept DEF CountInv
  <2>2. Working' /\ faults'["crash"] = 0
    BY WorkKept, CrashKept DEF CountInv, AttemptsLeft
  <2> QED BY <2>1, <2>2, CountKept DEF CountInv
<1>2. CountInv => SettledCounts
  <2> SUFFICES ASSUME CountInv, Quiet, batch.status \in Final
               PROVE  /\ batch.ok = Cardinality(SucceededQA(rows))
                      /\ batch.ok + batch.failed = Cardinality(Covered(rows))
    BY DEF SettledCounts, Final
  <2>1. ~Live /\ \A w \in Workers : ~Owed(w)
    BY DEF Quiet, Live, Dispatches, Owed
  <2>2. Matches(batch)
    BY <2>1 DEF CountInv, Counted
  <2>3. rows \in SUBSET Row
    BY DEF CountInv, TypeInv, TypeOK
  <2>4. SucceededQA(rows) \subseteq Covered(rows) /\ IsFiniteSet(Covered(rows))
    BY <2>3, CountsAreNat, FS_Subset DEF SucceededQA
  <2>5. Cardinality(Covered(rows) \ SucceededQA(rows))
          = Cardinality(Covered(rows)) - Cardinality(SucceededQA(rows))
    <3>1. Covered(rows) \cap SucceededQA(rows) = SucceededQA(rows)
      BY <2>4
    <3>2. Cardinality(Covered(rows) \ SucceededQA(rows))
            = Cardinality(Covered(rows)) - Cardinality(Covered(rows) \cap SucceededQA(rows))
      BY <2>4, FS_Difference
    <3> QED BY <3>1, <3>2
  <2> QED BY <2>2, <2>3, <2>5, CountsAreNat DEF Matches
<1> QED BY <1>1, <1>2, InitCountInv, PTL DEF Spec
=============================================================================
