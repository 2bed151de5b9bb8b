-------------------------- MODULE Evaluation_proofs -------------------------
(***************************************************************************)
(* The result rows of an evaluation: what persist_batch has written        *)
(* survives every error, one worker writes one row for each sample, then a *)
(* completed evaluation has scored every sample, although _finalize only   *)
(* counts rows, and an evaluation keeps the contract of a batch; the guard *)
(* of evaluation_task keeps a cancelled evaluation cancelled, and the      *)
(* summary of a completed one is that of its rows.                         *)
(***************************************************************************)
EXTENDS Evaluation, FiniteSetTheorems, FunctionTheorems, TLAPS

-----------------------------------------------------------------------------
(* Types *)

LEMMA HandlerTypes ==
    ASSUME TypeOK, NEW c \in Clients,
           Handler(c) \/ DispatchFails(c) \/ \E op \in AllOps : Request(c, op)
    PROVE  TypeOK'
<1> USE DEF TypeOK, Eval, Statuses, Terminal, Assign, AssignError, Reply
<1>1. ASSUME NEW op \in AllOps, Request(c, op) PROVE TypeOK'
  BY <1>1 DEF Request
<1>2. CASE RequestLost(c) BY <1>2 DEF RequestLost
<1>3. CASE RunEvaluation(c) BY <1>3 DEF RunEvaluation
<1>4. CASE RetryEvaluation(c) BY <1>4 DEF RetryEvaluation
<1>5. CASE Dispatch(c) BY <1>5 DEF Dispatch
<1>6. CASE DispatchFails(c)
  <2> DEFINE back == IF rop[c] = "retry" THEN "pending" ELSE rseen[c].status
  <2>1. back \in Statuses
    OBVIOUS
  <2>2. ev' \in Eval
    BY <1>6, <2>1 DEF DispatchFails
  <2>3. faults' \in [FaultKinds -> Nat]
    BY <1>6 DEF DispatchFails, FaultKinds
  <2> QED BY <1>6, <2>2, <2>3 DEF DispatchFails
<1>7. CASE CancelEvaluation(c) BY <1>7 DEF CancelEvaluation
<1>8. CASE ForceCancelEvaluation(c) BY <1>8 DEF ForceCancelEvaluation
<1>9. CASE DeleteEvaluation(c) BY <1>9 DEF DeleteEvaluation
<1> QED BY <1>1, <1>2, <1>3, <1>4, <1>5, <1>6, <1>7, <1>8, <1>9 DEF Handler

\* the scores of a batch are rows, and a verdict is a state of an evaluation
LEMMA ScoredType ==
    ASSUME TypeOK, NEW w \in Workers PROVE Scored(w) \in SUBSET Row
BY DEF TypeOK, Task, Row, Scored, Chunk

LEMMA VerdictType ==
    ASSUME TypeOK, NEW w \in Workers PROVE Verdict(w) \in Eval
BY DEF TypeOK, Task, Eval, Statuses, Terminal, Verdict

LEMMA ApplyType ==
    ASSUME TypeOK, NEW w \in Workers, ApplyVerdict(w) PROVE ev' \in Eval
<1>1. task[w].seen \in Eval /\ task[w].verdict \in Eval /\ ev \in Eval
  BY DEF TypeOK, Task
<1>2. PICK error \in AssignError(task[w].seen.error, task[w].verdict.error, ev.error) :
        ev' = [status  |-> Assign(task[w].seen.status, task[w].verdict.status, ev.status),
               cancel  |-> Assign(task[w].seen.cancel, task[w].verdict.cancel, ev.cancel),
               error   |-> error,
               summary |-> Assign(task[w].seen.summary, task[w].verdict.summary, ev.summary)]
  BY DEF ApplyVerdict
<1>3. error \in BOOLEAN
  BY <1>1, <1>2 DEF AssignError, Assign, Eval
<1> QED BY <1>1, <1>2, <1>3 DEF Assign, Eval

\* one task becomes another task
LEMMA OneTask ==
    ASSUME task \in [Workers -> Task], NEW w \in Workers, NEW t \in Task, task' = [task EXCEPT ![w] = t]
    PROVE  task' \in [Workers -> Task]
OBVIOUS

LEMMA ConcludeType ==
    ASSUME task \in [Workers -> Task], NEW w \in Workers, NEW outcome \in Outcomes, Conclude(w, outcome)
    PROVE  task' \in [Workers -> Task]
<1> DEFINE t == [task[w] EXCEPT !.pc = "final", !.outcome = outcome, !.tries = 0]
<1>1. task' = [task EXCEPT ![w] = t]
  BY DEF Conclude
<1>2. t \in Task
  <2>1. task[w] \in Task
    OBVIOUS
  <2> QED BY <2>1 DEF Task, PCs
<1> HIDE DEF t
<1> QED BY <1>1, <1>2, OneTask

\* what the tasks hold
LEMMA TaskTypes ==
    ASSUME TypeOK, NEW w \in Workers, TaskStep(w) \/ Fault(w) \/ \E m \in queue : Take(w, m)
    PROVE  task' \in [Workers -> Task]
<1>0. task \in [Workers -> Task] /\ ev \in Eval /\ rows \in SUBSET Row
      /\ queue \in SUBSET Nat /\ nextExec \in Nat
  BY DEF TypeOK
<1>02. task[w] \in Task /\ ev \in Eval
  BY <1>0
<1>01. NoTask \in Task
  BY DEF NoTask, NewEval, Task, PCs, Outcomes, Eval, Statuses
<1>1. ASSUME NEW m \in queue, Take(w, m) PROVE task' \in [Workers -> Task]
  <2>1. [NoTask EXCEPT !.pc = "open", !.mid = m, !.exec = nextExec] \in Task
    BY <1>0, <1>01 DEF Task, PCs
  <2> QED BY <1>0, <1>1, <2>1 DEF Take
<1>2. CASE Open(w)
  <2> DEFINE t == [task[w] EXCEPT !.seen = ev,
                     !.pc = IF ev.status \in {"gone", "completed", "cancelled"} THEN "ack" ELSE "begin"]
  <2>1. task' = [task EXCEPT ![w] = t]
    BY <1>2 DEF Open
  <2>2. t \in Task
    BY <1>02 DEF Task, PCs
  <2> HIDE DEF t
  <2> QED BY <1>0, <2>1, <2>2, OneTask
<1>3. CASE Begin(w) BY <1>0, <1>3 DEF Begin, Task, PCs
<1>4. CASE Prepare(w)
  <2> DEFINE t == [task[w] EXCEPT !.pc = IF NQA = 0 THEN "final" ELSE "check",
                                  !.expected = NQA, !.outcome = "summary"]
  <2>1. task' = [task EXCEPT ![w] = t]
    BY <1>4 DEF Prepare
  <2>2. t \in Task
    BY <1>02, NQAAssumption DEF Task, PCs, Outcomes
  <2> HIDE DEF t
  <2> QED BY <1>0, <2>1, <2>2, OneTask
<1>5. CASE PrepareRaises(w) BY <1>0, <1>5, ConcludeType DEF PrepareRaises, Outcomes
<1>6. CASE CheckCancel(w) BY <1>0, <1>6, ConcludeType DEF CheckCancel, Task, PCs, Outcomes
<1>7. CASE Score(w)
  <2> DEFINE t == [task[w] EXCEPT !.pc = "persist", !.tries = 0]
  <2>1. task' = [task EXCEPT ![w] = t]
    BY <1>7 DEF Score
  <2>2. t \in Task
    BY <1>02 DEF Task, PCs
  <2> HIDE DEF t
  <2> QED BY <1>0, <2>1, <2>2, OneTask
<1>8. CASE PersistOpen(w)
  <2>1. OldRows(w) \in SUBSET Row
    BY <1>0 DEF OldRows
  <2> DEFINE t == [task[w] EXCEPT !.pc = "commit", !.snap = OldRows(w)]
  <2>2. task' = [task EXCEPT ![w] = t]
    BY <1>8 DEF PersistOpen
  <2>3. t \in Task
    BY <1>02, <2>1 DEF Task, PCs
  <2> HIDE DEF t
  <2> QED BY <1>0, <2>2, <2>3, OneTask
<1>9. CASE PersistCommit(w)
  <2>1. task[w].at + BatchSize \in Nat
    BY <1>0, BatchSizeAssumption DEF Task
  <2> DEFINE t == [task[w] EXCEPT !.pc = "report", !.at = @ + BatchSize, !.tries = 0]
  <2>2. task' = [task EXCEPT ![w] = t]
    BY <1>9 DEF PersistCommit
  <2>3. t \in Task
    BY <1>02, <2>1 DEF Task, PCs
  <2> HIDE DEF t
  <2> QED BY <1>0, <2>2, <2>3, OneTask
<1>10. CASE PersistRefused(w) BY <1>0, <1>10, ConcludeType DEF PersistRefused, Outcomes
<1>11. CASE FinalRead(w)
  <2>1. Verdict(w) \in Eval
    BY VerdictType
  <2> DEFINE t == [task[w] EXCEPT !.pc = "final_commit", !.seen = ev, !.verdict = Verdict(w)]
  <2>2. t \in Task
    BY <1>02, <2>1 DEF Task, PCs
  <2>3. CASE ev.status # "gone"
    <3>1. task' = [task EXCEPT ![w] = t]
      BY <1>11, <2>3 DEF FinalRead
    <3> HIDE DEF t
    <3> QED BY <1>0, <2>2, <3>1, OneTask
  <2>4. CASE ev.status = "gone"
    BY <1>0, <1>11, <2>4 DEF FinalRead, Task, PCs
  <2> QED BY <2>3, <2>4
<1>12. CASE FinalCommit(w) BY <1>0, <1>12 DEF FinalCommit, Task, PCs
<1>13. CASE Ack(w) \/ Crash(w) \/ Kill(w)
  BY <1>0, <1>01, <1>13 DEF Ack, Crash, Kill, Release
<1>14. CASE SoftLimit(w) \/ ReportRaises(w)
  BY <1>0, <1>14, ConcludeType DEF SoftLimit, ReportRaises, Outcomes
<1>19. CASE SoftLimitEscapes(w) BY <1>0, <1>19 DEF SoftLimitEscapes, Task, PCs
<1>20. CASE Report(w) BY <1>0, <1>20 DEF Report, Task, PCs
<1>15. CASE SessionError(w) BY <1>0, <1>15 DEF SessionError, Task, PCs
<1>16. CASE CancelUnread(w) BY <1>0, <1>16 DEF CancelUnread, Task, PCs
<1>17. ASSUME NEW applied \in BOOLEAN, PersistError(w, applied) PROVE task' \in [Workers -> Task]
  BY <1>0, <1>17, ConcludeType DEF PersistError, Task, PCs, Outcomes
<1>18. ASSUME NEW applied \in BOOLEAN, FinalError(w, applied) PROVE task' \in [Workers -> Task]
  BY <1>0, <1>18 DEF FinalError, Task, PCs
<1> QED BY <1>1, <1>2, <1>3, <1>4, <1>5, <1>6, <1>7, <1>8, <1>9, <1>10, <1>11, <1>12, <1>13,
          <1>14, <1>15, <1>16, <1>17, <1>18, <1>19, <1>20 DEF TaskStep, Fault

\* what they write
LEMMA TaskWrites ==
    ASSUME TypeOK, NEW w \in Workers, TaskStep(w) \/ Fault(w) \/ \E m \in queue : Take(w, m)
    PROVE  /\ ev' \in Eval /\ rows' \in SUBSET Row /\ queue' \in SUBSET Nat
           /\ nextExec' \in Nat /\ faults' \in [FaultKinds -> Nat]
           /\ UNCHANGED <<nextMid, apiVars>>
<1> USE DEF idleVars
<1>1. faults' \in [FaultKinds -> Nat]
  <2>1. faults \in [FaultKinds -> Nat]
    BY DEF TypeOK
  <2>2. UNCHANGED faults \/ \E k \in FaultKinds : faults[k] > 0 /\ faults' = [faults EXCEPT ![k] = @ - 1]
    BY DEF FaultKinds, TaskStep, Fault, Take, Open, Begin, Prepare, PrepareRaises, CheckCancel, Score,
           PersistOpen, PersistCommit, PersistError, PersistRefused, Report, ReportRaises, FinalRead, FinalCommit, FinalError,
           Ack, Crash, Kill, SoftLimit, SoftLimitEscapes, SessionError, CancelUnread
  <2> QED BY <2>1, <2>2
<1>2. UNCHANGED <<nextMid, apiVars>>
  BY DEF TaskStep, Fault, Take, Open, Begin, Prepare, PrepareRaises, CheckCancel, Score,
         PersistOpen, PersistCommit, PersistError, PersistRefused, Report, ReportRaises, FinalRead, FinalCommit, FinalError,
         Ack, Crash, Kill, SoftLimit, SoftLimitEscapes, SessionError, CancelUnread
<1>3. nextExec' \in Nat /\ queue' \in SUBSET Nat
  <2>1. task[w].mid \in Nat /\ nextExec \in Nat /\ queue \in SUBSET Nat
    BY DEF TypeOK, Task
  <2>2. nextExec' \in {nextExec, nextExec + 1} /\ queue' \subseteq queue \cup {task[w].mid}
    BY DEF TaskStep, Fault, Take, Open, Begin, Prepare, PrepareRaises, CheckCancel, Score,
           PersistOpen, PersistCommit, PersistError, PersistRefused, Report, ReportRaises, FinalRead, FinalCommit, FinalError,
           Ack, Crash, Kill, SoftLimit, SoftLimitEscapes, SessionError, CancelUnread
  <2> QED BY <2>1, <2>2
<1>4. rows' \in SUBSET Row
  <2>1. rows' = rows \/ rows' = Scored(w)
    BY DEF TaskStep, Fault, Take, Open, Begin, Prepare, PrepareRaises, CheckCancel, Score,
           PersistOpen, PersistCommit, PersistError, PersistRefused, Report, ReportRaises, FinalRead, FinalCommit, FinalError,
           Ack, Crash, Kill, SoftLimit, SoftLimitEscapes, SessionError, CancelUnread
  <2> QED BY <2>1, ScoredType DEF TypeOK
<1>5. ev' \in Eval
  <2>1. ev' = ev \/ ev' = [ev EXCEPT !.status = Assign(task[w].seen.status, "running", @)] \/ ApplyVerdict(w)
    BY DEF TaskStep, Fault, Take, Open, Begin, Prepare, PrepareRaises, CheckCancel, Score,
           PersistOpen, PersistCommit, PersistError, PersistRefused, Report, ReportRaises, FinalRead, FinalCommit, FinalError,
           Ack, Crash, Kill, SoftLimit, SoftLimitEscapes, SessionError, CancelUnread
  <2>2. CASE ev' = [ev EXCEPT !.status = Assign(task[w].seen.status, "running", @)]
    BY <2>2 DEF TypeOK, Eval, Statuses, Assign
  <2> QED BY <2>1, <2>2, ApplyType DEF TypeOK
<1> QED BY <1>1, <1>2, <1>3, <1>4, <1>5

LEMMA InitTypes == Init => TypeOK
BY BudgetAssumption DEF Init, TypeOK, Eval, Row, Statuses, Task, NoTask, NewEval, PCs, Outcomes, AllOps

LEMMA NextTypes == TypeOK /\ [Next]_vars => TypeOK'
<1> SUFFICES ASSUME TypeOK, [Next]_vars PROVE TypeOK'
  OBVIOUS
<1>1. CASE UNCHANGED vars
  BY <1>1 DEF TypeOK, vars, apiVars
<1>2. ASSUME NEW w \in Workers, TaskStep(w) \/ Fault(w) \/ \E m \in queue : Take(w, m) PROVE TypeOK'
  BY <1>2, TaskTypes, TaskWrites DEF TypeOK, apiVars
<1> QED BY <1>1, <1>2, HandlerTypes DEF Next

\* Every variable of an evaluation keeps its type, for any number of samples,
\* workers and clients and any budget of faults.
THEOREM EvaluationTypes == Spec => []TypeOK
BY InitTypes, NextTypes, PTL DEF Spec

-----------------------------------------------------------------------------
(* What a step does to the rows.  A transaction of persist_batch deletes   *)
(* rows of its own chunk only and inserts one row for each sample of it.   *)

Scores == {r.qa : r \in rows}

\* a transaction is about to delete rows of its chunk only
SnapsOfChunk ==
    \A w \in Workers : task[w].pc = "commit" => \A r \in task[w].snap : r.qa \in Chunk(task[w].at)

\* the steps that write rows
Persists(w) ==
    /\ task[w].pc = "commit" /\ ev.status # "gone" /\ ev' = ev /\ rows' = Scored(w)
    /\ task'[w].pc # "commit"
Erases(c) ==
    /\ rpc[c] = "read" /\ rpc'[c] # rpc[c] /\ rows' = {}
    /\ ev'.status = "gone" \/ rop[c] = "retry"

LEMMA RowSteps ==
    ASSUME TypeOK, [Next]_vars
    PROVE  \/ UNCHANGED rows
           \/ \E w \in Workers : Persists(w) /\ UNCHANGED apiVars
           \/ \E c \in Clients : Erases(c)
<1>1. CASE UNCHANGED vars BY <1>1 DEF vars
<1>2. ASSUME NEW c \in Clients, NEW op \in AllOps, Request(c, op) PROVE UNCHANGED rows
  BY <1>2 DEF Request
<1>3. ASSUME NEW c \in Clients, Handler(c) \/ DispatchFails(c) PROVE UNCHANGED rows \/ Erases(c)
  <2>1. CASE RetryEvaluation(c)
    BY <2>1 DEF RetryEvaluation, Reply, Erases, TypeOK
  <2>2. CASE DeleteEvaluation(c)
    BY <2>2 DEF DeleteEvaluation, Reply, Erases, TypeOK, Eval
  <2>3. CASE ~RetryEvaluation(c) /\ ~DeleteEvaluation(c)
    BY <1>3, <2>3 DEF Handler, RequestLost, RunEvaluation, Dispatch, DispatchFails,
                      CancelEvaluation, ForceCancelEvaluation
  <2> QED BY <2>1, <2>2, <2>3
<1>4. ASSUME NEW w \in Workers, TaskStep(w) \/ Fault(w) \/ \E m \in queue : Take(w, m)
      PROVE  UNCHANGED rows \/ (Persists(w) /\ UNCHANGED apiVars)
  <2>1. CASE PersistCommit(w) BY <2>1 DEF PersistCommit, Persists, idleVars, TypeOK, Task
  <2>2. ASSUME NEW applied \in BOOLEAN, PersistError(w, applied)
        PROVE  UNCHANGED rows \/ (Persists(w) /\ UNCHANGED apiVars)
    BY <2>2 DEF PersistError, Persists, Conclude, idleVars, TypeOK, Task
  <2>3. CASE ~PersistCommit(w) /\ ~\E applied \in BOOLEAN : PersistError(w, applied)
    BY <1>4, <2>3 DEF TaskStep, Fault, Take, Open, Begin, Prepare, PrepareRaises, CheckCancel, Score,
           PersistOpen, PersistRefused, Report, ReportRaises, FinalRead, FinalCommit, Ack, Crash, Kill, SoftLimit, SoftLimitEscapes,
           SessionError, CancelUnread, FinalError
  <2> QED BY <2>1, <2>2, <2>3
<1> QED BY <1>1, <1>2, <1>3, <1>4 DEF Next

\* What is persisted replaces rows by rows of the same samples.
LEMMA PersistsCovers ==
    ASSUME TypeOK, SnapsOfChunk, NEW w \in Workers, Persists(w)
    PROVE  Scores \subseteq Scores'
<1> SUFFICES ASSUME NEW r \in rows PROVE \E s \in rows' : s.qa = r.qa
  BY DEF Scores
<1>1. CASE r \in task[w].snap
  <2>1. r.qa \in Chunk(task[w].at)
    BY <1>1 DEF SnapsOfChunk, Persists
  <2>2. [qa |-> r.qa, exec |-> task[w].exec] \in rows'
    BY <2>1 DEF Persists, Scored
  <2> QED BY <2>2
<1>2. CASE r \notin task[w].snap
  BY <1>2 DEF Persists, Scored
<1> QED BY <1>1, <1>2

\* A task that is about to commit has just opened its transaction or waited.
LEMMA CommitSteps ==
    ASSUME TypeOK, [Next]_vars, NEW w \in Workers, task'[w].pc = "commit"
    PROVE  \/ task'[w] = task[w]
           \/ task'[w].at = task[w].at /\ task'[w].snap = OldRows(w) /\ UNCHANGED rows
<1> USE DEF TypeOK, Task
<1>1. CASE UNCHANGED task BY <1>1
<1>2. ASSUME NEW v \in Workers, TaskStep(v) \/ Fault(v) \/ \E m \in queue : Take(v, m), v # w
      PROVE  task'[w] = task[w]
  BY <1>2 DEF TaskStep, Fault, Take, Open, Begin, Prepare, PrepareRaises, CheckCancel, Score,
         PersistOpen, PersistCommit, PersistError, PersistRefused, Report, ReportRaises, FinalRead, FinalCommit, FinalError,
         Ack, Crash, Kill, SoftLimit, SoftLimitEscapes, SessionError, CancelUnread, Conclude, Release
<1>3. CASE PersistOpen(w) BY <1>3 DEF PersistOpen
<1>4. CASE TaskStep(w) /\ ~PersistOpen(w)
  BY <1>4 DEF TaskStep, Open, Begin, Prepare, PrepareRaises, CheckCancel, Score, PersistCommit,
         PersistRefused, Report, ReportRaises, FinalRead, FinalCommit, Ack, Conclude, Release, NoTask
<1>5. CASE Fault(w)
  BY <1>5 DEF Fault, PersistError, FinalError, Crash, Kill, SoftLimit, SoftLimitEscapes, SessionError, CancelUnread,
         Conclude, Release, NoTask
<1>6. CASE \E m \in queue : Take(w, m) BY <1>6 DEF Take, NoTask
<1>7. ASSUME NEW c \in Clients, Handler(c) \/ DispatchFails(c) \/ \E op \in AllOps : Request(c, op)
      PROVE  UNCHANGED task
  BY <1>7 DEF Handler, Request, RequestLost, RunEvaluation, RetryEvaluation, Dispatch, DispatchFails,
         CancelEvaluation, ForceCancelEvaluation, DeleteEvaluation, Reply
<1>8. CASE UNCHANGED vars BY <1>1, <1>8 DEF vars
<1> QED BY <1>1, <1>2, <1>3, <1>4, <1>5, <1>6, <1>7, <1>8 DEF Next

LEMMA InitSnaps == Init => SnapsOfChunk
BY DEF Init, SnapsOfChunk, NoTask

LEMMA NextSnaps == TypeOK /\ SnapsOfChunk /\ [Next]_vars => SnapsOfChunk'
<1> SUFFICES ASSUME TypeOK, SnapsOfChunk, [Next]_vars, NEW w \in Workers, task'[w].pc = "commit"
             PROVE  \A r \in task'[w].snap : r.qa \in Chunk(task'[w].at)
  BY DEF SnapsOfChunk, Chunk
<1> QED BY CommitSteps DEF SnapsOfChunk, OldRows

\* Scores that are persisted stay until the user retries or deletes, for any
\* number of workers, clients and faults: persist_batch deletes only rows of
\* the samples it inserts in the same transaction (evaluation_tasks.py:349).
THEOREM ScoresSurviveThm == Spec => ScoresSurvive
<1>1. TypeOK /\ SnapsOfChunk /\ [Next]_vars
        => [rpc' = rpc => {r.qa : r \in rows} \subseteq {r.qa : r \in rows'}]_vars
  <2> SUFFICES ASSUME TypeOK, SnapsOfChunk, [Next]_vars, rpc' = rpc PROVE Scores \subseteq Scores'
    BY DEF Scores
  <2>1. ~\E c \in Clients : Erases(c)
    BY DEF Erases
  <2>2. CASE UNCHANGED rows BY <2>2 DEF Scores
  <2> QED BY <2>1, <2>2, RowSteps, PersistsCovers
<1> QED BY <1>1, InitTypes, NextTypes, InitSnaps, NextSnaps, PTL DEF Spec, ScoresSurvive

-----------------------------------------------------------------------------
(* One row for each sample: with one worker no other transaction commits   *)
(* rows between the DELETE of persist_batch and its commit.                *)

OneWorker == \A v, w \in Workers : v = w

\* a transaction is about to delete all rows of its chunk
SnapsWhole ==
    \A w \in Workers : task[w].pc = "commit" =>
        \A r \in rows : r.qa \in Chunk(task[w].at) => r \in task[w].snap

LEMMA NextWhole ==
    ASSUME OneWorker, TypeOK, SnapsWhole, [Next]_vars PROVE SnapsWhole'
<1> SUFFICES ASSUME NEW w \in Workers, task'[w].pc = "commit",
                    NEW r \in rows', r.qa \in Chunk(task'[w].at)
             PROVE  r \in task'[w].snap
  BY DEF SnapsWhole, Chunk
<1>1. UNCHANGED rows
  <2>1. \A v \in Workers : v = w
    BY DEF OneWorker
  <2> QED BY <2>1, RowSteps DEF Persists, Erases
<1> QED BY <1>1, CommitSteps DEF SnapsWhole, OldRows

LEMMA NextOneScore ==
    ASSUME TypeOK, SnapsWhole, OneScorePerSample, [Next]_vars PROVE OneScorePerSample'
<1>1. ASSUME NEW w \in Workers, Persists(w) PROVE OneScorePerSample'
  <2> DEFINE fresh == {[qa |-> q, exec |-> task[w].exec] : q \in Chunk(task[w].at)}
  <2>1. \A r \in rows \ task[w].snap : r \in rows /\ r.qa \notin Chunk(task[w].at)
    BY <1>1 DEF Persists, SnapsWhole
  <2>2. \A r \in fresh : r.qa \in Chunk(task[w].at) /\ r = [qa |-> r.qa, exec |-> task[w].exec]
    OBVIOUS
  <2>3. rows' = (rows \ task[w].snap) \cup fresh
    BY <1>1 DEF Persists, Scored
  <2> HIDE DEF fresh
  <2>4. \A r, s \in rows' : r.qa = s.qa => r = s
    BY <2>1, <2>2, <2>3 DEF OneScorePerSample
  <2> QED BY <2>4 DEF OneScorePerSample
<1>2. CASE UNCHANGED rows BY <1>2 DEF OneScorePerSample
<1>3. ASSUME NEW c \in Clients, Erases(c) PROVE OneScorePerSample'
  BY <1>3 DEF Erases, OneScorePerSample
<1> QED BY <1>1, <1>2, <1>3, RowSteps

RowInv == TypeOK /\ SnapsOfChunk /\ SnapsWhole /\ OneScorePerSample

LEMMA InitRowInv == Init => RowInv
BY InitTypes, InitSnaps DEF Init, RowInv, SnapsWhole, NoTask, OneScorePerSample

LEMMA NextRowInv == ASSUME OneWorker PROVE RowInv /\ [Next]_vars => RowInv'
BY NextTypes, NextSnaps, NextWhole, NextOneScore DEF RowInv

\* With one worker a sample has at most one result row, whatever is
\* redelivered, retried or reported as an error after it was applied, for any
\* number of samples, clients and faults (evaluation_tasks.py:349).
THEOREM OneScorePerSampleThm == ASSUME OneWorker PROVE Spec => []OneScorePerSample
<1>1. RowInv => OneScorePerSample
  BY DEF RowInv
<1> QED BY <1>1, InitRowInv, NextRowInv, PTL DEF Spec

-----------------------------------------------------------------------------
(* A completed evaluation has scored every sample.  _finalize counts the   *)
(* rows; the count is worth something because a sample has one row.        *)

NoRetry == "retry" \notin Ops

AllScored == ev.status = "gone" \/ Scores = Sample
\* a state that is carried to a later write
Carried(e) == e.status = "completed" => AllScored

ScoreInv ==
    /\ CompletedIsScored
    /\ \A c \in Clients : rop[c] # "retry" /\ (rpc[c] # "idle" => Carried(rseen[c]))
    /\ \A w \in Workers : /\ task[w].expected \in {0, NQA}
                          /\ task[w].pc = "final_commit" => Carried(task[w].verdict)

LEMMA VerdictCounts ==
    ASSUME RowInv, ScoreInv, NEW w \in Workers, Verdict(w).status = "completed",
           ev.status # "completed"
    PROVE  Scores = Sample
<1>0. rows \in SUBSET Row /\ \A r \in rows : r.qa \in Sample
  BY DEF RowInv, TypeOK, Row
<1>1. NQA > 0 /\ Cardinality(rows) >= NQA
  BY NQAAssumption DEF ScoreInv, Verdict, RowInv, TypeOK, Eval
<1>2. IsFiniteSet(Sample) /\ Cardinality(Sample) = NQA
  BY NQAAssumption, FS_Interval DEF Sample
<1> DEFINE h == [r \in rows |-> r.qa]
<1>3. h \in Injection(rows, Sample)
  <2>1. h \in [rows -> Sample]
    BY <1>0
  <2>2. \A r, s \in rows : h[r] = h[s] => r = s
    BY DEF RowInv, OneScorePerSample
  <2> QED BY <2>1, <2>2 DEF Injection, IsInjective
<1>4. \A r \in rows : h[r] = r.qa
  OBVIOUS
<1> HIDE DEF h
<1>5. /\ IsFiniteSet(rows) /\ Cardinality(rows) <= Cardinality(Sample)
      /\ Cardinality(rows) = Cardinality(Sample) <=> h \in Surjection(rows, Sample)
  BY <1>2, <1>3, FS_Injection
<1>6. Cardinality(rows) \in Nat
  BY <1>5, FS_CardinalityType
<1>7. h \in Surjection(rows, Sample)
  BY <1>1, <1>2, <1>5, <1>6, NQAAssumption
<1>8. \A q \in Sample : \E r \in rows : h[r] = q
  BY <1>7 DEF Surjection
<1> QED BY <1>0, <1>4, <1>8 DEF Scores

\* What a step does to the status, to a handler and to a verdict.
LEMMA StatusSteps ==
    ASSUME TypeOK, [Next]_vars
    PROVE  /\ ev.status = "gone" => ev'.status = "gone"
           /\ \/ ev'.status = ev.status \/ ev'.status # "completed"
              \/ \E c \in Clients : rpc[c] # "idle" /\ ev'.status = rseen[c].status
              \/ \E w \in Workers : task[w].pc = "final_commit" /\ ev'.status = task[w].verdict.status
<1> USE DEF TypeOK, Eval, Assign
<1>1. CASE UNCHANGED vars BY <1>1 DEF vars
<1>2. ASSUME NEW c \in Clients, Handler(c) \/ DispatchFails(c) \/ \E op \in AllOps : Request(c, op)
      PROVE  /\ ev.status = "gone" => ev'.status = "gone"
             /\ \/ ev'.status = ev.status \/ ev'.status # "completed"
                \/ rpc[c] # "idle" /\ ev'.status = rseen[c].status
  <2>1. CASE DispatchFails(c) BY <2>1 DEF DispatchFails
  <2>2. CASE Handler(c)
    BY <2>2 DEF Handler, RequestLost, RunEvaluation, RetryEvaluation, Dispatch, CancelEvaluation,
                ForceCancelEvaluation, DeleteEvaluation
  <2>3. CASE \E op \in AllOps : Request(c, op) BY <2>3 DEF Request
  <2> QED BY <1>2, <2>1, <2>2, <2>3
<1>3. ASSUME NEW w \in Workers, TaskStep(w) \/ Fault(w) \/ \E m \in queue : Take(w, m)
      PROVE  /\ ev.status = "gone" => ev'.status = "gone"
             /\ \/ ev'.status = ev.status \/ ev'.status # "completed"
                \/ task[w].pc = "final_commit" /\ ev'.status = task[w].verdict.status
  <2>1. CASE FinalCommit(w) BY <2>1 DEF FinalCommit, ApplyVerdict
  <2>2. ASSUME NEW applied \in BOOLEAN, FinalError(w, applied)
        PROVE  /\ ev.status = "gone" => ev'.status = "gone"
               /\ \/ ev'.status = ev.status \/ ev'.status # "completed"
                  \/ task[w].pc = "final_commit" /\ ev'.status = task[w].verdict.status
    BY <2>2 DEF FinalError, ApplyVerdict
  <2>3. CASE Begin(w) BY <2>3 DEF Begin
  <2>4. CASE ~FinalCommit(w) /\ ~Begin(w) /\ ~\E applied \in BOOLEAN : FinalError(w, applied)
    BY <1>3, <2>4 DEF TaskStep, Fault, Take, Open, Prepare, PrepareRaises, CheckCancel, Score,
           PersistOpen, PersistCommit, PersistError, PersistRefused, Report, ReportRaises, FinalRead, Ack, Crash, Kill,
           SoftLimit, SoftLimitEscapes, SessionError, CancelUnread
  <2> QED BY <2>1, <2>2, <2>3, <2>4
<1> QED BY <1>1, <1>2, <1>3 DEF Next

LEMMA HandlerSteps ==
    ASSUME TypeOK, [Next]_vars, NEW c \in Clients
    PROVE  /\ rop'[c] = rop[c] \/ rop'[c] \in Ops
           /\ rpc'[c] # "idle" => \/ rseen'[c] = ev /\ UNCHANGED ev
                                  \/ rseen'[c] = rseen[c] /\ rpc[c] # "idle"
<1> USE DEF TypeOK
<1>1. CASE UNCHANGED apiVars BY <1>1 DEF apiVars
<1>2. ASSUME NEW d \in Clients, Handler(d) \/ DispatchFails(d) \/ \E op \in AllOps : Request(d, op)
      PROVE  /\ rop'[c] = rop[c] \/ rop'[c] \in Ops
             /\ rpc'[c] # "idle" => \/ rseen'[c] = ev /\ UNCHANGED ev
                                    \/ rseen'[c] = rseen[c] /\ rpc[c] # "idle"
  <2>1. ASSUME NEW op \in AllOps, Request(d, op)
        PROVE  /\ rop'[c] = rop[c] \/ rop'[c] \in Ops
               /\ rpc'[c] # "idle" => \/ rseen'[c] = ev /\ UNCHANGED ev
                                      \/ rseen'[c] = rseen[c] /\ rpc[c] # "idle"
    BY <2>1 DEF Request
  <2>2. CASE Handler(d) \/ DispatchFails(d)
    <3>1. /\ rop' = rop /\ rseen' = rseen
          /\ \E label \in {"idle", "dispatch"} : rpc' = [rpc EXCEPT ![d] = label]
          /\ rpc[d] # "idle"
      BY <2>2 DEF Handler, DispatchFails, RequestLost, RunEvaluation, RetryEvaluation, Dispatch,
                  CancelEvaluation, ForceCancelEvaluation, DeleteEvaluation, Reply
    <3> QED BY <3>1
  <2> QED BY <1>2, <2>1, <2>2
<1>3. ASSUME NEW w \in Workers, TaskStep(w) \/ Fault(w) \/ \E m \in queue : Take(w, m)
      PROVE  UNCHANGED apiVars
  BY <1>3, TaskWrites
<1>4. CASE UNCHANGED vars BY <1>1, <1>4 DEF vars
<1> QED BY <1>1, <1>2, <1>3, <1>4 DEF Next

LEMMA VerdictSteps ==
    ASSUME TypeOK, [Next]_vars, NEW w \in Workers
    PROVE  /\ task'[w].expected \in {task[w].expected, 0, NQA}
           /\ task'[w].pc = "final_commit" =>
                \/ task'[w] = task[w]
                \/ task'[w].verdict = Verdict(w) /\ UNCHANGED <<ev, rows>>
<1> USE DEF TypeOK, Task
<1>1. CASE UNCHANGED task BY <1>1
<1>2. ASSUME NEW v \in Workers, TaskStep(v) \/ Fault(v) \/ \E m \in queue : Take(v, m), v # w
      PROVE  task'[w] = task[w]
  BY <1>2 DEF TaskStep, Fault, Take, Open, Begin, Prepare, PrepareRaises, CheckCancel, Score,
         PersistOpen, PersistCommit, PersistError, PersistRefused, Report, ReportRaises, FinalRead, FinalCommit, FinalError,
         Ack, Crash, Kill, SoftLimit, SoftLimitEscapes, SessionError, CancelUnread, Conclude, Release
<1>3. CASE FinalRead(w) BY <1>3 DEF FinalRead
<1>4. CASE TaskStep(w) /\ ~FinalRead(w)
  BY <1>4 DEF TaskStep, Open, Begin, Prepare, PrepareRaises, CheckCancel, Score, PersistOpen,
         PersistCommit, PersistRefused, Report, ReportRaises, FinalCommit, Ack, Conclude, Release, NoTask
<1>5. CASE Fault(w)
  BY <1>5 DEF Fault, PersistError, FinalError, Crash, Kill, SoftLimit, SoftLimitEscapes, SessionError, CancelUnread,
         Conclude, Release, NoTask
<1>6. CASE \E m \in queue : Take(w, m) BY <1>6 DEF Take, NoTask
<1>7. ASSUME NEW c \in Clients, Handler(c) \/ DispatchFails(c) \/ \E op \in AllOps : Request(c, op)
      PROVE  UNCHANGED task
  BY <1>7 DEF Handler, Request, RequestLost, RunEvaluation, RetryEvaluation, Dispatch, DispatchFails,
         CancelEvaluation, ForceCancelEvaluation, DeleteEvaluation, Reply
<1>8. CASE UNCHANGED vars BY <1>1, <1>8 DEF vars
<1> QED BY <1>1, <1>2, <1>3, <1>4, <1>5, <1>6, <1>7, <1>8 DEF Next

\* no step but a retry takes a sample out of a scored evaluation
LEMMA ScoredStays ==
    ASSUME RowInv, ScoreInv, [Next]_vars, AllScored PROVE AllScored'
<1>1. TypeOK /\ SnapsOfChunk
  BY DEF RowInv
<1>2. CASE ev.status = "gone" BY <1>1, <1>2, StatusSteps DEF AllScored
<1>3. ASSUME NEW c \in Clients, Erases(c) PROVE AllScored'
  BY <1>3 DEF Erases, ScoreInv, AllScored
<1>4. ASSUME NEW w \in Workers, Persists(w), ev.status # "gone" PROVE AllScored'
  <2>1. Sample \subseteq Scores'
    BY <1>1, <1>4, PersistsCovers DEF AllScored
  <2>2. rows' \in SUBSET Row
    BY <1>1, <1>4, ScoredType DEF Persists
  <2>3. Scores' \subseteq Sample
    BY <2>2 DEF Scores, Row
  <2> QED BY <2>1, <2>3 DEF AllScored
<1>5. CASE UNCHANGED rows /\ ev.status # "gone"
  BY <1>5 DEF AllScored, Scores
<1> QED BY <1>1, <1>2, <1>3, <1>4, <1>5, RowSteps

LEMMA NextScore ==
    ASSUME NoRetry, RowInv, ScoreInv, [Next]_vars PROVE ScoreInv'
<1>0. TypeOK
  BY DEF RowInv
<1>1. ev.status = "completed" => AllScored
  BY DEF ScoreInv, CompletedIsScored, AllScored, Scores
<1>2. AllScored => AllScored'
  BY ScoredStays
<1>3. CompletedIsScored'
  <2> SUFFICES ASSUME ev'.status = "completed" PROVE Scores' = Sample
    BY DEF CompletedIsScored, Scores
  <2>1. AllScored
    BY <1>0, <1>1, StatusSteps DEF ScoreInv, Carried
  <2> QED BY <1>2, <2>1 DEF AllScored
<1>4. ASSUME NEW c \in Clients PROVE rop'[c] # "retry" /\ (rpc'[c] # "idle" => Carried(rseen[c])')
  <2>1. rop'[c] # "retry"
    BY <1>0, HandlerSteps DEF ScoreInv, NoRetry
  <2>2. ASSUME rpc'[c] # "idle", rseen'[c].status = "completed" PROVE AllScored'
    <3>1. AllScored
      BY <1>0, <1>1, <2>2, HandlerSteps DEF ScoreInv, Carried
    <3> QED BY <1>2, <3>1
  <2> QED BY <2>1, <2>2 DEF Carried
<1>5. ASSUME NEW w \in Workers
      PROVE  /\ task'[w].expected \in {0, NQA}
             /\ task'[w].pc = "final_commit" => Carried(task[w].verdict)'
  <2>1. task'[w].expected \in {0, NQA}
    BY <1>0, VerdictSteps DEF ScoreInv
  <2>2. ASSUME task'[w].pc = "final_commit", task'[w].verdict.status = "completed" PROVE AllScored'
    <3>1. AllScored
      <4>1. CASE task'[w] = task[w] BY <2>2, <4>1 DEF ScoreInv, Carried
      <4>2. CASE task'[w].verdict = Verdict(w)
        BY <1>1, <2>2, <4>2, VerdictCounts DEF AllScored
      <4> QED BY <1>0, <2>2, <4>1, <4>2, VerdictSteps
    <3> QED BY <1>2, <3>1
  <2> QED BY <2>1, <2>2 DEF Carried
<1> QED BY <1>3, <1>4, <1>5 DEF ScoreInv

LEMMA InitScore == NoRetry /\ Init => ScoreInv
BY DEF Init, ScoreInv, CompletedIsScored, NewEval, NoTask

\* With one worker and no retry an evaluation that says completed has a
\* result for every sample, for any number of samples, clients and faults: the
\* count of _finalize is enough because a sample has one row
\* (evaluation_tasks.py:399).  A retry that deletes the rows while a redelivered
\* message finishes them refutes it, hence NoRetry.
THEOREM CompletedIsScoredThm ==
    ASSUME OneWorker, NoRetry PROVE Spec => []CompletedIsScored
<1>1. Init => RowInv /\ ScoreInv
  BY InitRowInv, InitScore
<1>2. RowInv /\ ScoreInv /\ [Next]_vars => RowInv' /\ ScoreInv'
  BY NextRowInv, NextScore
<1>3. ScoreInv => CompletedIsScored
  BY DEF ScoreInv
<1> QED BY <1>1, <1>2, <1>3, PTL DEF Spec

-----------------------------------------------------------------------------
(* Without retries an evaluation keeps the contract of a batch.            *)

\* a deleted evaluation has no rows, and nobody else is about to delete one
Erased ==
    /\ ev.status = "gone" => rows = {}
    /\ \A c \in Clients : rpc[c] # "idle" /\ rseen[c].status = "gone" => ev.status = "gone"
    /\ \A w \in Workers : task[w].pc = "final_commit" => task[w].verdict.status # "gone"

LEMMA GoneSteps ==
    ASSUME TypeOK, [Next]_vars, ev.status # "gone", ev'.status = "gone"
    PROVE  \/ rows' = {}
           \/ \E c \in Clients : rpc[c] # "idle" /\ rseen[c].status = "gone"
           \/ \E w \in Workers : task[w].pc = "final_commit" /\ task[w].verdict.status = "gone"
<1> USE DEF TypeOK, Eval, Assign
<1>1. CASE UNCHANGED vars BY <1>1 DEF vars
<1>2. ASSUME NEW c \in Clients, Handler(c) \/ DispatchFails(c) \/ \E op \in AllOps : Request(c, op)
      PROVE  rows' = {} \/ (rpc[c] # "idle" /\ rseen[c].status = "gone")
  <2>1. CASE DispatchFails(c) BY <2>1 DEF DispatchFails
  <2>2. CASE Handler(c)
    BY <2>2 DEF Handler, RequestLost, RunEvaluation, RetryEvaluation, Dispatch, CancelEvaluation,
                ForceCancelEvaluation, DeleteEvaluation
  <2>3. CASE \E op \in AllOps : Request(c, op) BY <2>3 DEF Request
  <2> QED BY <1>2, <2>1, <2>2, <2>3
<1>3. ASSUME NEW w \in Workers, TaskStep(w) \/ Fault(w) \/ \E m \in queue : Take(w, m)
      PROVE  task[w].pc = "final_commit" /\ task[w].verdict.status = "gone"
  <2>1. CASE FinalCommit(w) BY <2>1 DEF FinalCommit, ApplyVerdict
  <2>2. ASSUME NEW applied \in BOOLEAN, FinalError(w, applied)
        PROVE  task[w].pc = "final_commit" /\ task[w].verdict.status = "gone"
    BY <2>2 DEF FinalError, ApplyVerdict
  <2>3. CASE Begin(w) BY <2>3 DEF Begin
  <2>4. CASE ~FinalCommit(w) /\ ~Begin(w) /\ ~\E applied \in BOOLEAN : FinalError(w, applied)
    BY <1>3, <2>4 DEF TaskStep, Fault, Take, Open, Prepare, PrepareRaises, CheckCancel, Score,
           PersistOpen, PersistCommit, PersistError, PersistRefused, Report, ReportRaises, FinalRead, Ack, Crash, Kill,
           SoftLimit, SoftLimitEscapes, SessionError, CancelUnread
  <2> QED BY <2>1, <2>2, <2>3, <2>4
<1> QED BY <1>1, <1>2, <1>3 DEF Next

LEMMA RowsAndStatus ==
    ASSUME NoRetry, RowInv, ScoreInv, Erased, [Next]_vars
    PROVE  \/ UNCHANGED rows /\ (ev.status = "gone" <=> ev'.status = "gone")
           \/ ev.status # "gone" /\ UNCHANGED ev /\ Scores \subseteq Scores'
           \/ ev'.status = "gone" /\ rows' = {}
<1>0. TypeOK /\ SnapsOfChunk
  BY DEF RowInv
<1>1. ASSUME NEW w \in Workers, Persists(w) PROVE ev.status # "gone" /\ UNCHANGED ev /\ Scores \subseteq Scores'
  BY <1>0, <1>1, PersistsCovers DEF Persists
<1>2. ASSUME NEW c \in Clients, Erases(c) PROVE ev'.status = "gone" /\ rows' = {}
  BY <1>2 DEF Erases, ScoreInv
<1>3. CASE UNCHANGED rows
  <2>1. ev.status = "gone" => ev'.status = "gone"
    BY <1>0, StatusSteps
  <2>2. ASSUME ev.status # "gone", ev'.status = "gone" PROVE rows' = {}
    BY <1>0, <2>2, GoneSteps DEF Erased
  <2> QED BY <1>3, <2>1, <2>2
<1> QED BY <1>0, <1>1, <1>2, <1>3, RowSteps

LEMMA NextErased == ASSUME NoRetry, RowInv, ScoreInv, Erased, [Next]_vars PROVE Erased'
<1>0. TypeOK
  BY DEF RowInv
<1>1. ev'.status = "gone" => rows' = {}
  BY RowsAndStatus DEF Erased
<1>2. ASSUME NEW c \in Clients, rpc'[c] # "idle", rseen'[c].status = "gone" PROVE ev'.status = "gone"
  <2>1. CASE rseen'[c] = ev /\ UNCHANGED ev BY <1>2, <2>1
  <2>2. CASE rseen'[c] = rseen[c] /\ rpc[c] # "idle"
    BY <1>0, <1>2, <2>2, StatusSteps DEF Erased
  <2> QED BY <1>0, <1>2, <2>1, <2>2, HandlerSteps
<1>3. ASSUME NEW w \in Workers, task'[w].pc = "final_commit" PROVE task'[w].verdict.status # "gone"
  <2>1. CASE task'[w] = task[w] BY <1>3, <2>1 DEF Erased
  <2>2. CASE task'[w].verdict = Verdict(w) BY <1>0, <2>2 DEF Verdict, TypeOK, Eval
  <2> QED BY <1>0, <1>3, <2>1, <2>2, VerdictSteps
<1> QED BY <1>1, <1>2, <1>3 DEF Erased

\* every step is a step of the contract or leaves its variables alone
LEMMA StepContract ==
    ASSUME NoRetry, RowInv, RowInv', ScoreInv, ScoreInv', Erased, [Next]_vars
    PROVE  [Contract!Next]_(Contract!vars)
<1> USE DEF Contract!vars
<1>0. /\ ev.status \in Statuses /\ ev'.status \in Statuses /\ Scores' \subseteq Sample
      /\ CompletedIsScored'
  BY DEF RowInv, TypeOK, Eval, Row, Scores, ScoreInv
<1>1. CASE UNCHANGED rows /\ (ev.status = "gone" <=> ev'.status = "gone")
  <2>1. CASE ev.status = "gone"
    BY <1>1, <2>1
  <2>2. CASE ev.status # "gone"
    <3>1. ev'.status \in Contract!Live
      BY <1>0, <1>1, <2>2 DEF Statuses, Terminal, Contract!Live
    <3>2. ev'.status = "completed" => Scores = Sample
      BY <1>0, <1>1 DEF CompletedIsScored, Scores
    <3>3. Contract!Move(ev'.status)
      BY <1>1, <2>2, <3>1, <3>2 DEF Contract!Move, Scores
    <3> QED BY <3>1, <3>3 DEF Contract!Next
  <2> QED BY <2>1, <2>2
<1>2. CASE ev.status # "gone" /\ UNCHANGED ev /\ Scores \subseteq Scores'
  <2>1. PICK S \in SUBSET Sample : {r.qa : r \in rows'} = {r.qa : r \in rows} \cup S
    BY <1>0, <1>2 DEF Scores
  <2>2. Contract!Record(S)
    BY <1>2, <2>1 DEF Contract!Record
  <2> QED BY <2>2 DEF Contract!Next
<1>3. CASE ev'.status = "gone" /\ rows' = {}
  <2>1. CASE ev.status = "gone"
    BY <1>3, <2>1 DEF Erased
  <2>2. CASE ev.status # "gone"
    <3>1. Contract!Drop BY <1>3, <2>2 DEF Contract!Drop
    <3> QED BY <3>1 DEF Contract!Next
  <2> QED BY <2>1, <2>2
<1> QED BY <1>1, <1>2, <1>3, RowsAndStatus

\* With one worker and no retry an evaluation implements BatchContract: its
\* reader may rely on what it relies on for a batch, for any number of
\* samples, clients and faults (evaluation_tasks.py:399).
THEOREM EvaluationImplements ==
    ASSUME OneWorker, NoRetry PROVE Spec => ImplementsContract
<1>1. Init => RowInv /\ ScoreInv /\ Erased
  BY InitRowInv, InitScore DEF Init, NewEval, NoTask, Erased
<1>2. RowInv /\ ScoreInv /\ Erased /\ [Next]_vars => RowInv' /\ ScoreInv' /\ Erased'
  BY NextRowInv, NextScore, NextErased
<1>3. Init => Contract!Init
  BY DEF Init, NewEval, Contract!Init
<1>4. RowInv /\ RowInv' /\ ScoreInv /\ ScoreInv' /\ Erased /\ [Next]_vars
        => [Contract!Next]_(Contract!vars)
  BY StepContract
<1> QED
  BY <1>1, <1>2, <1>3, <1>4, PTL DEF Spec, ImplementsContract, Contract!Spec
-----------------------------------------------------------------------------
(* An execution that has passed the guard against redelivery.  With one     *)
(* worker nobody else completes or cancels the evaluation under it.         *)

Active == {"begin", "prepare", "check", "score", "persist", "commit", "report", "final",
           "final_commit"}
Over == {"completed", "cancelled"}
Alive(s) == \A w \in Workers : task[w].pc \in Active => ev.status # s

NoFault(k) == Budget[k] = 0
NoForce == "force" \notin Ops
\* a dispatch that fails puts back the status a rerun has read
NoReturn == "rerun" \notin Ops \/ NoFault("broker")

\* what a failed dispatch puts back
Returns ==
    IF NoFault("broker") THEN faults["broker"] = 0
    ELSE \A c \in Clients : rpc[c] # "idle" =>
           /\ rop[c] # "rerun"
           /\ rop[c] = "run" => rseen[c].status = "pending"
           /\ rpc[c] = "dispatch" => rop[c] \in {"run", "retry"}

\* a fault that cannot happen does not
LEMMA FaultsFall ==
    ASSUME TypeOK, [Next]_vars, NEW k \in FaultKinds, faults[k] = 0 PROVE faults'[k] = 0
<1>0. DOMAIN faults = FaultKinds /\ faults \in [FaultKinds -> Nat]
  BY DEF TypeOK
<1> DEFINE Falls == UNCHANGED faults
                    \/ \E j \in FaultKinds : faults[j] > 0 /\ faults' = [faults EXCEPT ![j] = @ - 1]
<1>1. CASE UNCHANGED vars BY <1>1 DEF vars
<1>2. ASSUME NEW c \in Clients, Handler(c) \/ DispatchFails(c) \/ \E op \in AllOps : Request(c, op)
      PROVE  Falls
  BY <1>2 DEF FaultKinds, Handler, Request, RequestLost, RunEvaluation, RetryEvaluation, Dispatch,
         DispatchFails, CancelEvaluation, ForceCancelEvaluation, DeleteEvaluation
<1>3. ASSUME NEW w \in Workers, TaskStep(w) \/ Fault(w) \/ \E m \in queue : Take(w, m) PROVE Falls
  BY <1>3 DEF FaultKinds, TaskStep, Fault, Take, Open, Begin, Prepare, PrepareRaises, CheckCancel, Score,
         PersistOpen, PersistCommit, PersistError, PersistRefused, Report, ReportRaises, FinalRead, FinalCommit, FinalError,
         Ack, Crash, Kill, SoftLimit, SoftLimitEscapes, SessionError, CancelUnread
<1>4. ASSUME NEW j \in FaultKinds, faults[j] > 0, faults' = [faults EXCEPT ![j] = @ - 1]
      PROVE  faults'[k] = 0
  BY <1>0, <1>4
<1> QED BY <1>1, <1>2, <1>3, <1>4 DEF Next

LEMMA ReturnsKept == ASSUME NoReturn, TypeOK, [Next]_vars, Returns PROVE Returns'
<1> USE DEF TypeOK
<1>1. CASE NoFault("broker")
  BY <1>1, FaultsFall DEF Returns, FaultKinds, NoFault
<1> DEFINE Reads(c) == rpc[c] # "idle" =>
             /\ rop[c] # "rerun"
             /\ rop[c] = "run" => rseen[c].status = "pending"
             /\ rpc[c] = "dispatch" => rop[c] \in {"run", "retry"}
<1>2. CASE ~NoFault("broker")
  <2>0. "rerun" \notin Ops /\ \A c \in Clients : Reads(c)
    BY <1>2 DEF Returns, NoReturn
  <2>1. ASSUME UNCHANGED apiVars PROVE \A c \in Clients : Reads(c)'
    <3>1. rpc' = rpc /\ rop' = rop /\ rseen' = rseen
      BY <2>1 DEF apiVars
    <3> QED BY <2>0, <3>1
  <2>2. ASSUME NEW d \in Clients, NEW op \in AllOps, Request(d, op)
        PROVE  \A c \in Clients : Reads(c)'
    <3>1. op # "rerun" /\ (op = "run" => ev.status = "pending")
      BY <2>0, <2>2 DEF Request, Admits
    <3>2. /\ rpc' = [rpc EXCEPT ![d] = "read"] /\ rop' = [rop EXCEPT ![d] = op]
          /\ rseen' = [rseen EXCEPT ![d] = ev]
      BY <2>2 DEF Request
    <3> QED BY <2>0, <3>1, <3>2
  <2>3. ASSUME NEW d \in Clients, Handler(d) \/ DispatchFails(d)
        PROVE  \A c \in Clients : Reads(c)'
    <3>1. /\ rop' = rop /\ rseen' = rseen
          /\ rpc[d] # "idle"
          /\ \/ rpc' = [rpc EXCEPT ![d] = "idle"]
             \/ rpc' = [rpc EXCEPT ![d] = "dispatch"] /\ rop[d] \in {"run", "rerun", "retry"}
      BY <2>3 DEF Handler, DispatchFails, RequestLost, RunEvaluation, RetryEvaluation, Dispatch,
                  CancelEvaluation, ForceCancelEvaluation, DeleteEvaluation, Reply
    <3> QED BY <2>0, <3>1
  <2>4. ASSUME NEW w \in Workers, TaskStep(w) \/ Fault(w) \/ \E m \in queue : Take(w, m)
        PROVE  UNCHANGED apiVars
    BY <2>4, TaskWrites
  <2>5. \A c \in Clients : Reads(c)'
    <3>1. UNCHANGED vars => UNCHANGED apiVars
      BY DEF vars
    <3> HIDE DEF Reads, TypeOK
    <3> QED BY <2>1, <2>2, <2>3, <2>4, <3>1 DEF Next
  <2> QED BY <1>2, <2>5 DEF Returns, NoFault
<1> QED BY <1>1, <1>2

\* a handler neither completes an evaluation nor, unless it is forced, cancels it
LEMMA HandlerAlive ==
    ASSUME TypeOK, Returns, NEW c \in Clients, NEW s \in Over, s = "cancelled" => rop[c] # "force",
           Handler(c) \/ DispatchFails(c) \/ \E op \in AllOps : Request(c, op)
    PROVE  /\ ev'.status = s => ev.status = s
           /\ task' = task /\ ev'.summary = ev.summary
           /\ UNCHANGED rows \/ rows' = {}
           /\ ev.error => ev'.error \/ rows' = {}
<1> USE DEF TypeOK, Eval, Assign, AssignError, Over, Reply
<1>1. CASE DispatchFails(c)
  <2>1. ~NoFault("broker") /\ rpc[c] = "dispatch"
    BY <1>1 DEF DispatchFails, Returns
  <2>2. rop[c] \in {"run", "retry"} /\ (rop[c] = "run" => rseen[c].status = "pending")
    BY <2>1 DEF Returns
  <2> QED BY <1>1, <2>2 DEF DispatchFails
<1>2. CASE RequestLost(c) \/ Dispatch(c) \/ \E op \in AllOps : Request(c, op)
  BY <1>2 DEF RequestLost, Dispatch, Request
<1>3. CASE RunEvaluation(c) \/ RetryEvaluation(c)
  BY <1>3 DEF RunEvaluation, RetryEvaluation
<1>4. CASE CancelEvaluation(c) \/ ForceCancelEvaluation(c) \/ DeleteEvaluation(c)
  BY <1>4 DEF CancelEvaluation, ForceCancelEvaluation, DeleteEvaluation
<1> QED BY <1>1, <1>2, <1>3, <1>4 DEF Handler

\* an execution that completes or cancels the evaluation ends with it
LEMMA TaskAlive ==
    ASSUME TypeOK, faults["db"] = 0, NEW w \in Workers, NEW s \in Over, Alive(s),
           TaskStep(w) \/ Fault(w) \/ \E m \in queue : Take(w, m)
    PROVE  /\ task'[w].pc \in Active => ev'.status # s
           /\ ev'.status = ev.status \/ ev.status # s
           /\ ev'.status = ev.status \/ ev'.status # s \/ FinalCommit(w)
<1> USE DEF TypeOK, Task, Eval, Assign, Alive, Active, Over, Conclude, Release, NoTask
<1> DEFINE Good == /\ task'[w].pc \in Active => ev'.status # s
                   /\ ev'.status = ev.status \/ ev.status # s
                   /\ ev'.status = ev.status \/ ev'.status # s \/ FinalCommit(w)
<1>1. ASSUME NEW m \in queue, Take(w, m) PROVE Good BY <1>1 DEF Take
<1>2. CASE Open(w) BY <1>2 DEF Open
<1>3. CASE Begin(w) BY <1>3 DEF Begin
<1>4. CASE Prepare(w) \/ PrepareRaises(w) \/ CheckCancel(w) \/ Score(w)
  BY <1>4 DEF Prepare, PrepareRaises, CheckCancel, Score
<1>5. CASE PersistOpen(w) \/ PersistCommit(w) \/ PersistRefused(w) \/ Report(w) \/ ReportRaises(w)
  BY <1>5 DEF PersistOpen, PersistCommit, PersistRefused, Report, ReportRaises
<1>6. CASE FinalRead(w) BY <1>6 DEF FinalRead
<1>7. CASE FinalCommit(w)
  <2>1. task[w].pc = "final_commit" /\ task'[w].pc = "ack"
    BY <1>7 DEF FinalCommit
  <2> QED BY <1>7, <2>1
<1>8. CASE Ack(w) \/ Crash(w) \/ Kill(w) BY <1>8 DEF Ack, Crash, Kill
<1>9. CASE SoftLimit(w) \/ SoftLimitEscapes(w) BY <1>9 DEF SoftLimit, SoftLimitEscapes
<1>10. ~SessionError(w) /\ ~CancelUnread(w)
       /\ \A applied \in BOOLEAN : ~PersistError(w, applied) /\ ~FinalError(w, applied)
  BY DEF SessionError, CancelUnread, PersistError, FinalError
<1> QED BY <1>1, <1>2, <1>3, <1>4, <1>5, <1>6, <1>7, <1>8, <1>9, <1>10 DEF TaskStep, Fault

LEMMA AliveKept ==
    ASSUME OneWorker, TypeOK, Returns, faults["db"] = 0, NEW s \in Over, Alive(s), [Next]_vars,
           s = "cancelled" => \A c \in Clients : rop[c] # "force"
    PROVE  Alive(s)'
<1>1. CASE UNCHANGED vars BY <1>1 DEF vars, Alive
<1>2. ASSUME NEW c \in Clients, Handler(c) \/ DispatchFails(c) \/ \E op \in AllOps : Request(c, op)
      PROVE  Alive(s)'
  BY <1>2, HandlerAlive DEF Alive
<1>3. ASSUME NEW w \in Workers, TaskStep(w) \/ Fault(w) \/ \E m \in queue : Take(w, m)
      PROVE  Alive(s)'
  BY <1>3, TaskAlive DEF Alive, OneWorker
<1> QED BY <1>1, <1>2, <1>3 DEF Next

CancelInv ==
    /\ TypeOK /\ Returns /\ faults["db"] = 0 /\ Alive("cancelled")
    /\ \A c \in Clients : rop[c] # "force"

\* With one worker, no forced cancellation and no database error, and unless a
\* dispatch fails that restarted a cancelled evaluation, only a request moves an
\* evaluation out of cancelled: for any number of samples, clients, crashes and
\* time limits (the guard of evaluation_task, evaluation_tasks.py:51).
THEOREM CancelledStaysThm ==
    ASSUME OneWorker, NoForce, NoFault("db"), NoReturn PROVE Spec => CancelledStays
<1>1. Init => CancelInv
  <2> SUFFICES ASSUME Init PROVE CancelInv
    OBVIOUS
  <2>1. TypeOK BY InitTypes
  <2>2. faults["db"] = 0 /\ Returns
    BY DEF Init, NoFault, Returns
  <2> QED BY <2>1, <2>2 DEF Init, CancelInv, Alive, NewEval
<1>2. CancelInv /\ [Next]_vars => CancelInv'
  <2> SUFFICES ASSUME CancelInv, [Next]_vars PROVE CancelInv'
    OBVIOUS
  <2>1. TypeOK' /\ Returns' /\ faults'["db"] = 0
    BY NextTypes, ReturnsKept, FaultsFall DEF CancelInv, FaultKinds
  <2>2. Alive("cancelled")'
    BY AliveKept DEF CancelInv, Over
  <2>3. \A c \in Clients : rop'[c] # "force"
    BY HandlerSteps DEF CancelInv, NoForce
  <2> QED BY <2>1, <2>2, <2>3 DEF CancelInv
<1>3. CancelInv /\ [Next]_vars
        => [ev.status = "cancelled" /\ rpc' = rpc => ev'.status = "cancelled"]_vars
  <2> SUFFICES ASSUME CancelInv, [Next]_vars, ev.status = "cancelled", rpc' = rpc
               PROVE  ev'.status = "cancelled"
    OBVIOUS
  <2>1. CASE UNCHANGED vars BY <2>1 DEF vars
  <2>2. ASSUME NEW c \in Clients, Handler(c) \/ DispatchFails(c) \/ \E op \in AllOps : Request(c, op)
        PROVE  FALSE
    <3>1. rpc'[c] # rpc[c]
      BY <2>2 DEF CancelInv, TypeOK, Handler, Request, RequestLost, RunEvaluation, RetryEvaluation,
                  Dispatch, DispatchFails, CancelEvaluation, ForceCancelEvaluation, DeleteEvaluation, Reply
    <3> QED BY <3>1
  <2>3. ASSUME NEW w \in Workers, TaskStep(w) \/ Fault(w) \/ \E m \in queue : Take(w, m)
        PROVE  ev'.status = ev.status
    BY <2>3, TaskAlive DEF CancelInv, Over
  <2> QED BY <2>1, <2>2, <2>3 DEF Next
<1> QED BY <1>1, <1>2, <1>3, PTL DEF Spec, CancelledStays
-----------------------------------------------------------------------------
(* What the summary says of the rows.  An execution that was not stopped by *)
(* an error has written every row it counts, and one that was says so.      *)

\* the rows of the samples that lie behind execution w are its own
Behind(w) == \A r \in rows : r.qa < task[w].at => r.exec = task[w].exec
AllOwn(w) == \A r \in rows : r.exec = task[w].exec

Own(w) ==
    LET t == task[w]
    IN  /\ t.pc \in {"open", "begin", "prepare"} => t.at = 1 /\ t.expected = 0
        /\ t.pc \in {"check", "score", "persist", "commit", "report"} =>
             t.outcome = "summary" /\ Behind(w)
        /\ t.pc = "final" => \/ t.outcome # "summary" \/ t.expected = 0 \/ AllOwn(w)
        /\ t.pc = "final_commit" /\ ev.status # "gone" =>
             /\ t.seen.summary = ev.summary /\ (t.seen.error => ev.error \/ rows = {})
             /\ t.verdict.status = "completed" /\ ~t.verdict.error =>
                  t.verdict.summary = t.exec /\ AllOwn(w)

SummaryInv ==
    /\ RowInv /\ Returns /\ Alive("completed") /\ SummaryIsOfResults
    /\ faults["db"] = 0
    /\ \A w \in Workers : Own(w)

LEMMA PersistOwn ==
    ASSUME SummaryInv, NEW w \in Workers, PersistCommit(w) PROVE Own(w)'
<1> DEFINE t == task[w]
           next == t.at + BatchSize
<1>0. /\ TypeOK /\ SnapsWhole /\ t.pc = "commit" /\ t.outcome = "summary" /\ Behind(w)
      /\ t.at \in Nat /\ next \in Nat
  BY BatchSizeAssumption DEF SummaryInv, RowInv, Own, PersistCommit, TypeOK, Task
<1>1. /\ task'[w].exec = t.exec /\ task'[w].at = next /\ task'[w].outcome = "summary"
      /\ task'[w].pc = "report"
      /\ rows' = Scored(w)
  BY <1>0 DEF PersistCommit, TypeOK, Task
<1>2. rows' \in SUBSET Row
  BY <1>0, <1>1, ScoredType
<1>3. ASSUME NEW r \in rows', r.qa < next PROVE r.exec = t.exec
  <2>1. CASE r \in rows \ t.snap
    <3>1. r.qa \notin Chunk(t.at) /\ r.qa \in Sample
      BY <1>0, <1>2, <2>1 DEF SnapsWhole, Row
    <3>2. r.qa < t.at
      BY <1>0, <1>3, <3>1, BatchSizeAssumption DEF Chunk, Sample
    <3> QED BY <1>0, <2>1, <3>2 DEF Behind
  <2>2. CASE r \in {[qa |-> q, exec |-> t.exec] : q \in Chunk(t.at)}
    BY <2>2
  <2> QED BY <1>1, <1>3, <2>1, <2>2 DEF Scored
<1> HIDE DEF next, t
<1> QED BY <1>1, <1>3 DEF Own, Behind

\* after the last batch no sample lies ahead
LEMMA ReportOwn ==
    ASSUME SummaryInv, NEW w \in Workers, Report(w) PROVE Own(w)'
<1>0. /\ rows \in SUBSET Row /\ task[w] \in Task /\ task[w].outcome = "summary" /\ Behind(w)
  BY DEF SummaryInv, RowInv, TypeOK, Own, Report
<1>1. /\ task'[w].exec = task[w].exec /\ task'[w].at = task[w].at /\ task'[w].outcome = "summary"
      /\ task'[w].pc = IF task[w].at <= NQA THEN "check" ELSE "final"
      /\ UNCHANGED <<ev, rows>>
  BY <1>0 DEF SummaryInv, RowInv, Report, TypeOK, Task
<1>2. CASE task[w].at <= NQA
  BY <1>0, <1>1, <1>2 DEF Own, Behind
<1>3. CASE ~(task[w].at <= NQA)
  <2>1. \A r \in rows : r.qa < task[w].at
    BY <1>0, <1>3, NQAAssumption DEF Row, Sample, Task
  <2> QED BY <1>0, <1>1, <1>3, <2>1 DEF Own, Behind, AllOwn
<1> QED BY <1>2, <1>3

LEMMA ReadOwn ==
    ASSUME SummaryInv, NEW w \in Workers, FinalRead(w) PROVE Own(w)'
<1>0. /\ TypeOK /\ task[w].pc = "final" /\ Own(w) /\ UNCHANGED <<ev, rows>>
      /\ ev.status # "completed"
  BY DEF SummaryInv, RowInv, FinalRead, Alive, Active
<1>1. CASE ev.status = "gone"
  BY <1>0, <1>1 DEF FinalRead, TypeOK, Task, Own
<1>2. CASE ev.status # "gone"
  <2>1. /\ task'[w].pc = "final_commit" /\ task'[w].seen = ev /\ task'[w].verdict = Verdict(w)
        /\ task'[w].exec = task[w].exec
    BY <1>0, <1>2 DEF FinalRead, TypeOK, Task
  <2>2. ASSUME Verdict(w).status = "completed", ~Verdict(w).error
        PROVE  Verdict(w).summary = task[w].exec /\ AllOwn(w)
    <3>1. /\ task[w].outcome # "cancelled" /\ task[w].expected > 0 /\ ~ev.cancel
          /\ task[w].outcome # "error"
          /\ Verdict(w).summary = IF task[w].outcome = "summary" THEN task[w].exec ELSE ev.summary
      BY <1>0, <2>2 DEF Verdict, TypeOK, Eval
    <3>2. task[w].outcome = "summary" /\ AllOwn(w)
      <4>1. task[w].outcome \in Outcomes
        BY <1>0 DEF TypeOK, Task
      <4> QED BY <1>0, <1>2, <3>1, <4>1 DEF Own, Outcomes
    <3> QED BY <3>1, <3>2
  <2>3. AllOwn(w) => AllOwn(w)'
    BY <1>0, <2>1 DEF AllOwn
  <2> QED BY <1>0, <2>1, <2>2, <2>3 DEF Own
<1> QED BY <1>1, <1>2

LEMMA TaskOwn ==
    ASSUME SummaryInv, NEW w \in Workers, TaskStep(w) \/ Fault(w) \/ \E m \in queue : Take(w, m)
    PROVE  Own(w)'
<1>0. /\ TypeOK /\ rows \in SUBSET Row /\ Own(w) /\ faults["db"] = 0
      /\ task[w] \in Task /\ task \in [Workers -> Task]
  BY DEF SummaryInv, RowInv, TypeOK
<1> DEFINE Waits == /\ UNCHANGED rows /\ (ev.status = "gone" => ev'.status = "gone")
                    /\ task'[w].at = task[w].at /\ task'[w].exec = task[w].exec
<1> USE DEF Own, Behind, AllOwn
<1>1. ASSUME NEW m \in queue, Take(w, m) PROVE Own(w)'
  BY <1>0, <1>1 DEF Take, NoTask
<1>2. CASE Open(w) BY <1>0, <1>2 DEF Open, Task
<1>3. CASE Begin(w) BY <1>0, <1>3 DEF Begin, Task
<1>4. CASE Prepare(w)
  <2>1. /\ task[w].at = 1 /\ task'[w].at = 1 /\ task'[w].exec = task[w].exec /\ UNCHANGED <<ev, rows>>
        /\ task'[w].outcome = "summary" /\ task'[w].expected = NQA
        /\ task'[w].pc = IF NQA = 0 THEN "final" ELSE "check"
    BY <1>0, <1>4 DEF Prepare, Task
  <2>2. \A r \in rows : ~(r.qa < 1)
    BY <1>0, NQAAssumption DEF Row, Sample
  <2> QED BY <2>1, <2>2
<1>5. CASE PrepareRaises(w) BY <1>0, <1>5 DEF PrepareRaises, Conclude, Task
<1>6. CASE CheckCancel(w) \/ Score(w) \/ PersistOpen(w)
  BY <1>0, <1>6 DEF CheckCancel, Score, PersistOpen, Conclude, Task
<1>7. CASE PersistCommit(w) BY <1>7, PersistOwn
<1>8. CASE PersistRefused(w)
  BY <1>0, <1>8 DEF PersistRefused, Conclude, Task
<1>9. CASE FinalRead(w) BY <1>9, ReadOwn
<1>10. CASE FinalCommit(w) BY <1>0, <1>10 DEF FinalCommit, Task
<1>11. CASE Ack(w) \/ Crash(w) \/ Kill(w)
  BY <1>0, <1>11 DEF Ack, Crash, Kill, Release, NoTask
<1>13. CASE Report(w) BY <1>13, ReportOwn
<1>14. CASE ReportRaises(w) \/ SoftLimit(w) \/ SoftLimitEscapes(w)
  BY <1>0, <1>14 DEF ReportRaises, SoftLimit, SoftLimitEscapes, Conclude, Task
<1>12. ~SessionError(w) /\ ~CancelUnread(w)
       /\ \A applied \in BOOLEAN : ~PersistError(w, applied) /\ ~FinalError(w, applied)
  BY <1>0 DEF SessionError, CancelUnread, PersistError, FinalError
<1> QED BY <1>1, <1>2, <1>3, <1>4, <1>5, <1>6, <1>7, <1>8, <1>9, <1>10, <1>11, <1>12, <1>13, <1>14
        DEF TaskStep, Fault

\* the summary is written with the status, by the execution that wrote the rows
LEMMA CommitSummary ==
    ASSUME SummaryInv, NEW w \in Workers, FinalCommit(w) PROVE SummaryIsOfResults'
<1>0. /\ TypeOK /\ task[w].pc = "final_commit" /\ Own(w) /\ UNCHANGED rows
      /\ ev.status # "completed"
  BY DEF SummaryInv, RowInv, FinalCommit, Alive, Active
<1>1. CASE ev.status = "gone"
  BY <1>0, <1>1 DEF FinalCommit, SummaryIsOfResults
<1>2. ASSUME ev.status # "gone", ev'.status = "completed", ~ev'.error
      PROVE  \A r \in rows : r.exec = ev'.summary
  <2>0. task[w].verdict \in Eval /\ task[w].seen \in Eval /\ ev \in Eval
    BY <1>0 DEF TypeOK, Task
  <2>1. /\ ev'.status = Assign(task[w].seen.status, task[w].verdict.status, ev.status)
        /\ ev'.error \in AssignError(task[w].seen.error, task[w].verdict.error, ev.error)
        /\ ev'.summary = Assign(task[w].seen.summary, task[w].verdict.summary, ev.summary)
    BY <1>2 DEF FinalCommit, ApplyVerdict
  <2>2. task[w].verdict.status = "completed"
    BY <1>0, <1>2, <2>1 DEF Assign
  <2>3. CASE ~task[w].verdict.error
    <3>1. /\ task[w].seen.summary = ev.summary /\ task[w].verdict.summary = task[w].exec
          /\ AllOwn(w)
      BY <1>0, <1>2, <2>2, <2>3 DEF Own
    <3>2. ev'.summary = task[w].exec
      BY <2>1, <3>1 DEF Assign
    <3> QED BY <3>1, <3>2 DEF AllOwn
  <2>4. CASE task[w].verdict.error
    <3>1. task[w].seen.error /\ ~ev.error
      BY <1>2, <2>0, <2>1, <2>4 DEF Assign, AssignError, Eval
    <3> QED BY <1>0, <1>2, <3>1 DEF Own
  <2> QED BY <2>3, <2>4
<1> QED BY <1>0, <1>1, <1>2 DEF SummaryIsOfResults

LEMMA SummaryKept ==
    ASSUME OneWorker, SummaryInv, [Next]_vars
    PROVE  SummaryIsOfResults' /\ \A w \in Workers : Own(w)'
<1>0. TypeOK /\ Returns /\ faults["db"] = 0 /\ Alive("completed") /\ "completed" \in Over
  BY DEF SummaryInv, RowInv, Over
<1>1. CASE UNCHANGED vars
  BY <1>1 DEF vars, SummaryInv, SummaryIsOfResults, Own, Behind, AllOwn
<1>2. ASSUME NEW c \in Clients, Handler(c) \/ DispatchFails(c) \/ \E op \in AllOps : Request(c, op)
      PROVE  SummaryIsOfResults' /\ \A w \in Workers : Own(w)'
  <2>1. /\ ev'.status = "completed" => ev.status = "completed"
        /\ task' = task /\ ev'.summary = ev.summary /\ (UNCHANGED rows \/ rows' = {})
        /\ ev.error => ev'.error \/ rows' = {}
    BY <1>0, <1>2, HandlerAlive
  <2>2. ev.status = "gone" => ev'.status = "gone"
    BY <1>0, StatusSteps
  <2>3. \A r \in rows' : r \in rows
    BY <2>1
  <2>4. SummaryIsOfResults'
    BY <1>0, <2>1, <2>3 DEF SummaryInv, SummaryIsOfResults
  <2>5. ASSUME NEW w \in Workers PROVE Own(w)'
    <3>1. Own(w)
      BY DEF SummaryInv
    <3>2. (Behind(w) => Behind(w)') /\ (AllOwn(w) => AllOwn(w)')
      BY <2>1, <2>3 DEF Behind, AllOwn
    <3> QED BY <2>1, <2>2, <3>1, <3>2 DEF Own
  <2> QED BY <2>4, <2>5
<1>3. ASSUME NEW w \in Workers, TaskStep(w) \/ Fault(w) \/ \E m \in queue : Take(w, m)
      PROVE  SummaryIsOfResults' /\ \A v \in Workers : Own(v)'
  <2>1. \A v \in Workers : Own(v)'
    BY <1>3, TaskOwn DEF OneWorker
  <2>2. CASE ~FinalCommit(w) /\ ev'.status = "completed"
    <3>1. ev.status = "completed"
      BY <1>0, <1>3, <2>2, TaskAlive
    <3>2. task[w].pc \notin Active
      BY <1>0, <3>1 DEF Alive
    <3>3. UNCHANGED <<ev, rows>>
      BY <1>3, <3>2 DEF Active, TaskStep, Fault, Take, Open, Begin, Prepare, PrepareRaises, CheckCancel,
             Score, PersistOpen, PersistCommit, PersistError, PersistRefused, Report, ReportRaises, FinalRead, FinalCommit,
             FinalError, Ack, Crash, Kill, SoftLimit, SoftLimitEscapes, SessionError, CancelUnread
    <3> QED BY <2>1, <3>3 DEF SummaryInv, SummaryIsOfResults
  <2>3. CASE FinalCommit(w) BY <2>1, <2>3, CommitSummary
  <2>4. CASE ev'.status # "completed" BY <2>1, <2>4 DEF SummaryIsOfResults
  <2> QED BY <2>2, <2>3, <2>4
<1> QED BY <1>1, <1>2, <1>3 DEF Next

\* The summary of an evaluation that completed without an error was computed from
\* the scores its rows hold, whatever errors, crashes and time limits stopped
\* earlier executions or strike after the last batch: with one worker, when the
\* database reports no error and unless a dispatch fails that restarted an
\* evaluation, for any number of samples, clients, retries and runs (_finalize,
\* evaluation_tasks.py:399-402).
THEOREM SummaryIsOfResultsThm ==
    ASSUME OneWorker, NoFault("db"), NoReturn PROVE Spec => []SummaryIsOfResults
<1>1. Init => SummaryInv
  <2> SUFFICES ASSUME Init PROVE SummaryInv
    OBVIOUS
  <2>1. RowInv BY InitRowInv
  <2>2. faults["db"] = 0 /\ Returns
    BY DEF Init, NoFault, Returns
  <2>3. Alive("completed") /\ SummaryIsOfResults /\ \A w \in Workers : Own(w)
    BY DEF Init, Alive, Active, NewEval, NoTask, SummaryIsOfResults, Own
  <2> QED BY <2>1, <2>2, <2>3 DEF SummaryInv
<1>2. SummaryInv /\ [Next]_vars => SummaryInv'
  <2> SUFFICES ASSUME SummaryInv, [Next]_vars PROVE SummaryInv'
    OBVIOUS
  <2>1. RowInv' /\ TypeOK
    BY NextRowInv DEF SummaryInv, RowInv
  <2>2. Returns' /\ faults'["db"] = 0
    BY <2>1, ReturnsKept, FaultsFall DEF SummaryInv, FaultKinds
  <2>3. Alive("completed")'
    BY <2>1, AliveKept DEF SummaryInv, Over
  <2> QED BY <2>1, <2>2, <2>3, SummaryKept DEF SummaryInv
<1>3. SummaryInv => SummaryIsOfResults
  BY DEF SummaryInv
<1> QED BY <1>1, <1>2, <1>3, PTL DEF Spec

=============================================================================
