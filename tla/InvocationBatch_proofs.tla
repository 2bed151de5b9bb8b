------------------------ MODULE InvocationBatch_proofs ------------------------
(***************************************************************************)
(* Type correctness of InvocationBatch, and that it implements             *)
(* BatchContract: a completed batch has a result for every question, and   *)
(* no step loses the last result of a question.                            *)
(***************************************************************************)
EXTENDS InvocationBatch, FiniteSetTheorems, TLAPS

\* The type of `passes` needs to know that a reconciliation has a pass left.
PassesLeft == \A w \in Workers : pc[w] \in {"settle", "settle_commit"} => passes[w] >= 1

TypeInv == TypeOK /\ PassesLeft

USE DEF TypeInv, PassesLeft, PCs, AllOps, FaultKinds, Batch, Row, Message, Statuses,
        Terminal, NoMessage, NoRow, NewBatch, ZeroTally, vars, dbVars, apiVars,
        itemVars, txnVars, workerVars

\* The covered questions and the succeeded ones are sets of questions, so both
\* counts of a verdict are natural numbers.
LEMMA CountsAreNat ==
    ASSUME NEW rs \in SUBSET Row
    PROVE  /\ Covered(rs) \subseteq QA /\ SucceededQA(rs) \subseteq QA
           /\ IsFiniteSet(QA) /\ Cardinality(QA) = NQA
           /\ Cardinality(Covered(rs)) \in Nat
           /\ Cardinality(SucceededQA(rs)) \in Nat
           /\ Cardinality(Covered(rs) \ SucceededQA(rs)) \in Nat
  <1>1. Covered(rs) \subseteq QA /\ SucceededQA(rs) \subseteq QA
    BY DEF Covered, SucceededQA
  <1>2. IsFiniteSet(QA) /\ Cardinality(QA) = NQA
    BY NQAAssumption, FS_Interval DEF QA
  <1>3. /\ IsFiniteSet(Covered(rs)) /\ IsFiniteSet(SucceededQA(rs))
        /\ IsFiniteSet(Covered(rs) \ SucceededQA(rs))
    BY <1>1, <1>2, FS_Subset
  <1> QED BY <1>1, <1>2, <1>3, FS_CardinalityType

\* A column keeps its type whatever a stale session assigns to it.
LEMMA AssignType ==
    ASSUME NEW S, NEW loaded, NEW new \in S, NEW now \in S
    PROVE  Assign(loaded, new, now) \in S
  BY DEF Assign

\* A verdict is a state a batch may have.
LEMMA VerdictType ==
    ASSUME NEW b \in Batch, NEW rs \in SUBSET Row
    PROVE  Verdict(b, rs) \in Batch
  BY CountsAreNat DEF Verdict

\* A batch as create_invocation_batch leaves it is well typed.
LEMMA InitTypeInv == Init => TypeInv
  BY NQAAssumption, BudgetAssumption DEF Init, TypeOK, QA

\* The handlers keep the types and leave the workers alone.
LEMMA HandlerTypeInv ==
    ASSUME TypeInv, NEW c \in Clients,
           Handler(c) \/ DispatchFails(c) \/ \E op \in AllOps : Request(c, op)
    PROVE  TypeInv'
  <1>1. ASSUME NEW op \in AllOps, Request(c, op) PROVE TypeInv'
    BY <1>1 DEF TypeOK, Request
  <1>2. CASE RequestLost(c)
    BY <1>2 DEF TypeOK, RequestLost
  <1>3. CASE StartTask(c)
    BY <1>3 DEF TypeOK, StartTask, Assign
  <1>4. CASE CancelBatch(c)
    BY <1>4 DEF TypeOK, CancelBatch, Assign
  <1>5. CASE ForceCancelBatch(c)
    BY <1>5 DEF TypeOK, ForceCancelBatch, Assign
  <1>6. CASE FindFailed(c)
    BY <1>6 DEF TypeOK, FindFailed
  <1>12. CASE FindMissing(c)
    BY <1>12 DEF TypeOK, FindMissing
  <1>13. CASE FillMissing(c)
    <2>1. \A q \in QA : [id |-> nextId + q, qa |-> q, ok |-> FALSE] \in Row
      BY NQAAssumption DEF TypeOK, QA
    <2>6. rmissing[c] \subseteq QA
      BY DEF TypeOK
    <2>2. Placeholders(rmissing[c]) \in SUBSET Row
      BY ONLY <2>1, <2>6 DEF Placeholders
    <2> HIDE DEF Row
    <2>3. \A h \in Placeholders(rmissing[c]) : h.id \in Nat
      BY <2>2 DEF Row
    <2>4. rids' \in [Clients -> SUBSET Nat]
      BY <1>13, <2>3 DEF TypeOK, FillMissing
    <2>5. rows' \in SUBSET Row /\ nextId' \in Nat
      BY <1>13, <2>2, NQAAssumption DEF TypeOK, FillMissing
    <2> QED BY <1>13, <2>4, <2>5 DEF TypeOK, FillMissing
  <1>7. CASE RetryOne(c)
    BY <1>7 DEF TypeOK, RetryOne
  <1>8. CASE RetryNothing(c)
    BY <1>8 DEF TypeOK, RetryNothing
  <1>9. CASE DeleteBatch(c)
    BY <1>9 DEF TypeOK, DeleteBatch
  <1>10. CASE Dispatch(c)
    BY <1>10 DEF TypeOK, Dispatch, Kind
  <1>11. CASE DispatchFails(c)
    <2>1. batch' \in Batch
      BY <1>11 DEF TypeOK, DispatchFails, Assign
    <2>2. faults' \in [FaultKinds -> Nat]
      BY <1>11 DEF TypeOK, DispatchFails
    <2> QED BY <1>11, <2>1, <2>2 DEF TypeOK, DispatchFails
  <1> QED
    BY <1>1, <1>2, <1>3, <1>4, <1>5, <1>6, <1>7, <1>8, <1>9, <1>10, <1>11, <1>12, <1>13
       DEF Handler

\* The transaction of _write inserts a row of the question at hand.
LEMMA ApplyType ==
    ASSUME TypeOK, NEW w \in Workers, Apply(w)
    PROVE  batch' \in Batch /\ rows' \in SUBSET Row /\ nextId' \in Nat
  <1>1. [id |-> nextId, qa |-> cur[w].qa, ok |-> good[w]] \in Row
    BY DEF TypeOK
  <1>2. rows' \in SUBSET Row /\ nextId' \in Nat
    BY <1>1 DEF TypeOK, Apply
  <1>3. batch' \in Batch
    BY DEF TypeOK, Apply, Assign
  <1> QED BY <1>2, <1>3

\* Counting an answer keeps the counters natural.
LEMMA CountType ==
    ASSUME TypeOK, NEW w \in Workers, NEW success \in BOOLEAN, Count(w, success)
    PROVE  tally' \in [Workers -> [ok : Nat, failed : Nat]]
  BY DEF TypeOK, Count

\* A task that is sent to the reconciliation has a pass of it left.
LEMMA SettleType ==
    ASSUME TypeInv, NEW w \in Workers, NEW n \in {1, 2}, Settle(w, n)
    PROVE  /\ pc' \in [Workers -> PCs] /\ tries' \in [Workers -> Nat]
           /\ passes' \in [Workers -> Nat] /\ PassesLeft'
  <1>1. n \in Nat /\ n >= 1 OBVIOUS
  <1> QED BY <1>1 DEF TypeOK, Settle, Goto

\* The locals of an execution that ended are well typed.
LEMMA ReleaseType ==
    ASSUME TypeInv, NEW w \in Workers, Release(w)
    PROVE  /\ pc' \in [Workers -> PCs] /\ job' \in [Workers -> Message]
           /\ todo' \in [Workers -> SUBSET Row] /\ cur' \in [Workers -> Row]
           /\ good' \in [Workers -> BOOLEAN] /\ fallback' \in [Workers -> BOOLEAN]
           /\ tally' \in [Workers -> [ok : Nat, failed : Nat]]
           /\ snap' \in [Workers -> SUBSET Row] /\ seen' \in [Workers -> Batch]
           /\ verdict' \in [Workers -> Batch] /\ tries' \in [Workers -> Nat]
           /\ passes' \in [Workers -> Nat] /\ PassesLeft'
  <1>1. /\ NoMessage \in Message /\ NoRow(1) \in Row
        /\ ZeroTally \in [ok : Nat, failed : Nat] /\ NewBatch \in Batch
    BY NQAAssumption DEF QA
  <1>2. /\ pc' \in [Workers -> PCs] /\ job' \in [Workers -> Message]
        /\ todo' \in [Workers -> SUBSET Row] /\ cur' \in [Workers -> Row]
        /\ good' \in [Workers -> BOOLEAN] /\ fallback' \in [Workers -> BOOLEAN]
    BY <1>1 DEF TypeOK, Release
  <1>3. /\ tally' \in [Workers -> [ok : Nat, failed : Nat]]
        /\ snap' \in [Workers -> SUBSET Row] /\ seen' \in [Workers -> Batch]
        /\ verdict' \in [Workers -> Batch] /\ tries' \in [Workers -> Nat]
        /\ passes' \in [Workers -> Nat]
    BY <1>1 DEF TypeOK, Release
  <1>4. PassesLeft'
    BY DEF TypeOK, Release
  <1> QED BY <1>2, <1>3, <1>4

\* What follows a failed write keeps the types, whatever was applied.
LEMMA AfterFailedWriteType ==
    ASSUME TypeInv, NEW w \in Workers, NEW left \in BOOLEAN, pc[w] = "commit",
           AfterFailedWrite(w, left)
    PROVE  /\ pc' \in [Workers -> PCs] /\ good' \in [Workers -> BOOLEAN]
           /\ fallback' \in [Workers -> BOOLEAN]
           /\ tally' \in [Workers -> [ok : Nat, failed : Nat]]
           /\ tries' \in [Workers -> Nat] /\ passes' \in [Workers -> Nat]
           /\ PassesLeft'
  <1>1. CASE left
    <2>1. tries[w] + 1 \in Nat
      BY DEF TypeOK
    <2>2. /\ Goto(w, "write") /\ UNCHANGED <<good, fallback, tally, passes>>
          /\ tries' = [tries EXCEPT ![w] = tries[w] + 1]
      BY <1>1 DEF AfterFailedWrite
    <2>3. PassesLeft'
      BY <2>2 DEF TypeOK, Goto
    <2> QED BY <2>1, <2>2, <2>3 DEF TypeOK, Goto
  <1>2. CASE ~left /\ ~fallback[w]
    <2>1. tally' \in [Workers -> [ok : Nat, failed : Nat]]
      BY <1>2, CountType DEF AfterFailedWrite
    <2>2. /\ Goto(w, "write") /\ UNCHANGED passes
          /\ good' = [good EXCEPT ![w] = FALSE]
          /\ fallback' = [fallback EXCEPT ![w] = TRUE]
          /\ tries' = [tries EXCEPT ![w] = 0]
      BY <1>2 DEF AfterFailedWrite
    <2> QED BY <2>1, <2>2 DEF TypeOK, Goto
  <1>3. CASE ~left /\ fallback[w]
    <2>1. PICK n \in {1, 2} : Settle(w, n)
      BY <1>3 DEF AfterFailedWrite
    <2>2. UNCHANGED <<good, fallback, tally>>
      BY <1>3 DEF AfterFailedWrite
    <2> QED BY <2>1, <2>2, SettleType DEF TypeOK
  <1> QED BY <1>1, <1>2, <1>3

\* Committing a verdict leaves a well-typed batch.
LEMMA ApplyVerdictType ==
    ASSUME TypeOK, NEW w \in Workers, ApplyVerdict(w)
    PROVE  batch' \in Batch
  BY DEF TypeOK, ApplyVerdict, Assign

\* Every step of a task keeps the types.
LEMMA TaskTypeInv ==
    ASSUME TypeInv, NEW w \in Workers, TaskStep(w)
    PROVE  TypeInv'
  <1>1. CASE OpenRun(w)
    <2>1. {NoRow(q) : q \in QA} \in SUBSET Row
      <3>1. \A q \in QA : [id |-> 0, qa |-> q, ok |-> FALSE] \in Row
        OBVIOUS
      <3>2. \A r \in {NoRow(q) : q \in QA} : r \in Row
        BY <3>1
      <3> QED BY <3>2
    <2> QED BY <1>1, <2>1 DEF TypeOK, OpenRun, Goto
  <1>2. CASE OpenRetry(w)
    BY <1>2 DEF TypeOK, OpenRetry, Goto
  <1>3. CASE Begin(w)
    BY <1>3 DEF TypeOK, Begin, Goto, Assign
  <1>4. CASE UpdateLost(w)
    BY <1>4 DEF TypeOK, UpdateLost, Settle, Goto
  <1>5. CASE NextItem(w)
    BY <1>5 DEF TypeOK, NextItem, Goto
  <1>6. CASE SeeCancel(w)
    BY <1>6 DEF TypeOK, SeeCancel, Goto
  <1>7. CASE EndLoop(w)
    BY <1>7 DEF TypeOK, EndLoop, Settle, Goto
  <1>8. CASE Query(w)
    <2>1. PICK success, raised \in BOOLEAN :
            /\ good' = [good EXCEPT ![w] = success]
            /\ fallback' = [fallback EXCEPT ![w] = raised]
            /\ Count(w, success)
      BY <1>8 DEF Query
    <2>2. tally' \in [Workers -> [ok : Nat, failed : Nat]]
      BY <2>1, CountType
    <2> QED BY <1>8, <2>1, <2>2 DEF TypeOK, Query, Goto
  <1>9. CASE WriteOpen(w)
    BY <1>9 DEF TypeOK, WriteOpen, OldRows, Goto
  <1>10. CASE WriteCommit(w)
    BY <1>10, ApplyType DEF TypeOK, WriteCommit, Goto
  <1>11. CASE WriteRefused(w)
    <2>1. pc[w] = "commit" /\ AfterFailedWrite(w, FALSE)
      BY <1>11 DEF WriteRefused
    <2> QED BY <1>11, <2>1, AfterFailedWriteType DEF TypeOK, WriteRefused
  <1>12. CASE FinishCancelled(w)
    BY <1>12 DEF TypeOK, FinishCancelled, Goto, Assign
  <1>17. CASE CancelRead(w)
    BY <1>17 DEF TypeOK, CancelRead, Goto
  <1>13. CASE SettleRead(w)
    BY <1>13, VerdictType DEF TypeOK, SettleRead, Goto
  <1>14. CASE SettleMissing(w)
    BY <1>14 DEF TypeOK, SettleMissing, PassDone, Goto
  <1>15. CASE SettleCommit(w)
    BY <1>15, ApplyVerdictType DEF TypeOK, SettleCommit, PassDone, Goto
  <1>16. CASE Ack(w)
    BY <1>16, ReleaseType DEF TypeOK, Ack
  <1> QED
    BY <1>1, <1>2, <1>3, <1>4, <1>5, <1>6, <1>7, <1>8, <1>9, <1>10, <1>11, <1>12, <1>13, <1>14, <1>15, <1>16, <1>17
       DEF TaskStep

\* So do the loss of a worker and an error of the database.
LEMMA FaultTypeInv ==
    ASSUME TypeInv, NEW w \in Workers, Fault(w)
    PROVE  TypeInv'
  <1>1. CASE Crash(w)
    <2>1. Release(w) /\ queue' = queue \cup {job[w]} /\ job[w] \in Message
      BY <1>1 DEF Crash, TypeOK
    <2>2. faults' \in [FaultKinds -> Nat]
      BY <1>1 DEF Crash, TypeOK
    <2> QED BY <1>1, <2>1, <2>2, ReleaseType DEF TypeOK, Crash
  <1>2. CASE Kill(w)
    <2>1. faults' \in [FaultKinds -> Nat]
      BY <1>2 DEF Kill, TypeOK
    <2> QED BY <1>2, <2>1, ReleaseType DEF TypeOK, Kill
  <1>3. CASE SessionError(w)
    <2>1. PICK n \in {1, 2} : Settle(w, n)
      BY <1>3 DEF SessionError
    <2>2. faults' \in [FaultKinds -> Nat]
      BY <1>3 DEF SessionError, TypeOK
    <2> QED BY <1>3, <2>1, <2>2, SettleType DEF TypeOK, SessionError
  <1>4. ASSUME NEW applied \in BOOLEAN, WriteError(w, applied) PROVE TypeInv'
    <2>1. faults' \in [FaultKinds -> Nat]
      BY <1>4 DEF WriteError, TypeOK
    <2>2. batch' \in Batch /\ rows' \in SUBSET Row /\ nextId' \in Nat
      BY <1>4, ApplyType DEF WriteError, TypeOK
    <2>3. pc[w] = "commit" /\ AfterFailedWrite(w, tries[w] + 1 < Attempts)
      BY <1>4 DEF WriteError
    <2>4. /\ pc' \in [Workers -> PCs] /\ good' \in [Workers -> BOOLEAN]
          /\ fallback' \in [Workers -> BOOLEAN]
          /\ tally' \in [Workers -> [ok : Nat, failed : Nat]]
          /\ tries' \in [Workers -> Nat] /\ passes' \in [Workers -> Nat]
          /\ PassesLeft'
      <3>1. (tries[w] + 1 < Attempts) \in BOOLEAN
        OBVIOUS
      <3> QED BY <2>3, <3>1, AfterFailedWriteType, Zenon
    <2> QED BY <1>4, <2>1, <2>2, <2>4 DEF TypeOK, WriteError
  <1>5. ASSUME NEW applied \in BOOLEAN, SettleError(w, applied) PROVE TypeInv'
    <2>1. faults' \in [FaultKinds -> Nat]
      BY <1>5 DEF SettleError, TypeOK
    <2>2. batch' \in Batch
      BY <1>5, ApplyVerdictType DEF SettleError, TypeOK
    <2>3. /\ pc' \in [Workers -> PCs] /\ tries' \in [Workers -> Nat]
          /\ passes' \in [Workers -> Nat] /\ PassesLeft'
      <3>1. pc[w] = "settle_commit" /\ passes[w] >= 1 /\ tries[w] + 1 \in Nat
        BY <1>5 DEF SettleError, TypeOK
      <3>2. CASE tries[w] + 1 < Attempts
        <4>1. /\ Goto(w, "settle") /\ UNCHANGED passes
              /\ tries' = [tries EXCEPT ![w] = tries[w] + 1]
          BY <1>5, <3>2 DEF SettleError
        <4> QED BY <3>1, <4>1 DEF TypeOK, Goto
      <3>3. CASE ~(tries[w] + 1 < Attempts)
        <4>1. PassDone(w)
          BY <1>5, <3>3 DEF SettleError
        <4> QED BY <3>1, <4>1 DEF TypeOK, PassDone, Goto
      <3> QED BY <3>2, <3>3
    <2> QED BY <1>5, <2>1, <2>2, <2>3 DEF TypeOK, SettleError
  <1> QED BY <1>1, <1>2, <1>3, <1>4, <1>5 DEF Fault

\* Every step keeps the types.
LEMMA NextTypeInv == TypeInv /\ [Next]_vars => TypeInv'
  <1> SUFFICES ASSUME TypeInv, [Next]_vars PROVE TypeInv'
    OBVIOUS
  <1>1. CASE UNCHANGED vars
    BY <1>1 DEF TypeOK
  <1>2. ASSUME NEW w \in Workers, NEW m \in queue, Take(w, m) PROVE TypeInv'
    BY <1>2 DEF TypeOK, Take
  <1> QED BY <1>1, <1>2, HandlerTypeInv, TaskTypeInv, FaultTypeInv DEF Next

\* Every variable keeps its type, for any number of questions, workers and
\* clients and any budget of faults.
THEOREM TypeCorrect == Spec => []TypeOK
  <1>1. Spec => []TypeInv
    BY InitTypeInv, NextTypeInv, PTL DEF Spec
  <1> QED BY <1>1, PTL


-----------------------------------------------------------------------------
(* CoverInv is inductive relative to TypeInv.  The proof first states what *)
(* one step may do to the rows (RowsStep), to the status (StatusStep), to a *)
(* handler (HandlerShape) and to a task (TaskShape), shows it action by    *)
(* action, and derives every conjunct of CoverInv' from these shapes.      *)

HIDE DEF TypeInv, PassesLeft, PCs, AllOps, FaultKinds, Batch, Row, Message, Statuses,
         Terminal, NoMessage, NoRow, NewBatch, ZeroTally, vars, dbVars, apiVars,
         itemVars, txnVars, workerVars


Gone == batch.status = "gone"

\* new rows take new ids, and the batch moves, or results arrive, or all go
RowsStep ==
    /\ nextId' \in Nat /\ nextId' >= nextId
    /\ \A r \in rows' : r \in rows \/ (nextId <= r.id /\ r.id < nextId')
    /\ \A r, s \in rows' : nextId <= r.id /\ r.id = s.id => r.qa = s.qa
    /\ \/ rows' = rows /\ (Gone <=> Gone')
       \/ ~Gone /\ batch'.status = batch.status /\ Covered(rows) \subseteq Covered(rows')
       \/ ~Gone /\ Gone' /\ rows' = {}

StatusStep ==
    batch'.status = batch.status \/ batch'.status # "completed" \/ AllCovered

HandlerShape(c) ==
    rpc'[c] # "idle" => \/ rseen'[c] = batch /\ ~Gone
                        \/ rseen'[c] = rseen[c] /\ rpc[c] # "idle"

TaskShape(w) ==
    /\ \A t \in todo'[w] : t \in todo[w] \/ t \in rows \/ t.id = 0
    /\ cur'[w] = cur[w] \/ cur'[w] \in todo[w] \/ cur'[w].id = 0
    /\ pc'[w] = "commit" =>
         /\ cur'[w] = cur[w]
         /\ snap'[w] = OldRows(w) \/ (snap'[w] = snap[w] /\ pc[w] = "commit")
    /\ pc'[w] = "settle_commit" =>
         \/ verdict'[w] = Verdict(batch, rows) /\ ~Gone
         \/ verdict'[w] = verdict[w] /\ pc[w] = "settle_commit"

Shape == /\ RowsStep /\ StatusStep
         /\ \A c \in Clients : HandlerShape(c)
         /\ \A w \in Workers : TaskShape(w)

-----------------------------------------------------------------------------
(* Rows and verdicts *)

\* A step that leaves the rows alone and neither deletes nor restores the batch.
LEMMA QuietRows ==
    ASSUME TypeOK, RowIds, UNCHANGED <<rows, nextId>>, Gone <=> Gone'
    PROVE  RowsStep
  <1>1. nextId' \in Nat /\ nextId' >= nextId
    BY DEF TypeOK
  <1>2. \A r, s \in rows' : nextId <= r.id /\ r.id = s.id => r.qa = s.qa
    BY DEF TypeOK, RowIds, Known, Row
  <1> QED BY <1>1, <1>2 DEF RowsStep

\* The transaction of _write replaces rows of one question by a row of it.
LEMMA ApplyRows ==
    ASSUME TypeOK, RowIds, SnapsOneQuestion, NEW w \in Workers,
           pc[w] = "commit", ~Gone, Apply(w)
    PROVE  RowsStep /\ StatusStep
  <1> DEFINE new == [id |-> nextId, qa |-> cur[w].qa, ok |-> good[w]]
  <1>1. rows' = (rows \ snap[w]) \cup {new} /\ nextId' = nextId + 1
    BY DEF Apply
  <1>2. batch'.status = batch.status
    BY DEF Apply, TypeOK, Batch
  <1>3. Covered(rows) \subseteq Covered(rows')
    <2> SUFFICES ASSUME NEW r \in rows PROVE \E s \in rows' : s.qa = r.qa
      BY DEF Covered
    <2>1. CASE r \in snap[w]
      <3>1. r.qa = cur[w].qa
        BY <2>1 DEF SnapsOneQuestion
      <3>2. new \in rows' /\ new.qa = r.qa
        BY <1>1, <3>1
      <3> QED BY <3>2, Zenon
    <2>2. CASE r \notin snap[w]
      BY <1>1, <2>2
    <2> QED BY <2>1, <2>2
  <1>4. \A r \in rows' : r \in rows \/ (r = new /\ r.id = nextId)
    BY <1>1
  <1>5. \A r \in rows : r.id < nextId /\ r.id \in Nat
    BY DEF RowIds, Known, TypeOK, Row
  <1>6. nextId \in Nat
    BY DEF TypeOK
  <1>7. \A r, s \in rows' : nextId <= r.id /\ r.id = s.id => r.qa = s.qa
    BY <1>4, <1>5, <1>6
  <1>8. \A r \in rows' : r \in rows \/ (nextId <= r.id /\ r.id < nextId')
    BY <1>1, <1>4, <1>6
  <1>9. nextId' \in Nat /\ nextId' >= nextId
    BY <1>1, <1>6
  <1> QED BY <1>2, <1>3, <1>7, <1>8, <1>9 DEF RowsStep, StatusStep

\* FillMissing adds placeholders with ids of their own and deletes nothing.
LEMMA RetryRows ==
    ASSUME TypeOK, RowIds, NEW c \in Clients, FillMissing(c)
    PROVE  RowsStep /\ StatusStep
  <1> DEFINE holders == Placeholders(rmissing[c])
  <1>1. /\ rows' = rows \cup holders /\ batch' = batch /\ ~Gone
        /\ nextId' = nextId + NQA + 1
    BY DEF FillMissing, Gone
  <1>2. nextId \in Nat /\ NQA \in Nat
    BY NQAAssumption DEF TypeOK
  <1>3. \A h \in holders : \E q \in QA : h.id = nextId + q /\ h.qa = q
    BY DEF Placeholders, TypeOK
  <1>4. \A q \in QA : q \in Nat /\ 1 <= q /\ q <= NQA
    BY <1>2 DEF QA
  <1>5. \A h \in holders : h.id = nextId + h.qa /\ h.qa \in Nat /\ h.qa <= NQA
    BY <1>3, <1>4
  <1>6. \A r \in rows : r.id < nextId /\ r.id \in Nat
    BY DEF RowIds, Known, TypeOK, Row
  <1> HIDE DEF holders
  <1>7. nextId' \in Nat /\ nextId' >= nextId
    BY <1>1, <1>2
  <1>8. \A r \in rows' : r \in rows \/ (nextId <= r.id /\ r.id < nextId')
    BY <1>1, <1>2, <1>5
  <1>9. \A r, s \in rows' : nextId <= r.id /\ r.id = s.id => r.qa = s.qa
    BY <1>1, <1>2, <1>5, <1>6
  <1>10. Covered(rows) \subseteq Covered(rows')
    BY <1>1 DEF Covered
  <1> QED BY <1>1, <1>7, <1>8, <1>9, <1>10 DEF RowsStep, StatusStep

\* A verdict of completed counted every question of the scope.
LEMMA VerdictCounts ==
    ASSUME TypeOK, Verdict(batch, rows).status = "completed"
    PROVE  Covered(rows) = QA
  <1>1. Cardinality(Covered(rows)) >= NQA
    BY DEF Verdict
  <1>2. /\ Covered(rows) \subseteq QA /\ IsFiniteSet(QA) /\ Cardinality(QA) = NQA
        /\ Cardinality(Covered(rows)) \in Nat
    BY CountsAreNat DEF TypeOK
  <1>3. /\ Cardinality(Covered(rows)) <= Cardinality(QA)
        /\ Cardinality(QA) = Cardinality(Covered(rows)) => Covered(rows) = QA
    BY <1>2, FS_Subset
  <1> QED BY <1>1, <1>2, <1>3, NQAAssumption
-----------------------------------------------------------------------------
(* The handlers *)

\* What a handler does to the rows and the status.
LEMMA HandlerRows ==
    ASSUME TypeInv, CoverInv, NEW c \in Clients,
           Handler(c) \/ DispatchFails(c) \/ \E op \in AllOps : Request(c, op)
    PROVE  RowsStep /\ StatusStep
  <1> USE DEF TypeInv, TypeOK, CoverInv, Gone, StatusStep, Batch, dbVars
  <1>1. ASSUME NEW op \in AllOps, Request(c, op) PROVE RowsStep /\ StatusStep
    BY <1>1, QuietRows DEF Request
  <1>2. CASE RequestLost(c)
    BY <1>2, QuietRows DEF RequestLost
  <1>3. CASE StartTask(c)
    BY <1>3, QuietRows DEF StartTask, Assign
  <1>4. CASE CancelBatch(c)
    BY <1>4, QuietRows DEF CancelBatch
  <1>5. CASE ForceCancelBatch(c)
    BY <1>5, QuietRows DEF ForceCancelBatch
  <1>6. CASE FindFailed(c)
    BY <1>6, QuietRows DEF FindFailed
  <1>12. CASE FindMissing(c)
    BY <1>12, QuietRows DEF FindMissing
  <1>13. CASE FillMissing(c)
    BY <1>13, RetryRows
  <1>7. CASE RetryOne(c)
    BY <1>7, QuietRows DEF RetryOne
  <1>8. CASE RetryNothing(c)
    BY <1>8, QuietRows DEF RetryNothing
  <1>9. CASE DeleteBatch(c)
    BY <1>9 DEF DeleteBatch, RowsStep
  <1>10. CASE Dispatch(c)
    BY <1>10, QuietRows DEF Dispatch
  <1>11. CASE DispatchFails(c)
    <2>1. Carried(rseen[c]) /\ UNCHANGED <<rows, nextId>>
      BY <1>11 DEF DispatchFails, SeenCovered
    <2>2. \/ batch'.status = batch.status
          \/ ~Gone /\ batch'.status = rseen[c].status
      BY <1>11 DEF DispatchFails, Assign
    <2> QED BY <2>1, <2>2, QuietRows DEF Carried
  <1> QED
    BY <1>1, <1>2, <1>3, <1>4, <1>5, <1>6, <1>7, <1>8, <1>9, <1>10, <1>11, <1>12, <1>13
       DEF Handler

\* What a handler does to the handlers.
LEMMA HandlerShapes ==
    ASSUME TypeInv, NEW c \in Clients, NEW d \in Clients,
           Handler(c) \/ DispatchFails(c) \/ \E op \in AllOps : Request(c, op)
    PROVE  HandlerShape(d) /\ UNCHANGED workerVars
  <1> USE DEF TypeInv, TypeOK, HandlerShape
  <1>1. ASSUME NEW op \in AllOps, Request(c, op)
        PROVE  HandlerShape(d) /\ UNCHANGED workerVars
    BY <1>1 DEF Request, Admits, Gone
  <1>2. CASE RequestLost(c)
    BY <1>2 DEF RequestLost
  <1>3. CASE StartTask(c)
    BY <1>3 DEF StartTask
  <1>4. CASE CancelBatch(c)
    BY <1>4 DEF CancelBatch
  <1>5. CASE ForceCancelBatch(c)
    BY <1>5 DEF ForceCancelBatch
  <1>6. CASE FindFailed(c)
    BY <1>6 DEF FindFailed
  <1>12. CASE FindMissing(c)
    BY <1>12 DEF FindMissing
  <1>13. CASE FillMissing(c)
    BY <1>13 DEF FillMissing
  <1>7. CASE RetryOne(c)
    BY <1>7 DEF RetryOne
  <1>8. CASE RetryNothing(c)
    BY <1>8 DEF RetryNothing
  <1>9. CASE DeleteBatch(c)
    BY <1>9 DEF DeleteBatch
  <1>10. CASE Dispatch(c)
    BY <1>10 DEF Dispatch
  <1>11. CASE DispatchFails(c)
    BY <1>11 DEF DispatchFails
  <1> QED
    BY <1>1, <1>2, <1>3, <1>4, <1>5, <1>6, <1>7, <1>8, <1>9, <1>10, <1>11, <1>12, <1>13
       DEF Handler
-----------------------------------------------------------------------------
(* The tasks *)

\* A settled status is the verdict, or what another task wrote meanwhile.
LEMMA VerdictRows ==
    ASSUME TypeOK, RowIds, VerdictCovered, NEW w \in Workers,
           pc[w] = "settle_commit", ~Gone, ApplyVerdict(w), UNCHANGED <<rows, nextId>>
    PROVE  RowsStep /\ StatusStep
  <1>1. Carried(verdict[w])
    BY DEF VerdictCovered
  <1>2. batch'.status \in {batch.status, verdict[w].status}
    BY DEF ApplyVerdict, Assign, TypeOK, Batch
  <1> QED BY <1>1, <1>2, QuietRows DEF Carried, Gone, StatusStep

\* What a task does to the rows and the status.
LEMMA TaskRows ==
    ASSUME TypeInv, CoverInv, NEW w \in Workers,
           TaskStep(w) \/ Fault(w) \/ \E m \in queue : Take(w, m)
    PROVE  RowsStep /\ StatusStep
  <1> USE DEF TypeInv, TypeOK, CoverInv, Gone, StatusStep, Batch, dbVars
  <1>1. ASSUME NEW m \in queue, Take(w, m) PROVE RowsStep /\ StatusStep
    BY <1>1, QuietRows DEF Take
  <1>2. CASE OpenRun(w)
    BY <1>2, QuietRows DEF OpenRun
  <1>3. CASE OpenRetry(w)
    BY <1>3, QuietRows DEF OpenRetry
  <1>4. CASE Begin(w)
    BY <1>4, QuietRows DEF Begin, Assign
  <1>5. CASE UpdateLost(w)
    BY <1>5, QuietRows DEF UpdateLost
  <1>6. CASE NextItem(w)
    BY <1>6, QuietRows DEF NextItem
  <1>7. CASE SeeCancel(w)
    BY <1>7, QuietRows DEF SeeCancel
  <1>8. CASE EndLoop(w)
    BY <1>8, QuietRows DEF EndLoop
  <1>9. CASE Query(w)
    BY <1>9, QuietRows DEF Query
  <1>10. CASE WriteOpen(w)
    BY <1>10, QuietRows DEF WriteOpen
  <1>11. CASE WriteCommit(w)
    BY <1>11, ApplyRows DEF WriteCommit
  <1>12. CASE WriteRefused(w)
    BY <1>12, QuietRows DEF WriteRefused
  <1>13. CASE FinishCancelled(w)
    BY <1>13, QuietRows DEF FinishCancelled, Assign
  <1>23. CASE CancelRead(w)
    BY <1>23, QuietRows DEF CancelRead
  <1>14. CASE SettleRead(w)
    BY <1>14, QuietRows DEF SettleRead
  <1>15. CASE SettleMissing(w)
    BY <1>15, QuietRows DEF SettleMissing
  <1>16. CASE SettleCommit(w)
    BY <1>16, VerdictRows DEF SettleCommit
  <1>17. CASE Ack(w)
    BY <1>17, QuietRows DEF Ack
  <1>18. CASE Crash(w)
    BY <1>18, QuietRows DEF Crash
  <1>19. CASE Kill(w)
    BY <1>19, QuietRows DEF Kill
  <1>20. CASE SessionError(w)
    BY <1>20, QuietRows DEF SessionError
  <1>21. ASSUME NEW applied \in BOOLEAN, WriteError(w, applied)
        PROVE  RowsStep /\ StatusStep
    BY <1>21, ApplyRows, QuietRows DEF WriteError
  <1>22. ASSUME NEW applied \in BOOLEAN, SettleError(w, applied)
        PROVE  RowsStep /\ StatusStep
    BY <1>22, VerdictRows, QuietRows DEF SettleError
  <1> QED
    BY <1>1, <1>2, <1>3, <1>4, <1>5, <1>6, <1>7, <1>8, <1>9, <1>10, <1>11, <1>12, <1>13, <1>14, <1>15, <1>16, <1>17, <1>18, <1>19, <1>20, <1>21, <1>22, <1>23
       DEF TaskStep, Fault

\* After a failed write the task opens another transaction or settles.
LEMMA AfterFailedWriteShape ==
    ASSUME TypeOK, NEW w \in Workers, NEW v \in Workers, NEW left \in BOOLEAN,
           AfterFailedWrite(w, left)
    PROVE  pc'[v] = pc[v] \/ pc'[v] \in {"write", "settle"}
  BY DEF TypeOK, AfterFailedWrite, Settle, Goto

\* What a task does to the tasks.
LEMMA TaskShapes ==
    ASSUME TypeInv, NEW w \in Workers, NEW v \in Workers,
           TaskStep(w) \/ Fault(w) \/ \E m \in queue : Take(w, m)
    PROVE  TaskShape(v) /\ UNCHANGED apiVars
  <1> USE DEF TypeInv, TypeOK, TaskShape, Goto, Gone, itemVars, txnVars, apiVars
  <1>1. ASSUME NEW m \in queue, Take(w, m) PROVE TaskShape(v) /\ UNCHANGED apiVars
    BY <1>1 DEF Take
  <1>2. CASE OpenRun(w)
    <2>1. \A t \in {NoRow(q) : q \in QA} : t.id = 0
      BY DEF NoRow
    <2>2. todo' = [todo EXCEPT ![w] = {NoRow(q) : q \in QA}]
      BY <1>2 DEF OpenRun
    <2>3. pc'[v] = pc[v] \/ pc'[v] \in {"ack", "begin"}
      BY <1>2 DEF OpenRun
    <2> QED BY <1>2, <2>1, <2>2, <2>3 DEF OpenRun
  <1>3. CASE OpenRetry(w)
    BY <1>3 DEF OpenRetry
  <1>4. CASE Begin(w)
    BY <1>4 DEF Begin
  <1>5. CASE UpdateLost(w)
    BY <1>5 DEF UpdateLost, Settle
  <1>6. CASE NextItem(w)
    BY <1>6 DEF NextItem
  <1>7. CASE SeeCancel(w)
    BY <1>7 DEF SeeCancel
  <1>8. CASE EndLoop(w)
    BY <1>8 DEF EndLoop, Settle
  <1>9. CASE Query(w)
    BY <1>9 DEF Query
  <1>10. CASE WriteOpen(w)
    BY <1>10 DEF WriteOpen
  <1>11. CASE WriteCommit(w)
    BY <1>11 DEF WriteCommit
  <1>12. CASE WriteRefused(w)
    BY <1>12, AfterFailedWriteShape DEF WriteRefused
  <1>13. CASE FinishCancelled(w)
    BY <1>13 DEF FinishCancelled
  <1>23. CASE CancelRead(w)
    BY <1>23 DEF CancelRead
  <1>14. CASE SettleRead(w)
    BY <1>14 DEF SettleRead
  <1>15. CASE SettleMissing(w)
    BY <1>15 DEF SettleMissing, PassDone
  <1>16. CASE SettleCommit(w)
    BY <1>16 DEF SettleCommit, PassDone
  <1>17. CASE Ack(w)
    BY <1>17 DEF Ack, Release, NoRow
  <1>18. CASE Crash(w)
    BY <1>18 DEF Crash, Release, NoRow
  <1>19. CASE Kill(w)
    BY <1>19 DEF Kill, Release, NoRow
  <1>20. CASE SessionError(w)
    BY <1>20 DEF SessionError, Settle
  <1>21. ASSUME NEW applied \in BOOLEAN, WriteError(w, applied)
        PROVE  TaskShape(v) /\ UNCHANGED apiVars
    <2>1. (tries[w] + 1 < Attempts) \in BOOLEAN
      OBVIOUS
    <2>2. pc'[v] = pc[v] \/ pc'[v] \in {"write", "settle"}
      BY <1>21, <2>1, AfterFailedWriteShape DEF WriteError
    <2>3. pc[w] = "commit" /\ UNCHANGED <<apiVars, todo, cur, snap, verdict>>
      BY <1>21 DEF WriteError
    <2> QED BY <2>2, <2>3
  <1>22. ASSUME NEW applied \in BOOLEAN, SettleError(w, applied)
        PROVE  TaskShape(v) /\ UNCHANGED apiVars
    BY <1>22 DEF SettleError, PassDone
  <1> QED
    BY <1>1, <1>2, <1>3, <1>4, <1>5, <1>6, <1>7, <1>8, <1>9, <1>10, <1>11, <1>12, <1>13, <1>14, <1>15, <1>16, <1>17, <1>18, <1>19, <1>20, <1>21, <1>22, <1>23
       DEF TaskStep, Fault
-----------------------------------------------------------------------------
(* Every conjunct of CoverInv from the shapes *)

\* Every step has one of the shapes.
LEMMA NextShape ==
    ASSUME TypeInv, CoverInv, [Next]_vars
    PROVE  Shape
  <1>1. CASE UNCHANGED vars
    <2>1. RowsStep /\ StatusStep
      BY <1>1, QuietRows DEF TypeInv, CoverInv, vars, Gone, StatusStep
    <2> QED BY <1>1, <2>1 DEF Shape, HandlerShape, TaskShape, vars
  <1>2. ASSUME NEW c \in Clients,
               Handler(c) \/ DispatchFails(c) \/ \E op \in AllOps : Request(c, op)
        PROVE  Shape
    <2>1. RowsStep /\ StatusStep
      BY <1>2, HandlerRows
    <2>2. \A d \in Clients : HandlerShape(d) /\ UNCHANGED workerVars
      BY <1>2, HandlerShapes
    <2>3. UNCHANGED <<pc, todo, cur, snap, verdict>>
      BY <1>2, <2>2 DEF workerVars, itemVars, txnVars
    <2> QED BY <2>1, <2>2, <2>3 DEF Shape, TaskShape
  <1>3. ASSUME NEW w \in Workers,
               TaskStep(w) \/ Fault(w) \/ \E m \in queue : Take(w, m)
        PROVE  Shape
    <2>1. RowsStep /\ StatusStep
      BY <1>3, TaskRows
    <2>2. \A v \in Workers : TaskShape(v) /\ UNCHANGED apiVars
      BY <1>3, TaskShapes
    <2>3. UNCHANGED <<rpc, rseen>>
      BY <1>3, <2>2 DEF apiVars
    <2> QED BY <2>1, <2>2, <2>3 DEF Shape, HandlerShape
  <1> QED BY <1>1, <1>2, <1>3 DEF Next

\* Known in the next state, of a row of this one
KnownNext(t) == t.id < nextId' /\ \A r \in rows' : r.id = t.id => r.qa = t.qa

\* A row known before a step is known after it.
LEMMA KnownStable ==
    ASSUME TypeOK, TypeOK', RowsStep, NEW t \in Row, Known(t)
    PROVE  KnownNext(t)
  BY DEF TypeOK, RowsStep, Known, KnownNext, Row

\* The placeholder row of a question, which has no id, clashes with no row.
LEMMA NoIdKnown ==
    ASSUME TypeOK', RowIds', NEW t \in Row, t.id = 0
    PROVE  KnownNext(t)
  BY DEF TypeOK, RowIds, KnownNext, Row

\* Once every question has a result, it stays so until the batch is deleted.
LEMMA AllCoveredStable ==
    ASSUME TypeOK, TypeOK', RowsStep, AllCovered
    PROVE  AllCovered'
  <1>1. Covered(rows') \subseteq QA
    BY CountsAreNat DEF TypeOK
  <1>2. CASE rows' = rows /\ (Gone <=> Gone')
    BY <1>2 DEF AllCovered, Gone
  <1>3. CASE ~Gone /\ batch'.status = batch.status /\ Covered(rows) \subseteq Covered(rows')
    BY <1>1, <1>3 DEF AllCovered, Gone
  <1>4. CASE ~Gone /\ Gone' /\ rows' = {}
    BY <1>4 DEF AllCovered, Gone
  <1> QED BY <1>2, <1>3, <1>4 DEF RowsStep

\* A carried state that was justified stays justified.
LEMMA CarriedStable ==
    ASSUME TypeOK, TypeOK', RowsStep, NEW b, Carried(b)
    PROVE  b.status # "gone" /\ (b.status = "completed" => AllCovered')
  BY AllCoveredStable DEF Carried

\* Every step keeps the invariant.
LEMMA NextCoverInv ==
    ASSUME TypeInv, TypeInv', CoverInv, [Next]_vars
    PROVE  CoverInv'
  <1>1. Shape
    BY NextShape
  <1>2. TypeOK /\ TypeOK'
    BY DEF TypeInv
  <1>3. RowIds'
    <2>1. nextId' >= 1 /\ nextId \in Nat /\ nextId' \in Nat /\ nextId >= 1
      BY <1>1, <1>2 DEF Shape, RowsStep, CoverInv, RowIds, TypeOK
    <2> SUFFICES ASSUME NEW r \in rows' PROVE r.id >= 1 /\ KnownNext(r)
      BY <2>1 DEF RowIds, Known, KnownNext
    <2>2. r \in Row /\ r.id \in Nat
      BY <1>2 DEF TypeOK, Row
    <2>3. CASE r \in rows
      BY <1>1, <1>2, <2>2, <2>3, KnownStable DEF Shape, CoverInv, RowIds
    <2>4. CASE r \notin rows
      <3>1. nextId <= r.id /\ r.id < nextId'
        BY <1>1, <2>4 DEF Shape, RowsStep
      <3>2. \A s \in rows' : r.id = s.id => r.qa = s.qa
        BY <1>1, <3>1 DEF Shape, RowsStep
      <3> QED BY <2>1, <2>2, <3>1, <3>2 DEF KnownNext
    <2> QED BY <2>3, <2>4
  <1>4. TaskIds'
    <2> SUFFICES ASSUME NEW w \in Workers
                 PROVE  KnownNext(cur'[w]) /\ \A t \in todo'[w] : KnownNext(t)
      BY DEF TaskIds, Known, KnownNext
    <2>1. cur'[w] \in Row /\ todo'[w] \subseteq Row
      BY <1>2 DEF TypeOK
    <2>2. \A t \in Row : Known(t) \/ t.id = 0 => KnownNext(t)
      BY <1>1, <1>2, <1>3, KnownStable, NoIdKnown DEF Shape
    <2>3. Known(cur[w]) /\ (\A t \in todo[w] : Known(t)) /\ (\A t \in rows : Known(t))
      BY DEF CoverInv, TaskIds, RowIds
    <2>4. Known(cur'[w]) \/ cur'[w].id = 0
      BY <1>1, <2>3 DEF Shape, TaskShape
    <2>5. \A t \in todo'[w] : Known(t) \/ t.id = 0
      BY <1>1, <2>3 DEF Shape, TaskShape
    <2> QED BY <2>1, <2>2, <2>4, <2>5
  <1>5. SnapsOneQuestion'
    <2> SUFFICES ASSUME NEW w \in Workers, pc'[w] = "commit", NEW r \in snap'[w]
                 PROVE  r.qa = cur'[w].qa
      BY DEF SnapsOneQuestion
    <2>1. Known(cur[w])
      BY DEF CoverInv, TaskIds
    <2>2. cur'[w] = cur[w]
      BY <1>1 DEF Shape, TaskShape
    <2>3. CASE snap'[w] = OldRows(w)
      BY <2>1, <2>2, <2>3 DEF OldRows, Known
    <2>4. CASE snap'[w] = snap[w] /\ pc[w] = "commit"
      BY <2>2, <2>4 DEF CoverInv, SnapsOneQuestion
    <2> QED BY <1>1, <2>3, <2>4 DEF Shape, TaskShape
  <1>6. CompletedIsCovered'
    <2> SUFFICES ASSUME batch'.status = "completed" PROVE Covered(rows') = QA
      BY DEF CompletedIsCovered, Covered
    <2>1. AllCovered
      BY <1>1 DEF Shape, StatusStep, CoverInv, CompletedIsCovered, AllCovered
    <2> QED BY <1>1, <1>2, <2>1, AllCoveredStable DEF Shape, AllCovered, Covered
  <1>7. SeenCovered'
    <2> SUFFICES ASSUME NEW c \in Clients, rpc'[c] # "idle"
                 PROVE  /\ rseen'[c].status # "gone"
                        /\ rseen'[c].status = "completed" => AllCovered'
      BY DEF SeenCovered, Carried, AllCovered
    <2>1. CASE rseen'[c] = batch /\ ~Gone
      <3>1. Carried(batch)
        BY <2>1 DEF Carried, Gone, CoverInv, CompletedIsCovered, AllCovered
      <3> QED BY <1>1, <1>2, <2>1, <3>1, CarriedStable DEF Shape
    <2>2. CASE rseen'[c] = rseen[c] /\ rpc[c] # "idle"
      <3>1. Carried(rseen[c])
        BY <2>2 DEF CoverInv, SeenCovered
      <3> QED BY <1>1, <1>2, <2>2, <3>1, CarriedStable DEF Shape
    <2> QED BY <1>1, <2>1, <2>2 DEF Shape, HandlerShape
  <1>8. VerdictCovered'
    <2> SUFFICES ASSUME NEW w \in Workers, pc'[w] = "settle_commit"
                 PROVE  /\ verdict'[w].status # "gone"
                        /\ verdict'[w].status = "completed" => AllCovered'
      BY DEF VerdictCovered, Carried, AllCovered
    <2>1. CASE verdict'[w] = Verdict(batch, rows)
      <3>1. Carried(Verdict(batch, rows))
        <4>1. Verdict(batch, rows).status # "gone"
          BY DEF Verdict
        <4> QED BY <1>2, <4>1, VerdictCounts DEF Carried, AllCovered
      <3> QED BY <1>1, <1>2, <2>1, <3>1, CarriedStable DEF Shape
    <2>2. CASE verdict'[w] = verdict[w] /\ pc[w] = "settle_commit"
      <3>1. Carried(verdict[w])
        BY <2>2 DEF CoverInv, VerdictCovered
      <3> QED BY <1>1, <1>2, <2>2, <3>1, CarriedStable DEF Shape
    <2> QED BY <1>1, <2>1, <2>2 DEF Shape, TaskShape
  <1> QED BY <1>3, <1>4, <1>5, <1>6, <1>7, <1>8 DEF CoverInv

\* The invariant holds of a new batch: it has no rows and claims none.
LEMMA InitCoverInv == Init => CoverInv
  BY DEF Init, CoverInv, RowIds, TaskIds, Known, SnapsOneQuestion, CompletedIsCovered,
         SeenCovered, VerdictCovered, NoRow, NewBatch

-----------------------------------------------------------------------------
(* The theorems *)

\* The inductive invariant of the results: the rows of a batch belong to the
\* questions the tasks believe, and every completed that a handler or a task
\* carries is still true of the rows.
THEOREM CoverCorrect == Spec => [](TypeInv /\ CoverInv)
  <1>1. TypeInv /\ CoverInv /\ [Next]_vars => (TypeInv /\ CoverInv)'
    BY NextTypeInv, NextCoverInv
  <1>2. Init => TypeInv /\ CoverInv
    BY InitTypeInv, InitCoverInv
  <1> QED BY <1>1, <1>2, PTL DEF Spec

\* A batch that says completed has a result for every question of its scope,
\* whatever tasks, handlers and faults interleave.
THEOREM CompletedCorrect == Spec => []CompletedIsCovered
  <1>1. CoverInv => CompletedIsCovered
    BY DEF CoverInv
  <1> QED BY <1>1, CoverCorrect, PTL

\* No step but the deletion of the batch takes away the last result of a
\* question.
THEOREM ResultsStay == Spec => ResultsNeverVanish
  <1>1. TypeInv /\ CoverInv /\ [Next]_vars
          => [batch'.status # "gone" => Covered(rows) \subseteq Covered(rows')]_vars
    BY NextShape DEF Shape, RowsStep, Gone, CoverInv
  <1> QED BY <1>1, CoverCorrect, PTL DEF Spec, ResultsNeverVanish

\* Every step is a step of the contract or leaves its variables alone.
LEMMA NextContract ==
    ASSUME TypeInv, TypeInv', CoverInv, CoverInv', [Next]_vars
    PROVE  [Contract!Next]_(Contract!vars)
  <1> USE DEF Contract!vars
  <1>1. RowsStep
    BY NextShape DEF Shape
  <1>2. Covered(rows') \subseteq QA
    BY CountsAreNat DEF TypeInv, TypeOK
  <1>3. batch.status \in Statuses /\ batch'.status \in Statuses
    BY DEF TypeInv, TypeOK, Batch
  <1>4. CASE rows' = rows /\ (Gone <=> Gone')
    <2>1. CASE Gone
      BY <1>4, <2>1 DEF Gone, Covered
    <2>2. CASE ~Gone
      <3>1. batch'.status \in Contract!Live
        BY <1>3, <1>4, <2>2 DEF Gone, Statuses, Terminal, Contract!Live
      <3>2. batch'.status = "completed" => Covered(rows) = QA
        BY <1>4 DEF CoverInv, CompletedIsCovered, Covered
      <3>3. Contract!Move(batch'.status)
        BY <1>4, <2>2, <3>1, <3>2 DEF Gone, Contract!Move, Covered
      <3> QED BY <3>1, <3>3 DEF Contract!Next
    <2> QED BY <2>1, <2>2
  <1>5. CASE ~Gone /\ batch'.status = batch.status /\ Covered(rows) \subseteq Covered(rows')
    <2>1. Contract!Record(Covered(rows'))
      BY <1>5 DEF Gone, Contract!Record, Covered
    <2> QED BY <1>2, <2>1 DEF Contract!Next
  <1>6. CASE ~Gone /\ Gone' /\ rows' = {}
    <2>1. Contract!Drop
      BY <1>6 DEF Gone, Contract!Drop, Covered
    <2> QED BY <2>1 DEF Contract!Next
  <1> QED BY <1>1, <1>4, <1>5, <1>6 DEF RowsStep

\* InvocationBatch implements BatchContract.
THEOREM Implements == Spec => ImplementsContract
  <1>1. Init => Contract!Init
    BY DEF Init, NewBatch, Covered, Contract!Init
  <1>2. TypeInv /\ CoverInv /\ (TypeInv /\ CoverInv)' /\ [Next]_vars
          => [Contract!Next]_(Contract!vars)
    BY NextContract
  <1> QED
    BY <1>1, <1>2, CoverCorrect, PTL DEF Spec, ImplementsContract, Contract!Spec

\* A batch that says completed has a result for every question: what the
\* contract promises to the readers of a batch.
THEOREM ContractDelivers == Contract!Spec => []Contract!Delivered
  <1> USE DEF Contract!vars
  <1>1. Contract!Init => Contract!Delivered
    BY DEF Contract!Init, Contract!Delivered
  <1>2. Contract!Delivered /\ [Contract!Next]_(Contract!vars) => Contract!Delivered'
    <2> SUFFICES ASSUME Contract!Delivered, [Contract!Next]_(Contract!vars)
                 PROVE Contract!Delivered'
      OBVIOUS
    <2>1. ASSUME NEW s \in Contract!Live, Contract!Move(s) PROVE Contract!Delivered'
      BY <2>1 DEF Contract!Delivered, Contract!Move
    <2>2. ASSUME NEW S \in SUBSET QA, Contract!Record(S) PROVE Contract!Delivered'
      BY <2>2 DEF Contract!Delivered, Contract!Record
    <2>3. CASE Contract!Drop
      BY <2>3 DEF Contract!Delivered, Contract!Drop
    <2>4. CASE UNCHANGED Contract!vars
      BY <2>4 DEF Contract!Delivered, Contract!vars
    <2> QED BY <2>1, <2>2, <2>3, <2>4 DEF Contract!Next
  <1> QED BY <1>1, <1>2, PTL DEF Contract!Spec
=============================================================================
