-------------------------- MODULE LoadTest_proofs ---------------------------
(***************************************************************************)
(* A load test is run by one execution at a time when no message is        *)
(* delivered again and no two requests overlap, and the limit it reports   *)
(* was sustained, for any number of workers, requests, levels and faults.  *)
(***************************************************************************)
EXTENDS LoadTest, FiniteSetTheorems, SequenceTheorems, TLAPS

\* an execution that has not yet decided how the test ends
Hot(w) == frame[w].pc \notin {"idle", "ack"}

\* the fields that the steps read and write
Shape ==
    /\ "status" \in DOMAIN job
    /\ DOMAIN frame = Workers
    /\ \A w \in Workers : DOMAIN frame[w] = {"pc", "mid", "loc"}
    /\ DOMAIN call = Clients
    /\ \A c \in Clients : DOMAIN call[c] = {"op", "seen"}
    /\ faults \in [FaultKinds -> Nat]
    /\ faults.crash <= Budget.crash

\* There is one message, one hot execution or one handler between its commit
\* of running and its dispatch, and it finds the test running or deleted; a
\* handler that has read a test it may start finds none of them.
Single ==
    /\ \A m, n \in queue : m = n
    /\ \A v, w \in Workers : Hot(v) /\ Hot(w) => v = w
    /\ \A w \in Workers : Hot(w) => queue = {} /\ job.status \in {"running", "gone"}
    /\ queue # {} => job.status \in {"running", "gone"}
    /\ \A c \in Clients : call[c].op \in {"run", "dispatch"} =>
          queue = {} /\ \A w \in Workers : ~Hot(w)
    /\ \A c \in Clients : call[c].op = "dispatch" => job.status \in {"running", "gone"}

LoadInv == Shape /\ (faults.crash = Budget.crash => Single)

-----------------------------------------------------------------------------
(* The shape of the state *)

\* a move of one execution
LEMMA GotoMoves ==
    ASSUME Shape, NEW w \in Workers, NEW pc, NEW loc, Goto(w, pc, loc)
    PROVE  /\ DOMAIN frame' = Workers
           /\ \A v \in Workers : DOMAIN frame'[v] = {"pc", "mid", "loc"}
           /\ frame'[w].pc = pc
           /\ \A v \in Workers \ {w} : frame'[v] = frame[v]
BY DEF Shape, Goto

\* a fault is taken from what is left of its kind
LEMMA FaultCounts ==
    ASSUME Shape, NEW k \in FaultKinds, Fault(k)
    PROVE  /\ faults' \in [FaultKinds -> Nat]
           /\ k # "crash" => faults'.crash = faults.crash
           /\ k = "crash" => faults'.crash < faults.crash
BY BudgetAssumption DEF Shape, Fault, FaultKinds

\* what a move of the executions does to the state
MovesFrames(w, pcs) ==
    /\ DOMAIN frame' = Workers
    /\ \A v \in Workers : DOMAIN frame'[v] = {"pc", "mid", "loc"}
    /\ frame'[w].pc \in pcs
    /\ \A v \in Workers \ {w} : frame'[v] = frame[v]

\* faults other than a crash, or none
CrashKept == faults' \in [FaultKinds -> Nat] /\ faults'.crash = faults.crash
JobKept == "status" \in DOMAIN job' /\ job'.status = job.status

LEMMA NoFault == Shape /\ UNCHANGED faults => CrashKept
BY DEF Shape, CrashKept

LEMMA OtherFault == ASSUME Shape, NEW k \in FaultKinds \ {"crash"}, Fault(k) PROVE CrashKept
BY FaultCounts DEF CrashKept

-----------------------------------------------------------------------------
(* The steps of an execution *)

Running == {"begin", "level", "measure", "save", "except", "except_fresh"}

\* a hot execution moves on and leaves the status alone, or says it runs
LEMMA HotSteps ==
    ASSUME Shape, NEW w \in Workers,
           OpenTest(w) \/ Prepare(w) \/ StartLevel(w) \/ MeasureLimit(w) \/ MeasureLevel(w)
             \/ EndRamp(w) \/ Fails(w) \/ MarkFailedLost(w)
    PROVE  /\ Hot(w) /\ UNCHANGED <<queue, call>> /\ CrashKept
           /\ MovesFrames(w, Running \cup {"ack"})
           /\ "status" \in DOMAIN job' /\ job'.status \in {job.status, "running"}
<1>1. UNCHANGED <<queue, call>> /\ Hot(w)
  BY DEF OpenTest, Open, Prepare, StartLevel, MeasureLimit, MeasureLevel, EndRamp, Fails, NegativeLevel, Raise,
         DbError, MarkFailedLost, At, Hot, Committing
<1>2. CrashKept
  <2>1. UNCHANGED faults \/ Fault("db")
    BY DEF OpenTest, Open, Prepare, StartLevel, MeasureLimit, MeasureLevel, EndRamp, Fails, NegativeLevel, Raise,
           DbError, MarkFailedLost
  <2> QED BY <2>1, NoFault, OtherFault DEF FaultKinds
<1>3. "status" \in DOMAIN job' /\ job'.status \in {job.status, "running"}
  <2>1. UNCHANGED job \/ job' = [job EXCEPT !.status = "running"]
    BY DEF OpenTest, Open, Prepare, StartLevel, MeasureLimit, MeasureLevel, EndRamp, Fails, NegativeLevel, Raise,
           DbError, MarkFailedLost
  <2> QED BY <2>1 DEF Shape
<1>4. \E pc \in Running \cup {"ack"} : \E loc : Goto(w, pc, loc)
  <2>1. CASE OpenTest(w) BY <2>1 DEF OpenTest, Open, Running
  <2>2. CASE Prepare(w) BY <2>2 DEF Prepare, Running
  <2>3. CASE StartLevel(w) BY <2>3 DEF StartLevel, Running
  <2>4. CASE MeasureLimit(w)
    <3>1. PICK v \in VerdictsAt(Loc(w).at) : \E loc : Goto(w, IF v = "pass" THEN "level" ELSE "save", loc)
      BY <2>4 DEF MeasureLimit
    <3> QED BY <3>1 DEF Running
  <2>5. CASE MeasureLevel(w) BY <2>5 DEF MeasureLevel, Running
  <2>6. CASE EndRamp(w) BY <2>6 DEF EndRamp, Running
  <2>7. CASE Fails(w) BY <2>7 DEF Fails, NegativeLevel, Raise, DbError, Running
  <2>8. CASE MarkFailedLost(w) BY <2>8 DEF MarkFailedLost, Running
  <2> QED BY <2>1, <2>2, <2>3, <2>4, <2>5, <2>6, <2>7, <2>8
<1>5. MovesFrames(w, Running \cup {"ack"})
  BY <1>4, GotoMoves DEF MovesFrames
<1> QED BY <1>1, <1>2, <1>3, <1>5

\* a hot execution settles the test
LEMMA SettleSteps ==
    ASSUME Shape, NEW w \in Workers, SaveResult(w) \/ MarkFailed(w)
    PROVE  /\ Hot(w) /\ UNCHANGED <<queue, call>> /\ CrashKept
           /\ MovesFrames(w, {"ack"}) /\ "status" \in DOMAIN job'
<1>1. Hot(w) /\ UNCHANGED <<queue, call, faults>> /\ Goto(w, "ack", <<>>)
  BY DEF SaveResult, MarkFailed, At, Hot
<1>2. "status" \in DOMAIN job'
  BY DEF Shape, SaveResult, MarkFailed
<1>3. MovesFrames(w, {"ack"})
  BY <1>1, GotoMoves DEF MovesFrames
<1> QED BY <1>1, <1>2, <1>3, NoFault

\* an execution ends without another delivery
LEMMA EndSteps ==
    ASSUME Shape, NEW w \in Workers, Ack(w) \/ Kill(w)
    PROVE  UNCHANGED <<job, queue, call>> /\ CrashKept /\ MovesFrames(w, {"idle"})
<1>1. UNCHANGED faults \/ Fault("kill")
  BY DEF Ack, Kill
<1>2. CrashKept
  BY <1>1, NoFault, OtherFault DEF FaultKinds
<1> QED BY <1>2 DEF Ack, Kill, MovesFrames, Shape, IdleFrame

-----------------------------------------------------------------------------
(* Each group of steps keeps the invariant *)

\* a state whose crashes are all left is the successor of such a state
LEMMA SingleBefore == LoadInv /\ CrashKept => Shape /\ (faults'.crash = Budget.crash => Single)
BY DEF LoadInv, CrashKept

LEMMA HotStepKeeps ==
    ASSUME LoadInv, NEW w \in Workers,
           Hot(w), UNCHANGED <<queue, call>>, CrashKept,
           NEW pcs, MovesFrames(w, pcs), "status" \in DOMAIN job',
           job'.status \in {job.status, "running"} \/ pcs \subseteq {"idle", "ack"}
    PROVE  LoadInv'
<1>1. Shape'
  BY DEF LoadInv, Shape, CrashKept, MovesFrames
<1>2. ASSUME faults'.crash = Budget.crash PROVE Single'
  <2>1. Single
    BY <1>2, SingleBefore
  <2>2. \A v \in Workers \ {w} : ~Hot(v) /\ ~Hot(v)'
    BY <2>1 DEF Single, MovesFrames, Hot
  <2>3. queue' = {} /\ job.status \in {"running", "gone"}
    BY <2>1 DEF Single
  <2>4. Hot(w)' => job'.status \in {"running", "gone"}
    BY <2>3 DEF MovesFrames, Hot
  <2>5. \A c \in Clients : call'[c].op \notin {"run", "dispatch"}
    BY <2>1 DEF Single
  <2> QED BY <2>2, <2>3, <2>4, <2>5 DEF Single
<1> QED BY <1>1, <1>2 DEF LoadInv

LEMMA EndStepKeeps ==
    ASSUME LoadInv, NEW w \in Workers, UNCHANGED <<job, queue, call>>, CrashKept,
           MovesFrames(w, {"idle"})
    PROVE  LoadInv'
<1>1. Shape'
  BY DEF LoadInv, Shape, CrashKept, MovesFrames
<1>2. ASSUME faults'.crash = Budget.crash PROVE Single'
  <2>1. Single
    BY <1>2, SingleBefore
  <2>2. \A v \in Workers : Hot(v)' => Hot(v)
    BY DEF MovesFrames, Hot
  <2> QED BY <2>1, <2>2 DEF Single
<1> QED BY <1>1, <1>2 DEF LoadInv

\* the message becomes the hot execution
LEMMA TakeKeeps ==
    ASSUME LoadInv, NEW w \in Workers, Take(w) PROVE LoadInv'
<1>1. PICK m \in queue : /\ queue' = queue \ {m}
                         /\ frame' = [frame EXCEPT ![w] = [IdleFrame EXCEPT !.pc = "open", !.mid = m]]
  BY DEF Take
<1>2. CrashKept /\ UNCHANGED <<job, call>>
  BY NoFault DEF Take, LoadInv
<1>3. MovesFrames(w, {"open"})
  BY <1>1 DEF LoadInv, Shape, MovesFrames, IdleFrame
<1>4. Shape'
  BY <1>2, <1>3 DEF LoadInv, Shape, CrashKept, MovesFrames
<1>5. ASSUME faults'.crash = Budget.crash PROVE Single'
  <2>1. Single
    BY <1>2, <1>5, SingleBefore
  <2>2. queue' = {} /\ job'.status \in {"running", "gone"}
    BY <1>1, <1>2, <2>1 DEF Single
  <2>3. \A v \in Workers \ {w} : ~Hot(v)'
    BY <1>1, <1>3, <2>1 DEF Single, MovesFrames, Hot
  <2>4. \A c \in Clients : call'[c].op \notin {"run", "dispatch"}
    BY <1>1, <1>2, <2>1 DEF Single
  <2> QED BY <2>2, <2>3, <2>4 DEF Single
<1> QED BY <1>4, <1>5 DEF LoadInv

\* a crash is outside the claim
LEMMA CrashKeeps ==
    ASSUME LoadInv, NEW w \in Workers, Crash(w) PROVE LoadInv'
<1>1. faults' \in [FaultKinds -> Nat] /\ faults'.crash < faults.crash
  BY FaultCounts DEF Crash, LoadInv, FaultKinds
<1>2. MovesFrames(w, {"idle"}) /\ UNCHANGED <<job, call>>
  BY DEF Crash, LoadInv, Shape, MovesFrames, IdleFrame
<1>3. Budget.crash \in Nat /\ faults.crash \in Nat /\ faults.crash <= Budget.crash /\ faults'.crash \in Nat
  BY <1>1, BudgetAssumption DEF LoadInv, Shape, FaultKinds
<1>4. faults'.crash < Budget.crash
  BY <1>1, <1>3
<1>5. Shape'
  BY <1>1, <1>2, <1>3, <1>4 DEF LoadInv, Shape, MovesFrames
<1> QED BY <1>3, <1>4, <1>5 DEF LoadInv

LEMMA WorkKeeps == ASSUME LoadInv, NEW w \in Workers, Work(w) PROVE LoadInv'
<1>1. CASE Take(w) BY <1>1, TakeKeeps
<1>2. CASE Crash(w) BY <1>2, CrashKeeps
<1>3. CASE Ack(w) \/ Kill(w) BY <1>3, EndSteps, EndStepKeeps DEF LoadInv
<1>4. CASE SaveResult(w) \/ MarkFailed(w) BY <1>4, SettleSteps, HotStepKeeps DEF LoadInv
<1>5. CASE OpenTest(w) \/ Prepare(w) \/ StartLevel(w) \/ MeasureLimit(w) \/ MeasureLevel(w)
             \/ EndRamp(w) \/ Fails(w) \/ MarkFailedLost(w)
  BY <1>5, HotSteps, HotStepKeeps DEF LoadInv
<1> QED BY <1>1, <1>2, <1>3, <1>4, <1>5 DEF Work, Delivery

-----------------------------------------------------------------------------
(* The handlers, one request at a time *)

\* a handler that neither starts the test nor touches the executions
LEMMA OtherHandlerKeeps ==
    ASSUME LoadInv, NEW c \in Clients, \A d \in Clients : d = c,
           UNCHANGED <<queue, frame>>, CrashKept, "status" \in DOMAIN job',
           job'.status \in {job.status, "gone"}
             \/ (queue = {} /\ \A w \in Workers : ~Hot(w)),
           DOMAIN call' = Clients, DOMAIN call'[c] = {"op", "seen"},
           call'[c].op \notin {"run", "dispatch"}
             \/ (call'[c].op = "run" /\ job'.status \notin {"running", "gone"})
             \/ (call'[c].op = "dispatch" /\ call[c].op = "run" /\ job'.status = "running")
    PROVE  LoadInv'
<1>1. Shape'
  BY DEF LoadInv, Shape, CrashKept
<1>2. ASSUME faults'.crash = Budget.crash PROVE Single'
  <2>1. Single
    BY <1>2, SingleBefore
  <2>2. \A w \in Workers : Hot(w)' <=> Hot(w)
    BY DEF Hot
  <2>3. \A w \in Workers : Hot(w) => queue = {} /\ job'.status \in {"running", "gone"}
    BY <2>1 DEF Single
  <2>4. queue # {} => job'.status \in {"running", "gone"}
    BY <2>1 DEF Single
  <2>5. \A d \in Clients : call'[d].op \in {"run", "dispatch"} =>
            queue = {} /\ \A w \in Workers : ~Hot(w)
    BY <2>1, <2>3, <2>4 DEF Single
  <2>6. \A d \in Clients : call'[d].op = "dispatch" => job'.status \in {"running", "gone"}
    OBVIOUS
  <2> QED BY <2>1, <2>2, <2>3, <2>4, <2>5, <2>6 DEF Single
<1> QED BY <1>1, <1>2 DEF LoadInv

LEMMA HandlersKeep ==
    ASSUME LoadInv, NEW c \in Clients, \A d \in Clients : d = c, Handlers(c)
    PROVE  LoadInv'
<1> USE DEF Finish, NoCall
<1>0. Shape BY DEF LoadInv
<1>1. CASE CreateLoadTest(c)
  <2>1. job.status = "none" /\ call'[c].op = "none"
    BY <1>1 DEF CreateLoadTest
  <2>2. CASE faults.crash = Budget.crash
    <3>1. queue = {} /\ \A w \in Workers : ~Hot(w)
      BY <2>1, <2>2 DEF LoadInv, Single
    <3> QED BY <1>0, <1>1, <2>1, <3>1, NoFault, OtherHandlerKeeps DEF CreateLoadTest, Shape
  <2>3. CASE faults.crash # Budget.crash
    BY <1>1, <2>3 DEF CreateLoadTest, LoadInv, Shape
  <2> QED BY <2>2, <2>3
<1>2. CASE RequestRun(c) \/ RequestDelete(c) \/ RequestUpdate(c)
  <2>1. /\ UNCHANGED <<job, queue, frame, faults>> /\ job.status \notin {"running", "gone"}
        /\ \E op \in {"run", "delete", "update"} : call' = [call EXCEPT ![c] = [op |-> op, seen |-> job.status]]
    BY <1>2 DEF RequestRun, RequestDelete, RequestUpdate, Receive, NotRunning, Exists
  <2>2. DOMAIN call' = Clients /\ DOMAIN call'[c] = {"op", "seen"} /\ call'[c].op \in {"run", "delete", "update"}
    BY <1>0, <2>1 DEF Shape
  <2> QED BY <1>0, <2>1, <2>2, NoFault, OtherHandlerKeeps DEF Shape
<1>3. CASE UpdateLoadTest(c)
  <2>1. "status" \in DOMAIN job' /\ job'.status = job.status
    BY <1>0, <1>3 DEF UpdateLoadTest, Shape
  <2> QED BY <1>0, <1>3, <2>1, NoFault, OtherHandlerKeeps DEF UpdateLoadTest, Shape
<1>4. CASE DeleteLoadTest(c)
  <2>1. "status" \in DOMAIN job' /\ job'.status = "gone"
    BY <1>0, <1>4 DEF DeleteLoadTest, Shape
  <2> QED BY <1>0, <1>4, <2>1, NoFault, OtherHandlerKeeps DEF DeleteLoadTest, Shape
<1>5. CASE StartTask(c)
  <2>1. CASE Exists
    <3>1. /\ call[c].op = "run" /\ UNCHANGED <<queue, frame, faults>>
          /\ job' = [job EXCEPT !.status = "running"] /\ call' = [call EXCEPT ![c].op = "dispatch"]
      BY <1>5, <2>1 DEF StartTask
    <3>2. "status" \in DOMAIN job' /\ job'.status = "running"
      BY <1>0, <3>1 DEF Shape
    <3>3. DOMAIN call' = Clients /\ DOMAIN call'[c] = {"op", "seen"} /\ call'[c].op = "dispatch"
      BY <1>0, <3>1 DEF Shape
    <3>4. CASE faults.crash = Budget.crash
      <4>1. queue = {} /\ \A w \in Workers : ~Hot(w)
        BY <3>1, <3>4 DEF LoadInv, Single
      <4> QED BY <1>0, <3>1, <3>2, <3>3, <4>1, NoFault, OtherHandlerKeeps
    <3>5. CASE faults.crash # Budget.crash
      BY <3>1, <3>2, <3>3, <3>5 DEF LoadInv, Shape
    <3> QED BY <3>4, <3>5
  <2>2. CASE ~Exists
    BY <1>0, <1>5, <2>2, NoFault, OtherHandlerKeeps DEF StartTask, Shape
  <2> QED BY <2>1, <2>2
<1>6. CASE Dispatch(c)
  <2>1. Shape'
    BY <1>0, <1>6 DEF Dispatch, Shape
  <2>2. ASSUME faults'.crash = Budget.crash PROVE Single'
    <3>1. Single /\ call[c].op = "dispatch"
      BY <1>6, <2>2 DEF Dispatch, LoadInv
    <3>2. queue' = {nextMid} /\ job'.status \in {"running", "gone"}
      BY <1>6, <3>1 DEF Dispatch, Single
    <3>3. \A w \in Workers : ~Hot(w)'
      BY <1>6, <3>1 DEF Dispatch, Single, Hot
    <3>4. \A d \in Clients : call'[d].op = "none"
      BY <1>0, <1>6 DEF Dispatch, Shape
    <3> QED BY <3>2, <3>3, <3>4 DEF Single
  <2> QED BY <2>1, <2>2 DEF LoadInv
<1>7. CASE DispatchFails(c)
  <2>1. /\ call[c].op = "dispatch" /\ UNCHANGED <<queue, frame>> /\ CrashKept
        /\ "status" \in DOMAIN job'
        /\ DOMAIN call' = Clients /\ DOMAIN call'[c] = {"op", "seen"} /\ call'[c].op = "none"
    BY <1>0, <1>7, OtherFault DEF DispatchFails, Shape, FaultKinds
  <2>2. CASE faults.crash = Budget.crash
    <3>1. queue = {} /\ \A w \in Workers : ~Hot(w)
      BY <2>1, <2>2 DEF LoadInv, Single
    <3> QED BY <2>1, <3>1, OtherHandlerKeeps
  <2>3. CASE faults.crash # Budget.crash
    BY <2>1, <2>3 DEF LoadInv, Shape, CrashKept
  <2> QED BY <2>2, <2>3
<1> QED BY <1>1, <1>2, <1>3, <1>4, <1>5, <1>6, <1>7 DEF Handlers

-----------------------------------------------------------------------------
LEMMA InitLoad == Init => LoadInv
<1> SUFFICES ASSUME Init PROVE LoadInv OBVIOUS
<1>1. Shape
  BY BudgetAssumption DEF Init, QueueInit, Shape, IdleFrame, NoCall, FaultKinds
<1>2. Single
  BY DEF Init, QueueInit, Single, Hot, IdleFrame, NoCall
<1> QED BY <1>1, <1>2 DEF LoadInv

\* When no two requests overlap, a load test is run by one execution at a
\* time until a message is delivered again, for any number of workers and
\* whatever else fails (api/v1/_common.py:102).
THEOREM OneLoadAtATimeThm ==
    ASSUME \A c, d \in Clients : c = d
    PROVE  Spec => []OneLoadAtATime
<1>1. LoadInv /\ [Next]_vars => LoadInv'
  <2> SUFFICES ASSUME LoadInv, [Next]_vars PROVE LoadInv'
    OBVIOUS
  <2>1. CASE UNCHANGED vars
    BY <2>1 DEF vars, taskVars, LoadInv, Shape, Single, Hot
  <2>2. ASSUME NEW c \in Clients, Handlers(c) PROVE LoadInv'
    BY <2>2, HandlersKeep
  <2> QED BY <2>1, <2>2, WorkKeeps DEF Next
<1>2. LoadInv => OneLoadAtATime
  <2> SUFFICES ASSUME LoadInv, faults.crash = Budget.crash
               PROVE  Cardinality({w \in Workers : frame[w].pc \in {"level", "measure"}}) <= 1
    BY DEF OneLoadAtATime
  <2> DEFINE loading == {w \in Workers : frame[w].pc \in {"level", "measure"}}
  <2>1. \A v, w \in loading : v = w
    BY DEF LoadInv, Single, Hot
  <2>2. loading = {} \/ \E w \in loading : loading = {w}
    BY <2>1
  <2> HIDE DEF loading
  <2>3. Cardinality(loading) \in {0, 1}
    <3>1. CASE loading = {}
      BY <3>1, FS_EmptySet, Zenon
    <3>2. ASSUME NEW w \in loading, loading = {w} PROVE Cardinality(loading) = 1
      BY <3>2, FS_Singleton, Zenon
    <3> QED BY <2>2, <3>1, <3>2
  <2>4. Cardinality(loading) <= 1
    BY <2>3
  <2> QED BY <2>4 DEF loading
<1> QED BY <1>1, <1>2, InitLoad, PTL DEF Spec

-----------------------------------------------------------------------------
(* The limit that is reported.  While the concurrency moves every level so   *)
(* far has passed, each lies in the direction of the step from the one       *)
(* before, and the best is the last of them.                                 *)

Step == [level : Int, verdict : Verdicts]

\* a step leads from level a towards level b
Towards(step, a, b) == IF step > 0 THEN a < b ELSE a > b

Ramp(l) ==
    /\ l \in [mode : {"qps_limit"}, step : Int \ {0}, max : Int, at : Int, best : Int, steps : Seq(Step)]
    /\ \A i \in 1..Len(l.steps) : l.steps[i].verdict = "pass"
    /\ \A i \in 1..Len(l.steps) :
          i < Len(l.steps) => Towards(l.step, l.steps[i].level, l.steps[i + 1].level)
    /\ l.best = IF Len(l.steps) = 0 THEN 0 ELSE l.steps[Len(l.steps)].level
    /\ Len(l.steps) # 0 => Towards(l.step, l.best, l.at)

\* what LimitWasSustained says of a result
Sustained(r) ==
    r.reason \in LimitReasons =>
      LET steps == r.steps
          passed == Passed(steps)
          inner == {i \in DOMAIN steps : i < Len(steps)}
      IN /\ \A i \in inner : steps[i].verdict = "pass"
         /\ \/ \A i \in inner : steps[i].level < steps[i + 1].level
            \/ \A i \in inner : steps[i].level > steps[i + 1].level
         /\ r.best = IF passed = {} THEN 0 ELSE steps[Cardinality(passed)].level
         /\ r.stopped = {} <=> passed = DOMAIN steps
         /\ r.stopped = {0} <=> r.reason = "unknown"

\* the local values of one execution
Measures(f) ==
    /\ f.pc = "begin" => f.loc.config \in Configs
    /\ f.pc \in {"level", "measure"} /\ f.loc.mode = "qps_limit" => Ramp(f.loc)
    /\ f.pc = "save" => Sustained(f.loc)

LimitInv ==
    /\ DOMAIN job = {"status", "config", "result"} /\ job.config \in Configs /\ Sustained(job.result)
    /\ DOMAIN frame = Workers
    /\ \A w \in Workers : DOMAIN frame[w] = {"pc", "mid", "loc"} /\ Measures(frame[w])

\* one execution moves
LEMMA OneMove ==
    ASSUME LimitInv, NEW w \in Workers, DOMAIN frame' = Workers,
           DOMAIN frame'[w] = {"pc", "mid", "loc"}, Measures(frame'[w]),
           \A v \in Workers \ {w} : frame'[v] = frame[v],
           DOMAIN job' = DOMAIN job, job'.config \in Configs, Sustained(job'.result)
    PROVE  LimitInv'
<1>1. \A v \in Workers : DOMAIN frame'[v] = {"pc", "mid", "loc"} /\ Measures(frame'[v])
  BY DEF LimitInv
<1> QED BY <1>1 DEF LimitInv, Measures, Sustained, Ramp

\* an execution goes on with new local values
LEMMA GotoKeeps ==
    ASSUME LimitInv, NEW w \in Workers, NEW pc, NEW loc, Goto(w, pc, loc),
           DOMAIN job' = DOMAIN job, job'.config \in Configs, Sustained(job'.result),
           pc = "begin" => loc.config \in Configs,
           pc \in {"level", "measure"} /\ loc.mode = "qps_limit" => Ramp(loc),
           pc = "save" => Sustained(loc)
    PROVE  LimitInv'
<1>1. /\ DOMAIN frame' = Workers /\ DOMAIN frame'[w] = {"pc", "mid", "loc"}
      /\ \A v \in Workers \ {w} : frame'[v] = frame[v]
      /\ frame'[w].pc = pc /\ frame'[w].loc = loc
  BY DEF Goto, LimitInv
<1>2. Measures(frame'[w]) BY <1>1 DEF Measures
<1> QED BY <1>1, <1>2, OneMove

\* the fields of the local values of a level that passed
LEMMA RaisedFields ==
    ASSUME NEW S, NEW N, NEW M, NEW T,
           NEW l \in [mode : M, step : T, max : N, at : N, best : N, steps : S],
           NEW s \in S, NEW b \in N, NEW a \in N
    PROVE  LET m == [l EXCEPT !.steps = s, !.best = b, !.at = a]
           IN /\ m \in [mode : M, step : T, max : N, at : N, best : N, steps : S]
              /\ m.steps = s /\ m.best = b /\ m.at = a
OBVIOUS

\* a level that passes
LEMMA RampGoesOn ==
    ASSUME NEW l, Ramp(l)
    PROVE  Ramp([l EXCEPT !.steps = Append(l.steps, Entry(l.at, "pass")), !.best = l.at, !.at = l.at + l.step])
<1> DEFINE e == Entry(l.at, "pass")
           steps == Append(l.steps, e)
           n == Len(l.steps)
           m == [l EXCEPT !.steps = steps, !.best = l.at, !.at = l.at + l.step]
<1>1. /\ l.steps \in Seq(Step) /\ l.at \in Int /\ l.best \in Int /\ l.step \in Int \ {0} /\ n \in Nat
      /\ l.mode = "qps_limit" /\ l.max \in Int
  BY LenProperties DEF Ramp
<1>2. e \in Step /\ e.level = l.at /\ e.verdict = "pass"
  BY <1>1 DEF Entry, Step, Verdicts
<1>3. /\ steps \in Seq(Step) /\ Len(steps) = n + 1 /\ steps[n + 1] = e
      /\ \A i \in 1..n : steps[i] = l.steps[i]
  BY <1>1, <1>2, AppendProperties DEF Entry
<1>4. /\ m \in [mode : {"qps_limit"}, step : Int \ {0}, max : Int, at : Int, best : Int, steps : Seq(Step)]
      /\ m.steps = steps /\ m.best = l.at /\ m.at = l.at + l.step /\ m.step = l.step
  <2>1. l \in [mode : {"qps_limit"}, step : Int \ {0}, max : Int, at : Int, best : Int, steps : Seq(Step)]
    BY DEF Ramp
  <2>2. l.at + l.step \in Int /\ steps \in Seq(Step) /\ l.at \in Int BY <1>1, <1>3
  <2> HIDE DEF steps
  <2> QED BY <2>1, <2>2, RaisedFields
<1>5. \A i \in 1..n : l.steps[i].verdict = "pass"
  BY DEF Ramp
<1>6. \A i \in 1..n : i < n => Towards(l.step, l.steps[i].level, l.steps[i + 1].level)
  BY DEF Ramp
<1>7. n # 0 => Towards(l.step, l.steps[n].level, l.at)
  BY <1>1 DEF Ramp
<1>70. Towards(l.step, l.at, l.at + l.step)
  BY <1>1 DEF Towards
<1> HIDE DEF e, steps, n, m
<1>8. \A i \in 1..(n + 1) : steps[i].verdict = "pass"
  BY <1>1, <1>2, <1>3, <1>5
<1>9. \A i \in 1..(n + 1) : i < n + 1 => Towards(l.step, steps[i].level, steps[i + 1].level)
  <2> SUFFICES ASSUME NEW i \in 1..n PROVE Towards(l.step, steps[i].level, steps[i + 1].level)
    BY <1>1
  <2>1. CASE i = n BY <1>1, <1>2, <1>3, <1>7, <2>1
  <2>2. CASE i < n
    <3>1. i + 1 \in 1..n BY <1>1, <2>2
    <3> QED BY <1>3, <1>6, <2>2, <3>1
  <2> QED BY <1>1, <2>1, <2>2
<1>10. Ramp(m)
  BY <1>1, <1>2, <1>3, <1>4, <1>70, <1>8, <1>9 DEF Ramp
<1> QED BY <1>10 DEF m, steps, e

\* the first level that does not pass
LEMMA FailIsSustained ==
    ASSUME NEW l, Ramp(l), NEW v \in VerdictsAt(l.at), v # "pass"
    PROVE  Sustained([best |-> l.best, steps |-> Append(l.steps, Entry(l.at, v)), stopped |-> {l.at},
                      reason |-> Reason(v)])
<1> DEFINE e == Entry(l.at, v)
           steps == Append(l.steps, e)
           n == Len(l.steps)
           passed == Passed(steps)
           inner == {i \in DOMAIN steps : i < Len(steps)}
<1>1. /\ l.steps \in Seq(Step) /\ l.at \in Int /\ l.best \in Int /\ n \in Nat
      /\ n # 0 => Towards(l.step, l.steps[n].level, l.at)
      /\ l.best = IF n = 0 THEN 0 ELSE l.steps[n].level
  BY LenProperties DEF Ramp
<1>2. e \in Step /\ e.level = l.at /\ e.verdict = v
  BY <1>1 DEF Entry, Step, Verdicts, VerdictsAt
<1>3. /\ Len(steps) = n + 1 /\ steps[n + 1] = e /\ DOMAIN steps = 1..(n + 1)
      /\ \A i \in 1..n : steps[i] = l.steps[i]
  BY <1>1, <1>2, AppendProperties, LenProperties DEF Entry
<1>4. \A i \in 1..n : l.steps[i].verdict = "pass"
  BY DEF Ramp
<1>5. \A i \in 1..n : i < n => Towards(l.step, l.steps[i].level, l.steps[i + 1].level)
  BY DEF Ramp
<1>50. {l.at} = {0} <=> Reason(v) = "unknown"
  <2>1. {l.at} = {0} <=> l.at = 0
    OBVIOUS
  <2>2. l.at = 0 <=> v = "nothing"
    BY DEF VerdictsAt, Verdicts
  <2>3. Reason(v) = "unknown" <=> v = "nothing"
    BY DEF VerdictsAt, Verdicts, Reason
  <2> QED BY <2>1, <2>2, <2>3
<1> HIDE DEF e, steps, n
<1>6. passed = 1..n /\ inner = 1..n
  BY <1>1, <1>2, <1>3, <1>4 DEF Passed
<1> HIDE DEF passed, inner
<1>7. Cardinality(1..n) = n
  BY <1>1, FS_Interval
<1>8. ASSUME NEW i \in 1..n
      PROVE  steps[i].verdict = "pass" /\ Towards(l.step, steps[i].level, steps[i + 1].level)
  <2>2. CASE i = n BY <1>1, <1>2, <1>3, <1>4, <2>2
  <2>3. CASE i < n
    <3>1. i + 1 \in 1..n BY <1>1, <2>3
    <3> QED BY <1>3, <1>4, <1>5, <2>3, <3>1
  <2> QED BY <1>1, <2>2, <2>3
<1>9. l.best = IF passed = {} THEN 0 ELSE steps[Cardinality(passed)].level
  <2>1. CASE n = 0
    <3>1. passed = {} BY <1>6, <2>1
    <3> QED BY <1>1, <2>1, <3>1
  <2>2. CASE n # 0
    <3>0. n \in 1..n BY <1>1, <2>2
    <3>1. n \in 1..n /\ passed # {} BY <1>6, <3>0
    <3>2. steps[Cardinality(passed)] = l.steps[n] BY <1>3, <1>6, <1>7, <3>1
    <3> QED BY <1>1, <2>2, <3>1, <3>2
  <2> QED BY <2>1, <2>2
<1>10. {l.at} # {} /\ passed # DOMAIN steps
  BY <1>1, <1>3, <1>6
<1>100. \/ \A i \in inner : steps[i].level < steps[i + 1].level
        \/ \A i \in inner : steps[i].level > steps[i + 1].level
  BY <1>6, <1>8 DEF Towards
<1> DEFINE r == [best |-> l.best, steps |-> steps, stopped |-> {l.at}, reason |-> Reason(v)]
<1>11. r.best = l.best /\ r.steps = steps /\ r.stopped = {l.at} /\ r.reason = Reason(v)
  OBVIOUS
<1> HIDE DEF r
<1>12. Sustained(r)
  BY <1>6, <1>8, <1>9, <1>10, <1>100, <1>50, <1>11 DEF Sustained, passed, inner
<1> QED BY <1>12 DEF r, steps, e

\* a ramp that has gone past the maximum
LEMMA MaxIsSustained ==
    ASSUME NEW l, Ramp(l)
    PROVE  Sustained([best |-> l.best, steps |-> l.steps, stopped |-> {}, reason |-> "max_concurrency_reached"])
<1> DEFINE steps == l.steps
           n == Len(steps)
           passed == Passed(steps)
           inner == {i \in DOMAIN steps : i < Len(steps)}
<1>1. /\ n \in Nat /\ DOMAIN steps = 1..n /\ l.best = IF n = 0 THEN 0 ELSE steps[n].level
      /\ \A i \in 1..n : steps[i].verdict = "pass"
      /\ \A i \in 1..n : i < n => Towards(l.step, steps[i].level, steps[i + 1].level)
  BY LenProperties DEF Ramp
<1>2. passed = 1..n /\ passed = DOMAIN steps
  BY <1>1 DEF Passed
<1>3. Cardinality(1..n) = n
  <2> HIDE DEF n
  <2> QED BY <1>1, FS_Interval
<1>30. /\ \A i \in inner : steps[i].verdict = "pass"
       /\ \/ \A i \in inner : steps[i].level < steps[i + 1].level
          \/ \A i \in inner : steps[i].level > steps[i + 1].level
  BY <1>1 DEF Towards
<1> HIDE DEF passed, inner
<1>4. l.best = IF passed = {} THEN 0 ELSE steps[Cardinality(passed)].level
  <2> HIDE DEF n, steps
  <2>1. CASE n = 0
    <3>1. passed = {} BY <1>2, <2>1
    <3> QED BY <1>1, <2>1, <3>1
  <2>2. CASE n # 0
    <3>0. n \in 1..n BY <1>1, <2>2
    <3>1. passed # {} BY <1>2, <3>0
    <3>2. steps[Cardinality(passed)] = steps[n] BY <1>2, <1>3
    <3> QED BY <1>1, <2>2, <3>1, <3>2
  <2> QED BY <2>1, <2>2
<1> DEFINE r == [best |-> l.best, steps |-> steps, stopped |-> {}, reason |-> "max_concurrency_reached"]
<1>5. r.best = l.best /\ r.steps = steps /\ r.stopped = {} /\ r.reason = "max_concurrency_reached"
  OBVIOUS
<1>6. {} # {0}
  OBVIOUS
<1> HIDE DEF r, steps, n
<1>7. Sustained(r)
  BY <1>1, <1>2, <1>30, <1>4, <1>5, <1>6 DEF Sustained, passed, inner
<1> QED BY <1>7 DEF r, steps

-----------------------------------------------------------------------------
(* The steps of an execution keep what the limit says *)

\* a move to a place without local values to keep
LEMMA LeaveKeeps ==
    ASSUME LimitInv, NEW w \in Workers,
           NEW pc \in {"idle", "open", "except", "except_fresh", "ack"}, NEW loc, Goto(w, pc, loc),
           DOMAIN job' = DOMAIN job, job'.config \in Configs, Sustained(job'.result)
    PROVE  LimitInv'
BY GotoKeeps

\* the status alone is written
LEMMA StatusWritten ==
    ASSUME LimitInv, NEW s, job' = [job EXCEPT !.status = s]
    PROVE  DOMAIN job' = DOMAIN job /\ job'.config \in Configs /\ Sustained(job'.result)
BY DEF LimitInv

LEMMA JobKeptWhole ==
    ASSUME LimitInv, UNCHANGED job
    PROVE  DOMAIN job' = DOMAIN job /\ job'.config \in Configs /\ Sustained(job'.result)
BY DEF LimitInv, Sustained

LEMMA DeliveryLimit == ASSUME LimitInv, NEW w \in Workers, Delivery(w) PROVE LimitInv'
<1>1. UNCHANGED job
  BY DEF Delivery, Take, Ack, Crash, Kill
<1>2. /\ DOMAIN frame' = Workers /\ \A v \in Workers \ {w} : frame'[v] = frame[v]
      /\ DOMAIN frame'[w] = {"pc", "mid", "loc"} /\ frame'[w].pc \in {"idle", "open"}
  <2>1. CASE Take(w)
    BY <2>1 DEF Take, IdleFrame, LimitInv
  <2>2. CASE frame' = [frame EXCEPT ![w] = IdleFrame]
    BY <2>2 DEF IdleFrame, LimitInv
  <2> QED BY <2>1, <2>2 DEF Delivery, Ack, Crash, Kill
<1>3. Measures(frame'[w])
  BY <1>2 DEF Measures
<1> QED BY <1>1, <1>2, <1>3, JobKeptWhole, OneMove

LEMMA OpenLimit == ASSUME LimitInv, NEW w \in Workers, OpenTest(w) PROVE LimitInv'
<1>1. CASE Goto(w, "begin", [config |-> job.config]) /\ job' = [job EXCEPT !.status = "running"]
  <2> DEFINE loc == [config |-> job.config]
  <2>1. loc.config \in Configs BY DEF LimitInv
  <2> HIDE DEF loc
  <2>2. Goto(w, "begin", loc) BY <1>1 DEF loc
  <2> QED BY <1>1, <2>1, <2>2, StatusWritten, GotoKeeps
<1>2. CASE Goto(w, "ack", <<>>) /\ UNCHANGED job
  BY <1>2, JobKeptWhole, LeaveKeeps
<1> QED BY <1>1, <1>2 DEF OpenTest, Open

\* the first level is the configured one, and nothing has passed yet
LEMMA PrepareLimit ==
    ASSUME LimitInv, NEW w \in Workers, Prepare(w)
    PROVE  LimitInv'
<1> DEFINE cf == Loc(w).config
           first == [mode |-> cf.mode, step |-> Or(cf.step, Default.step), max |-> Or(cf.max, Default.max),
                     at |-> Or(cf.initial, Default.initial), best |-> 0, steps |-> <<>>]
           dist == [mode |-> cf.mode, step |-> cf.step, max |-> cf.max, at |-> 1, best |-> 0,
                    steps |-> <<>>]
<1>1. cf \in Configs
  BY DEF LimitInv, Measures, Prepare, At, Loc
<1>2. /\ Or(cf.step, Default.step) \in Int \ {0} /\ Or(cf.max, Default.max) \in Int
      /\ Or(cf.initial, Default.initial) \in Int
  <2>1. cf.step \in Int /\ cf.max \in Int /\ cf.initial \in Int
    BY <1>1, GivenAssumption DEF Configs
  <2>2. Default.step \in Nat \ {0} /\ Default.max \in Nat \ {0} /\ Default.initial \in Nat \ {0}
    BY DefaultAssumption
  <2> HIDE DEF cf
  <2> QED BY <2>1, <2>2 DEF Or
<1>3. \/ cf.mode = "qps_limit" /\ Goto(w, "level", first)
      \/ cf.mode = "latency_dist" /\ Goto(w, "level", dist)
  BY DEF Prepare
<1> HIDE DEF cf
<1>4. UNCHANGED job BY DEF Prepare
<1>5. CASE cf.mode = "qps_limit" /\ Goto(w, "level", first)
  <2>1. <<>> \in Seq(Step) /\ Len(<<>>) = 0
    BY EmptySeq
  <2>2. Ramp(first)
    BY <1>2, <1>5, <2>1 DEF Ramp
  <2> HIDE DEF first
  <2> QED BY <1>4, <1>5, <2>2, JobKeptWhole, GotoKeeps
<1>6. CASE cf.mode = "latency_dist" /\ Goto(w, "level", dist)
  <2>1. dist.mode # "qps_limit"
    BY <1>6
  <2> HIDE DEF dist
  <2> QED BY <1>4, <1>6, <2>1, JobKeptWhole, GotoKeeps
<1> QED BY <1>3, <1>5, <1>6

\* a level is started with the values it ended with
LEMMA StartLimit == ASSUME LimitInv, NEW w \in Workers, StartLevel(w) PROVE LimitInv'
<1>1. frame[w].loc.mode = "qps_limit" => Ramp(frame[w].loc)
  BY DEF StartLevel, At, LimitInv, Measures
<1>2. Goto(w, "measure", frame[w].loc) /\ UNCHANGED job
  BY DEF StartLevel, Loc
<1> QED BY <1>1, <1>2, JobKeptWhole, GotoKeeps

\* a level is measured
LEMMA MeasureLimitLimit == ASSUME LimitInv, NEW w \in Workers, MeasureLimit(w) PROVE LimitInv'
<1> DEFINE l == Loc(w)
<1>1. Ramp(l)
  BY DEF MeasureLimit, At, Loc, LimitInv, Measures
<1>2. UNCHANGED job BY DEF MeasureLimit
<1>3. PICK v \in VerdictsAt(l.at) :
        LET steps == Append(l.steps, Entry(l.at, v))
        IN Goto(w, IF v = "pass" THEN "level" ELSE "save",
               IF v = "pass" THEN [l EXCEPT !.steps = steps, !.best = l.at, !.at = l.at + l.step]
               ELSE [best |-> l.best, steps |-> steps, stopped |-> {l.at}, reason |-> Reason(v)])
  BY DEF MeasureLimit
<1> HIDE DEF l
<1>4. CASE v = "pass"
  <2> DEFINE m == [l EXCEPT !.steps = Append(l.steps, Entry(l.at, "pass")), !.best = l.at,
                            !.at = l.at + l.step]
  <2>1. Goto(w, "level", m) BY <1>3, <1>4
  <2>2. Ramp(m) BY <1>1, RampGoesOn
  <2> HIDE DEF m
  <2> QED BY <1>2, <2>1, <2>2, JobKeptWhole, GotoKeeps
<1>5. CASE v # "pass"
  <2> DEFINE r == [best |-> l.best, steps |-> Append(l.steps, Entry(l.at, v)), stopped |-> {l.at},
                   reason |-> Reason(v)]
  <2>1. Goto(w, "save", r) BY <1>3, <1>5
  <2>2. Sustained(r) BY <1>1, <1>5, FailIsSustained
  <2> HIDE DEF r
  <2> QED BY <1>2, <2>1, <2>2, JobKeptWhole, GotoKeeps
<1> QED BY <1>4, <1>5

LEMMA MeasureLevelLimit == ASSUME LimitInv, NEW w \in Workers, MeasureLevel(w) PROVE LimitInv'
<1> DEFINE loc(v) == [Loc(w) EXCEPT !.at = @ + 1, !.steps = Append(@, Entry(Levels[Loc(w).at], v))]
<1>1. PICK v \in VerdictsAt(Levels[Loc(w).at]) : Goto(w, "level", loc(v))
  BY DEF MeasureLevel
<1>2. UNCHANGED job BY DEF MeasureLevel
<1>3. loc(v).mode # "qps_limit"
  BY DEF MeasureLevel
<1> HIDE DEF loc
<1> QED BY <1>1, <1>2, <1>3, JobKeptWhole, GotoKeeps

\* past the maximum
LEMMA EndLimit == ASSUME LimitInv, NEW w \in Workers, EndRamp(w) PROVE LimitInv'
<1> DEFINE l == Loc(w)
           r(reason) == [best |-> l.best, steps |-> l.steps, stopped |-> {}, reason |-> reason]
<1>1. /\ l.mode = "qps_limit" => Goto(w, "save", r("max_concurrency_reached"))
      /\ l.mode # "qps_limit" => Goto(w, "save", r("levels"))
      /\ UNCHANGED job
  BY DEF EndRamp
<1>2. l.mode = "qps_limit" => Ramp(l)
  BY DEF EndRamp, At, Loc, LimitInv, Measures
<1>3. r("levels").reason \notin LimitReasons
  BY DEF LimitReasons
<1> HIDE DEF l
<1>4. l.mode = "qps_limit" => Sustained(r("max_concurrency_reached"))
  BY <1>2, MaxIsSustained
<1>5. Sustained(r("levels"))
  BY <1>3 DEF Sustained
<1> HIDE DEF r
<1> QED BY <1>1, <1>4, <1>5, JobKeptWhole, GotoKeeps

\* the result is the one the execution holds
LEMMA SaveLimit == ASSUME LimitInv, NEW w \in Workers, SaveResult(w) PROVE LimitInv'
<1> DEFINE r == Loc(w)
<1>1. Sustained(r)
  BY DEF SaveResult, At, Loc, LimitInv, Measures
<1>2. job' = [job EXCEPT !.result = r, !.status = "completed"] /\ Goto(w, "ack", <<>>)
  BY DEF SaveResult
<1> HIDE DEF r
<1>3. DOMAIN job' = DOMAIN job /\ job'.config = job.config /\ job'.result = r
  BY <1>2 DEF LimitInv
<1>4. Sustained(job'.result)
  BY <1>1, <1>3
<1> QED BY <1>2, <1>3, <1>4, LeaveKeeps DEF LimitInv

LEMMA FailLimit ==
    ASSUME LimitInv, NEW w \in Workers, Fails(w) \/ MarkFailed(w) \/ MarkFailedLost(w)
    PROVE  LimitInv'
<1>1. DOMAIN job' = DOMAIN job /\ job'.config \in Configs /\ Sustained(job'.result)
  <2>1. UNCHANGED job \/ job' = [job EXCEPT !.status = "failed"]
    BY DEF Fails, NegativeLevel, Raise, DbError, MarkFailed, MarkFailedLost
  <2> QED BY <2>1, JobKeptWhole, StatusWritten
<1>2. \E pc \in {"except", "except_fresh", "ack"} : Goto(w, pc, <<>>)
  BY DEF Fails, NegativeLevel, Raise, DbError, MarkFailed, MarkFailedLost
<1> QED BY <1>1, <1>2, LeaveKeeps

\* the handlers run no level and write no result
LEMMA HandlersLimit == ASSUME LimitInv, NEW c \in Clients, Handlers(c) PROVE LimitInv'
<1>1. UNCHANGED frame
  BY DEF Handlers, CreateLoadTest, RequestRun, RequestDelete, RequestUpdate, Receive, UpdateLoadTest,
         DeleteLoadTest, StartTask, Dispatch, DispatchFails
<1>2. DOMAIN job' = DOMAIN job /\ job'.config \in Configs /\ Sustained(job'.result)
  <2>1. CASE UpdateLoadTest(c)
    <3>1. PICK t \in BOOLEAN : job' = IF Exists THEN [job EXCEPT !.config.threshold = t] ELSE job
      BY <2>1 DEF UpdateLoadTest
    <3>2. CASE UNCHANGED job BY <3>2, JobKeptWhole
    <3>3. CASE job' = [job EXCEPT !.config.threshold = t]
      <4> DEFINE cf == [job.config EXCEPT !.threshold = t]
      <4>1. cf \in Configs BY DEF LimitInv, Configs
      <4>2. DOMAIN job' = DOMAIN job /\ job'.config = cf /\ job'.result = job.result
        BY <3>3 DEF LimitInv
      <4> HIDE DEF cf
      <4> QED BY <4>1, <4>2 DEF LimitInv
    <3> QED BY <3>1, <3>2, <3>3
  <2>2. CASE UNCHANGED job \/ \E s : job' = [job EXCEPT !.status = s]
    BY <2>2, JobKeptWhole, StatusWritten
  <2>3. CASE ~UpdateLoadTest(c)
    <3>1. UNCHANGED job \/ \E s : job' = [job EXCEPT !.status = s]
      BY <2>3 DEF Handlers, CreateLoadTest, RequestRun, RequestDelete, RequestUpdate, Receive,
                  DeleteLoadTest, StartTask, Dispatch, DispatchFails
    <3> QED BY <2>2, <3>1
  <2> QED BY <2>1, <2>3
<1> QED BY <1>1, <1>2 DEF LimitInv

\* The reported limit was sustained, for any integers a client gives, any number
\* of executions and faults: every execution carries the ramp it has measured in
\* its own values and writes it as one result (load_test_tasks.py:191).
THEOREM LimitWasSustainedThm == Spec => []LimitWasSustained
<1>1. Init => LimitInv
  <2> SUFFICES ASSUME Init PROVE LimitInv
    OBVIOUS
  <2>1. /\ DOMAIN job = {"status", "config", "result"} /\ job.config \in Configs
        /\ job.result = NoResult
    BY DEF Init
  <2>2. Sustained(job.result)
    BY <2>1 DEF Sustained, NoResult, LimitReasons
  <2>3. \A w \in Workers : frame[w] = IdleFrame
    BY DEF Init, QueueInit
  <2> QED BY <2>1, <2>2, <2>3 DEF Init, QueueInit, LimitInv, Measures, IdleFrame
<1>2. LimitInv /\ [Next]_vars => LimitInv'
  <2> SUFFICES ASSUME LimitInv, [Next]_vars PROVE LimitInv'
    OBVIOUS
  <2>1. CASE UNCHANGED vars
    <3>1. job' = job /\ frame' = frame BY <2>1 DEF vars, taskVars
    <3> QED BY <3>1 DEF LimitInv
  <2>2. ASSUME NEW c \in Clients, Handlers(c) PROVE LimitInv'
    BY <2>2, HandlersLimit
  <2>3. ASSUME NEW w \in Workers, Work(w) PROVE LimitInv'
    BY <2>3, DeliveryLimit, OpenLimit, PrepareLimit, StartLimit, MeasureLimitLimit,
       MeasureLevelLimit, EndLimit, SaveLimit, FailLimit DEF Work
  <2> QED BY <2>1, <2>2, <2>3 DEF Next
<1>3. LimitInv => LimitWasSustained
  BY DEF LimitInv, LimitWasSustained, Sustained
<1> QED BY <1>1, <1>2, <1>3, PTL DEF Spec
=============================================================================
