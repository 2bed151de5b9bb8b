------------------------------ MODULE LoadTest ------------------------------
(***************************************************************************)
(* A load test: its handlers, load_test_task and the two ways to run it.   *)
(* The QPS limit test raises the concurrency level by level until a level  *)
(* misses the threshold; the latency distribution test measures a given    *)
(* list of levels.                                                         *)
(*                                                                         *)
(* A request may give any integer for a level or a step, zero and negative *)
(* ones too (LoadConfig).                                                  *)
(***************************************************************************)
EXTENDS TaskQueue, LoadConfig

\* what a client may configure; data is where the questions come from
Configs == [mode : {"qps_limit", "latency_dist", "unknown"}, data : {"questions", "dataset"},
            threshold : BOOLEAN, initial : Given, step : Given, max : Given]

\* the level that ended the test is a set: None is {}
NoResult == [best |-> 0, steps |-> <<>>, stopped |-> {}, reason |-> "none"]

\* n or d
Or(n, d) == IF n = 0 THEN d ELSE n

Init ==
    /\ QueueInit
    /\ \E c \in Configs : job = [status |-> "none", config |-> c, result |-> NoResult]

-----------------------------------------------------------------------------
\* create_load_test
CreateLoadTest(c) ==
    /\ job.status = "none" /\ call[c] = NoCall
    /\ job' = [job EXCEPT !.status = "pending"]
    /\ UNCHANGED <<queue, nextMid, frame, call, requests, faults>>

NotRunning == job.status # "running"

\* mutant of RequestRun
RequestRunAlways(c) == Receive(c, "run")

RequestRun(c) == NotRunning /\ Receive(c, "run")
RequestDelete(c) == NotRunning /\ Receive(c, "delete")
RequestUpdate(c) == NotRunning /\ Receive(c, "update")

\* update_load_test commits whatever columns the request names
UpdateLoadTest(c) ==
    /\ call[c].op = "update"
    /\ \E t \in BOOLEAN :
          job' = IF Exists THEN [job EXCEPT !.config.threshold = t] ELSE job
    /\ Finish(c)
    /\ UNCHANGED <<queue, nextMid, frame, requests, faults>>

DeleteLoadTest(c) ==
    /\ call[c].op = "delete"
    /\ job' = [job EXCEPT !.status = "gone"]
    /\ Finish(c)
    /\ UNCHANGED <<queue, nextMid, frame, requests, faults>>

-----------------------------------------------------------------------------
\* the session keeps the configuration it loaded first
OpenTest(w) == Open(w, [config |-> job.config])

\* the target, then the questions: the scalars of the dataset query are
\* strings without a field question, so the dataset path raises
Prepare(w) ==
    /\ At(w, "begin")
    /\ LET cf == Loc(w).config IN
       /\ cf.data = "questions"
       /\ \/ /\ cf.mode = "qps_limit" /\ cf.threshold
             /\ Goto(w, "level", [mode |-> cf.mode, step |-> Or(cf.step, Default.step),
                                  max |-> Or(cf.max, Default.max),
                                  at |-> Or(cf.initial, Default.initial),
                                  best |-> 0, steps |-> <<>>])
          \/ /\ cf.mode = "latency_dist"
             /\ Goto(w, "level", [mode |-> cf.mode, step |-> cf.step, max |-> cf.max,
                                  at |-> 1, best |-> 0, steps |-> <<>>])
    /\ UNCHANGED <<job, queue, nextMid, call, requests, faults>>

\* the progress of the level is committed, then its requests are sent
StartLevel(w) ==
    /\ At(w, "level") /\ Exists
    /\ IF Loc(w).mode = "qps_limit" THEN Loc(w).at <= Loc(w).max ELSE Loc(w).at <= Len(Levels)
    /\ Goto(w, "measure", Loc(w))
    /\ UNCHANGED <<job, queue, nextMid, call, requests, faults>>

\* _execute_single_test: "pass" if every request succeeded in time, "slow" if
\* lateness is the only reason of those that did not; a level of 0 sends no
\* request and has no latency, so that it misses the threshold with "nothing"
Verdicts == {"pass", "slow", "failed", "nothing"}
VerdictsAt(level) == IF level = 0 THEN {"nothing"} ELSE Verdicts \ {"nothing"}

\* a semaphore with a negative value raises
LevelOf(l) == IF l.mode = "qps_limit" THEN l.at ELSE Levels[l.at]
NegativeLevel(w) == At(w, "measure") /\ LevelOf(Loc(w)) < 0 /\ Raise(w, {"measure"})

\* why a level that is not passed ends the test
Reason(v) == CASE v = "slow" -> "latency_exceeded"
               [] v = "failed" -> "request_failed"
               [] OTHER -> "unknown"

Entry(level, v) == [level |-> level, verdict |-> v]

\* mutant of MeasureLimit
MeasureLimitLate(w) ==
    /\ At(w, "measure") /\ Loc(w).mode = "qps_limit" /\ Loc(w).at >= 0
    /\ \E v \in VerdictsAt(Loc(w).at) :
          Goto(w, IF v = "pass" THEN "level" ELSE "save",
               IF v = "pass" THEN [Loc(w) EXCEPT !.steps = Append(@, Entry(Loc(w).at, v)),
                                                 !.at = @ + Loc(w).step, !.best = Loc(w).at + Loc(w).step]
               ELSE [best |-> Loc(w).best, steps |-> Append(Loc(w).steps, Entry(Loc(w).at, v)),
                     stopped |-> {Loc(w).at}, reason |-> Reason(v)])
    /\ UNCHANGED <<job, queue, nextMid, call, requests, faults>>

\* _execute_qps_limit_test: a level that passes raises the concurrency, the
\* first that does not ends the test
MeasureLimit(w) ==
    /\ At(w, "measure") /\ Loc(w).mode = "qps_limit" /\ Loc(w).at >= 0
    /\ \E v \in VerdictsAt(Loc(w).at) :
       LET l == Loc(w)
           steps == Append(l.steps, Entry(l.at, v))
       IN Goto(w, IF v = "pass" THEN "level" ELSE "save",
               IF v = "pass" THEN [l EXCEPT !.steps = steps, !.best = l.at, !.at = l.at + l.step]
               ELSE [best |-> l.best, steps |-> steps, stopped |-> {l.at}, reason |-> Reason(v)])
    /\ UNCHANGED <<job, queue, nextMid, call, requests, faults>>

\* _execute_latency_dist_test
MeasureLevel(w) ==
    /\ At(w, "measure") /\ Loc(w).mode = "latency_dist" /\ Levels[Loc(w).at] >= 0
    /\ \E v \in VerdictsAt(Levels[Loc(w).at]) :
          Goto(w, "level", [Loc(w) EXCEPT !.at = @ + 1,
                                          !.steps = Append(@, Entry(Levels[Loc(w).at], v))])
    /\ UNCHANGED <<job, queue, nextMid, call, requests, faults>>

EndRamp(w) ==
    /\ At(w, "level")
    /\ LET l == Loc(w) IN
       /\ IF l.mode = "qps_limit" THEN l.at > l.max ELSE l.at > Len(Levels)
       /\ Goto(w, "save", [best |-> l.best, steps |-> l.steps, stopped |-> {},
             reason |-> IF l.mode = "qps_limit" THEN "max_concurrency_reached" ELSE "levels"])
    /\ UNCHANGED <<job, queue, nextMid, call, requests, faults>>

\* result, completed and progress 100 in one commit
SaveResult(w) ==
    /\ At(w, "save") /\ Exists
    /\ job' = [job EXCEPT !.result = Loc(w), !.status = "completed"]
    /\ Goto(w, "ack", <<>>)
    /\ UNCHANGED <<queue, nextMid, call, requests, faults>>

Committing == {"level", "save"}
Fails(w) == \/ Raise(w, {"begin"})
            \/ DbError(w, {"begin"} \cup Committing)
            \/ ~Exists /\ Raise(w, Committing)
            \/ NegativeLevel(w)

Handlers(c) ==
    \/ CreateLoadTest(c) \/ RequestRun(c) \/ RequestDelete(c) \/ RequestUpdate(c)
    \/ UpdateLoadTest(c) \/ DeleteLoadTest(c)
    \/ StartTask(c) \/ Dispatch(c) \/ DispatchFails(c)

Work(w) ==
    \/ Delivery(w) \/ OpenTest(w) \/ Prepare(w) \/ StartLevel(w)
    \/ MeasureLimit(w) \/ MeasureLevel(w) \/ EndRamp(w) \/ SaveResult(w)
    \/ Fails(w) \/ MarkFailed(w) \/ MarkFailedLost(w)

Next == (\E c \in Clients : Handlers(c)) \/ (\E w \in Workers : Work(w))
vars == taskVars
Spec == Init /\ [][Next]_vars

-----------------------------------------------------------------------------
LimitReasons == {"latency_exceeded", "request_failed", "unknown", "max_concurrency_reached"}
Passed(steps) == {i \in DOMAIN steps : steps[i].verdict = "pass"}

\* The limit that is reported was sustained: the levels are those of one
\* execution, measured in one direction and none of them twice, all but a last
\* one passed, the best is the last that passed, and the test says where it
\* stopped exactly when a level missed, with "unknown" for a ramp that fell to
\* no request at all (load_test_tasks.py:191).
LimitWasSustained ==
    job.result.reason \in LimitReasons =>
      LET r == job.result
          steps == r.steps
          passed == Passed(steps)
          inner == {i \in DOMAIN steps : i < Len(steps)}
      IN /\ \A i \in inner : steps[i].verdict = "pass"
         /\ \/ \A i \in inner : steps[i].level < steps[i + 1].level
            \/ \A i \in inner : steps[i].level > steps[i + 1].level
         /\ r.best = IF passed = {} THEN 0 ELSE steps[Cardinality(passed)].level
         /\ r.stopped = {} <=> passed = DOMAIN steps
         /\ r.stopped = {0} <=> r.reason = "unknown"

\* What load_test_tasks.py:171 says ("raises the concurrency to find the
\* limit"): no level that passed is above the best.  A negative step refutes it.
LimitIsHighest ==
    job.result.reason \in LimitReasons =>
      \A i \in Passed(job.result.steps) : job.result.steps[i].level <= job.result.best

\* While no message is delivered again and no two requests overlap, the target
\* is loaded by one execution at a time, whatever fails: start_task commits
\* running before it dispatches and a running test is not started
\* (api/v1/_common.py:102).  A second delivery has no guard and loads it twice.
OneLoadAtATime ==
    faults.crash = Budget.crash =>
        Cardinality({w \in Workers : frame[w].pc \in {"level", "measure"}}) <= 1
=============================================================================
