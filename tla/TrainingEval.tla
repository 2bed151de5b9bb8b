---------------------------- MODULE TrainingEval ----------------------------
(***************************************************************************)
(* A training data evaluation: its handlers and training_data_eval_task.   *)
(* All samples are scored first and everything is stored in one last       *)
(* commit, which _commit_safely repeats once if the connection has died.   *)
(*                                                                         *)
(* A rollback of the SQLAlchemy session expunges the rows that were added  *)
(* and expires the columns of the rows that were read: what follows it has *)
(* nothing left to write, and reading an expired column of an async        *)
(* session raises.  An UPDATE carries the columns whose value differs from *)
(* the one the session holds, and all that are set while they are expired. *)
(***************************************************************************)
EXTENDS TaskQueue

CONSTANTS
    NSamples,     \* records of the dataset
    ChunkSize     \* samples per progress report

Sample == 1..NSamples

VARIABLES
    made,         \* rows of training_data_eval_results
    configs,      \* the chosen metrics are in training_data_metric_configs
    nextExec,
    overtaken     \* history: the last store found counters it had not read

evalVars == <<made, configs, nextExec, overtaken>>

\* passed, failed: the counters of the row; summary: those of compute_summary
Columns == {"passed", "failed", "summary"}
Init ==
    /\ QueueInit
    /\ job = [status |-> "none", passed |-> 0, failed |-> 0,
              summary |-> [passed |-> 0, failed |-> 0, unscored |-> 0]]
    /\ made = {} /\ configs = FALSE /\ nextExec = 1 /\ overtaken = FALSE

-----------------------------------------------------------------------------
\* create_training_data_eval commits the evaluation, then its metric configs
CreateEval(c) ==
    /\ job.status = "none" /\ call[c] = NoCall
    /\ job' = [job EXCEPT !.status = "pending"]
    /\ call' = [call EXCEPT ![c] = [op |-> "configs", seen |-> "pending"]]
    /\ UNCHANGED <<queue, nextMid, frame, requests, faults, evalVars>>

AddConfigs(c) ==
    /\ call[c].op = "configs"
    /\ \/ configs' = Exists /\ UNCHANGED faults
       \/ Fault("db") /\ UNCHANGED configs
    /\ Finish(c)
    /\ UNCHANGED <<job, queue, nextMid, frame, requests, made, nextExec, overtaken>>

RequestRun(c) == job.status # "running" /\ Receive(c, "run") /\ UNCHANGED evalVars

\* delete_training_data_eval asks for no status; results and configs go along
DeleteEval(c) ==
    /\ Exists /\ call[c] = NoCall /\ requests < MaxRequests
    /\ requests' = requests + 1
    /\ job' = [job EXCEPT !.status = "gone"]
    /\ made' = {} /\ configs' = FALSE
    /\ UNCHANGED <<queue, nextMid, frame, call, faults, nextExec, overtaken>>

-----------------------------------------------------------------------------
\* the columns the session holds from here on: expire_on_commit is off
OpenEval(w) == Open(w, [c \in Columns |-> job[c]]) /\ UNCHANGED evalVars

\* rows and metrics are read; a missing dataset, sample or model raises
Prepare(w) ==
    /\ At(w, "begin")
    /\ Goto(w, "score", [exec |-> nextExec, at |-> 1, chosen |-> configs,
                         expired |-> FALSE, held |-> TRUE, seen |-> Loc(w)])
    /\ nextExec' = nextExec + 1
    /\ UNCHANGED <<job, queue, nextMid, call, requests, faults, made, configs, overtaken>>

\* evaluate_batch scores a chunk and awaits progress_callback, which commits;
\* its failure is swallowed after a rollback, which expires every column; the
\* next commit loads again only what it sets, total_samples among it
ScoreChunk(w) ==
    /\ At(w, "score") /\ Loc(w).at <= NSamples
    /\ \/ /\ Exists /\ UNCHANGED faults
          /\ Goto(w, "score", [Loc(w) EXCEPT !.at = @ + ChunkSize, !.expired = FALSE])
       \/ /\ \/ Fault("db")
             \/ ~Exists /\ UNCHANGED faults
          /\ Goto(w, "score", [Loc(w) EXCEPT !.at = @ + ChunkSize, !.expired = TRUE, !.held = FALSE])
    /\ UNCHANGED <<job, queue, nextMid, call, requests, evalVars>>

Verdicts == {"passed", "failed", "unscored"}

\* overall_score is None for an unscored sample: the task counts it as 0 and
\* failed, compute_summary leaves it out
Row(exec, v) == {[exec |-> exec, sample |-> s, chosen |-> FALSE,
                  status |-> IF v[s] = "passed" THEN "passed" ELSE "failed"] : s \in Sample}
Tally(v, k) == Cardinality({s \in Sample : v[s] = k})

\* the rows and counters a commit of the session would write
Conclude(w) ==
    /\ At(w, "score") /\ Loc(w).at > NSamples /\ ~Loc(w).expired
    /\ \E v \in [Sample -> Verdicts] :
          Goto(w, "commit", [exec |-> Loc(w).exec, held |-> Loc(w).held, seen |-> Loc(w).seen,
             rows |-> {[r EXCEPT !.chosen = Loc(w).chosen] : r \in Row(Loc(w).exec, v)},
             done |-> [passed |-> Tally(v, "passed"),
                       failed |-> NSamples - Tally(v, "passed"),
                       summary |-> [passed |-> Tally(v, "passed"), failed |-> Tally(v, "failed"),
                                    unscored |-> Tally(v, "unscored")]]])
    /\ UNCHANGED <<job, queue, nextMid, call, requests, faults, evalVars>>

\* evaluation.total_samples is expired
ConcludeExpired(w) ==
    /\ At(w, "score") /\ Loc(w).at > NSamples /\ Loc(w).expired
    /\ Goto(w, "except", <<>>)
    /\ UNCHANGED <<job, queue, nextMid, call, requests, faults, evalVars>>

\* the ORM leaves a column alone that is set to the value the session holds,
\* whatever another execution has written into it since
Written(l, c) == IF l.held /\ l.seen[c] = l.done[c] THEN job[c] ELSE l.done[c]

Store(w) ==
    /\ At(w, "commit") /\ Exists
    /\ job' = [status |-> "completed", passed |-> Written(Loc(w), "passed"),
               failed |-> Written(Loc(w), "failed"), summary |-> Written(Loc(w), "summary")]
    /\ made' = made \cup Loc(w).rows
    /\ overtaken' = (Loc(w).held /\ \E c \in Columns : job[c] # Loc(w).seen[c])
    /\ Goto(w, "ack", <<>>)
    /\ UNCHANGED <<queue, nextMid, call, requests, faults, configs, nextExec>>

\* _commit_safely: the first commit fails and is rolled back, so the second has
\* nothing to write; the return value then reads an expired column
StoreFails(w) ==
    /\ At(w, "commit") /\ Fault("db")
    /\ Goto(w, "commit_again", Loc(w))
    /\ UNCHANGED <<job, queue, nextMid, call, requests, evalVars>>

\* mutant: the retry writes the columns set again but not the rows
StoreAgainWithoutRows(w) ==
    /\ At(w, "commit_again") /\ Exists
    /\ job' = [c \in DOMAIN job |-> IF c = "status" THEN "completed" ELSE Loc(w).done[c]]
    /\ Goto(w, "ack", <<>>)
    /\ UNCHANGED <<queue, nextMid, call, requests, faults, evalVars>>

StoreAgain(w) ==
    /\ At(w, "commit_again")
    /\ Goto(w, "except", [replayed |-> Loc(w).exec])
    /\ UNCHANGED <<job, queue, nextMid, call, requests, faults, evalVars>>

Fails(w) ==
    /\ \/ Raise(w, {"begin"})
       \/ DbError(w, {"begin", "commit_again"})
       \/ ~Exists /\ Raise(w, {"commit"})
    /\ UNCHANGED evalVars

Handlers(c) ==
    \/ CreateEval(c) \/ AddConfigs(c) \/ RequestRun(c) \/ DeleteEval(c)
    \/ (StartTask(c) \/ Dispatch(c) \/ DispatchFails(c)) /\ UNCHANGED evalVars

Work(w) ==
    \/ (Delivery(w) \/ MarkFailed(w) \/ MarkFailedLost(w)) /\ UNCHANGED evalVars
    \/ OpenEval(w) \/ Prepare(w) \/ ScoreChunk(w) \/ Conclude(w) \/ ConcludeExpired(w)
    \/ Store(w) \/ StoreFails(w) \/ StoreAgain(w) \/ Fails(w)

Next == (\E c \in Clients : Handlers(c)) \/ (\E w \in Workers : Work(w))
vars == <<taskVars, evalVars>>
Spec == Init /\ [][Next]_vars

-----------------------------------------------------------------------------
RowsOf(e) == {r \in made : r.exec = e}

\* The counters of a completed evaluation and its summary are those of the rows
\* one execution stored with them, through reruns, redeliveries and lost
\* connections: rows and counters are one commit (training_data_eval_tasks.py:306).
\* Of executions that overlap only the one that found the counters it had read
\* is promised that: another leaves columns as its rival wrote them.
CountersMatchRows ==
    job.status = "completed" /\ ~overtaken =>
        \E e \in {r.exec : r \in made} :
            /\ {r.sample : r \in RowsOf(e)} = Sample
            /\ job.passed = Cardinality({r \in RowsOf(e) : r.status = "passed"})
            /\ job.passed + job.failed = NSamples
            /\ job.summary.passed = job.passed

-----------------------------------------------------------------------------
\* promised and not kept (README, section 6): each fails as the only invariant of Jobs.cfg

\* What _commit_safely says of itself (training_data_eval_tasks.py:34-36): the
\* second commit replays what the first one held, so scores that were computed
\* are not lost with the connection.
ReplayedIsStored ==
    \A w \in Workers :
        At(w, "except") /\ Loc(w) # <<>> /\ Exists => RowsOf(Loc(w).replayed) # {}
=============================================================================
