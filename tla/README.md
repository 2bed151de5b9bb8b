# A TLA+ project for jq-eval

jq-eval evaluates RAG systems: it calls a RAG system on the questions of a
dataset, scores the answers with metrics, and shows what failed and why. The
server is FastAPI, the long work runs in Celery workers behind Redis, and all
state is in PostgreSQL. This directory specifies the parts of it that are hard
to get right: the life cycles that a request handler, a broker and one or more
worker processes drive together, through many short transactions, while
connections break and messages are delivered twice.

Source paths below are relative to `src/backend/app/`.

## 1. Inventory

### Components

| Component | State | Operations | Talks to |
| --- | --- | --- | --- |
| Invocation batches (`api/v1/invocations.py`, `tasks/invocation_tasks.py`) | one row per batch (status, cancel flag, started_at, two counters), one row per answered question | create, run, cancel, force cancel, retry, retry one, delete; the tasks `invocation_task` and `retry_invocation_task` | RAG adapters, the broker, evaluations that read its rows |
| Evaluations (`api/v1/evaluations.py`, `tasks/evaluation_tasks.py`) | one row per evaluation (status, cancel flag, summary), one row per scored sample | create, run, cancel, force cancel, retry, delete, analyse; `evaluation_task` | metric engine, the results of a completed batch |
| Retry and dispatch helpers (`tasks/persistence.py`, `api/v1/_common.py`, `tasks/_common.py`) | none | `commit_with_retry`, `start_task`, `batch_in_flight`, `commit_delete`, `mark_task_failed` | every handler and task |
| Celery application (`core/celery_app.py`) | the message queue, unacknowledged messages | deliver, acknowledge, redeliver, kill at the time limit | all tasks |
| Document parsing, load tests, training data evaluation, profiles, API ingestion, synchronisation, question generation, hot news | a job row with a status, and the rows the job produces | start, change, delete; one Celery task each (the crawl and two profiles also inside a request) | the broker, remote services, datasets |
| API ingestion connectors (`services/api_ingest`) | a session with a remote knowledge base | choose or create it, upload, wait, read chunks, ask | seventeen kinds of remote system |
| RAG adapters (`services/adapters`) and retrieval metrics | one question under way | a plain reply, a polled one, a stream | the tested system |
| LLM proxy (`api/v1/proxy.py`, `services/llm`) | one call under way and its log row | convert the request, relay the reply or the stream, log | the model that is mapped |
| Vibe agent (`api/v1/vibe_agent.py`, `services/vibe_agent`) | conversations in memory; rows of sessions, workflows, versions, executions | talk, generate, save, execute, tune, test; a websocket | an LLM, the sandbox |
| Diagnostics (`services/diagnostics`) | the trace stored with an answer | compact, attribute, find the root cause | evaluations |
| The schema (`models`) | what refers to what | every insertion and deletion | all of the above |
| Tables filled at start (metrics, tags, news sources) | built-in rows beside those of users | start, deploy, create, rate, bind, delete | the crawler, the metric market |
| Sampling scope, context budget, graph construction, stores, web interface | none that matters here | - | - |

`PROJECT.json` lists every component with its files and whether it is modelled.

### How they interact

A handler reads a row, checks it, changes it and commits; then it may put a
message into the broker. A worker takes the message, opens a session, reads the
same row again and works through its items, each in a transaction of its own
made by `commit_with_retry`. The cancel request is a flag the worker reads at
item boundaries. Nothing is locked: there is no `SELECT ... FOR UPDATE` and no
version column, and PostgreSQL runs at READ COMMITTED, so whatever was read may
be stale when it is used. The message is acknowledged after the task returns
(`task_acks_late`), so a worker that dies leaves its message to be delivered
again, and a commit whose answer is lost is repeated.

### What is hard here, and what correct means

* *Redelivery and crashes.* A batch must be finished by the redelivered message
  without a second row for a question (`OneRowPerQuestion`,
  `OneScorePerSample`), and must not be left in `running` (`QuietIsSettled`,
  `RunSettles`).
* *Stale reads.* `_reconcile_terminal_state` and `_finalize` count rows and
  commit later. What they commit must be true of the rows at that time
  (`CompletedIsCovered`, `CompletedIsScored`, `SettledCounts`,
  `SummaryIsOfResults`).
* *Interleaved delete-and-insert transactions* must not lose a question's only
  result (`ResultsNeverVanish`, `ScoresSurvive`).
* *Cancellation* races the work it stops (`CancelledStays`).
* *Readers*: `create_evaluation` accepts a completed batch and reads its rows
  later: a completed batch loses none of them and gains only the placeholders of
  a retry that read it before it completed (`CompletedIsFrozen`); the interface
  shows `running` without `started_at` as queued (`QueuedState`).
* *Tasks without a guard.* Most other tasks start from the beginning when their
  message is delivered again. What they store must not be stored twice
  (`OneDocumentPerFile`, `OneDatasetPerIngest`, `OneDocumentPerRemote`,
  `ImportIsIdempotent`, `ArticleOnce`), not be lost (`SuccessStays`,
  `NothingSkipped`), and agree with what the job row says of it
  (`CountersMatchRows`, `CompletedIsReady`, `Recounts`, `LimitWasSustained`,
  `OneLoadAtATime`).
* *Remote systems* answer late, in pages, in frames and in their own protocol
  (`TimeoutIsReal`, `ChunksAreOwn`, `StreamIsWhole`, `RequestIsKept`,
  `StreamIsWellFormed`, `LogIsTrue`), and what is computed from their answers
  must be consistent (`MetricsAgree`, `DiagnosisIsSound`).
* *References.* Half of the foreign keys have a relationship in SQLAlchemy and
  half do not, so that a deletion cascades, is refused or fails
  (`ResultsSurvive`).
* *Long-lived tables and processes* meet many starts, deployments and sessions
  (`OfferedIsRegistry`, `ExecutionSettles`).

`PROJECT.json` lists the hazards one by one, each at its line.

## 2. Modules

| Module | What it is |
| --- | --- |
| `BatchContract` | what a batch promises to its readers: questions get covered, never uncovered while the batch exists, and `completed` is recorded only when all are |
| `InvocationBatch` | one invocation batch with its handlers, the broker and the workers |
| `Evaluation` | one evaluation with its handlers, the broker and the workers |
| `MCInvocationBatch`, `MCEvaluation` | fault budgets and symmetry for TLC |
| `InvocationBatch_proofs` | types of `InvocationBatch`, the inductive invariant of its results, the refinement, and what the contract guarantees |
| `InvocationRuns_proofs` | the executions of a batch: one row per question, settled, queued, frozen, counted |
| `Evaluation_proofs` | types and rows of `Evaluation`, that it implements `BatchContract` too, cancellation and the summary |
| `DocParse_proofs`, `LoadTest_proofs`, `ApiIngest_proofs` | what redelivery and failure leave intact in three of the jobs |
| `Jobs_proofs`, `Services_proofs` | the properties of the runs `jobs` and `services` |
| `TaskQueue` | a job row, its handlers, the broker and the executions of its task: what the eight job modules extend |
| `DocParse`, `LoadTest`, `TrainingEval`, `DatasetProfile`, `ApiIngest`, `DataSync`, `DatasetBuild`, `HotNews` | one kind of background job each |
| `LoadConfig` | the integers of a load test and what is assumed of them |
| `Jobs` | the eight jobs under one broker, one kind per behaviour, and their properties |
| `Connectors`, `RagQuery` | a session of a connector with its knowledge base; a question through an adapter and its retrieval metrics |
| `ModelProxy` | a call of a mapped model |
| `VibeAgent` | a conversation, its workflow and its executions |
| `Diagnosis` | from the trace of an answer to the root cause |
| `Catalog` | rows under the references of the schema |
| `Registry` | the tables that are filled at every start |
| `Services` | these seven, one kind per behaviour, and their properties |
| `MCJobs`, `MCServices` | the instances of both that TLC checks |

### InvocationBatch

The state is the batch row, its result rows, the queue, one request handler per
client and one task execution per worker.

A handler is a read (`Request`, with the guard of the handler) and a commit
(`StartTask`, `CancelBatch`, `ForceCancelBatch`, `DeleteBatch`), then, where the
code dispatches, `Dispatch` or `DispatchFails`. A retry of a batch reads the
failed rows (`FindFailed`), then which questions have a row and which lack one
(`FindMissing`), then commits a failed placeholder for each that lacks one
(`FillMissing`); a retry of chosen results (`RetryOne`) takes any set of ids.
Other handlers and workers run between these steps.

A task moves through `open` (the first read and the guard against redelivery),
`begin` (running is committed), `check` (the cancel flag at the boundary of two
questions), `query` (the adapter: an answer, a reported failure, or an
exception, which leads to the fallback row), `write` and `commit` (what the
DELETE of `_write` sees, then the commit of the delete, the insert and the
counters), `cancelled` and `cancel_commit` (`CancelRead` reads the batch again,
`FinishCancelled` commits), `settle` and `settle_commit` (`_reconcile_terminal_state`), and `ack`.
`UpdateLost` is the UPDATE that finds its row deleted. `SessionError`, `WriteError` and `SettleError` are database errors at the
places where the code catches them; a commit that reports an error may have been
applied. `Crash` loses the worker before the acknowledgement and puts the
message back, `Kill` is the hard time limit, which acknowledges it.

`Assign(loaded, new, now)` is what an ORM commit does to a column: SQLAlchemy
writes a column only when its new value differs from the value it loaded. So a
stale session overwrites what others changed exactly when it meant to change it
itself.

### Evaluation

It has the same handlers and the same broker. The task is `open`, `begin`,
`prepare` (the samples of the scope), then for each chunk of samples `check`,
`score`, `persist`, `commit` and `report` (the progress that follows the commit,
and after the last chunk the summary: `Report`, or `ReportRaises`), and at the
end `final` and `final_commit` (`_finalize`). A result row carries the execution
that scored it, which is how the run tells a summary from a summary of other
rows; `error` is the column of the evaluation.

A soft time limit is raised in whatever Python runs. `SoftLimit` is one in the
coroutine, where the except branch settles the evaluation. `SoftLimitEscapes` is
one in the event loop that waits for it: it leaves `run_until_complete`
(`tasks/_common.py:18`), no except branch runs, and the message is acknowledged.

### TaskQueue and the job modules

`TaskQueue` holds what the jobs share: the row `job`, the queue, one `frame` per
worker (where the execution is and its local values) and one `call` per client
(a handler that has read and not yet committed). `Receive`, `StartTask`,
`Dispatch` and `DispatchFails` are `start_task`; `Take`, `Ack`, `Crash` and
`Kill` the delivery; `Open` the head of a task, which stands outside its try;
`Raise`, `DbError`, `MarkFailed` and `MarkFailedLost` the except branch with
`mark_task_failed`. Each job module adds the columns of its row, its other
tables and its own steps, one per transaction of the code:

* `DocParse`: the official service takes all files in one call, a custom one
  takes them one by one and skips what succeeded; results are found by file
  name, and two files may have one name.
* `LoadTest`: the ramp of concurrency levels and the list of levels; a level is
  a verdict. Levels, steps and maxima are any integers, as the API takes them
  (`LoadConfig`): 0 stands for the default, a negative level raises, a level of 0
  sends nothing and ends the test as `unknown`, a negative step descends. One
  client and two workers, so that a redelivery may overlap.
* `TrainingEval`: everything is stored in the last commit, which
  `_commit_safely` repeats on a session that a rollback has emptied. The UPDATE
  has the columns that differ from what its session loaded (`Written`), so that
  the later of two executions may leave columns of the earlier (`overtaken`).
* `DatasetProfile`: imports of two clients that replace the records of a dataset,
  the deletion and the insertion each a transaction of its own, the backfill of
  records from the questions, and one profile, made in a request or in a task,
  with a commit after every stage.
* `ApiIngest`: knowledge base, dataset, uploads, parse, documents, questions and
  the auto-invoked batch, with a commit between the stages and no guard.
* `DataSync`: two source tables, one per target type, and one `last_sync_at`; a
  sync selects either or both. Rows appear while it reads; the next one starts at
  the time the last commit of this one has set.
* `DatasetBuild`: handlers count the rows they can see, the task writes the count
  it has read when it opened its session.
* `HotNews`: the feed is a list that may name an article more than once. A crawl
  asks once which hashes are stored and adds every other entry; it runs from beat
  or inside a request.

### Services

* `Connectors`: each of the seventeen connectors is a row of one table (how an
  upload is identified, how documents are listed, which states mean parsed or
  failed, whether chunks can be read); the session is `create_connector` to the
  last chunk, with the polling of `wait_documents_ready`, pages that shift while
  they are read, and others who use the knowledge base. The FastGPT connector has
  no status to read: it takes a collection for done when the counts say so, while
  it may still be in training and have only some of its chunks.
* `RagQuery`: each of the twenty-one ways to ask is a row (what ends a stream,
  which references are kept and by which name, polling, refusal of a blank
  answer). A reply holds references in two places, `references` and `quotes`, and
  a row says which of them it reads; then MRR, HitRate and Recall@K as fractions.
* `ModelProxy`: a conversation in either protocol is converted to the other and
  the frames of the answer are converted back, one event at a time, until the
  stream ends, fails, or the client leaves; the log row is finished in each case.
  A client that leaves is noticed at an await of the generator (`Disconnect`);
  the closing events are yielded without one (`TellEnd`), so that leaving there
  (`LeaveEnd`) closes a generator that has recorded no error. A chunk with usage
  carries nothing else on, whatever it holds.
* `VibeAgent`: the conversation machine of the engine, with an await at each LLM
  call, so that requests of two browsers interleave; executions open a row in one
  session and close it in another. A script may print a result that names the
  status of its own execution, any word at all (`ScriptStatuses`).
* `Diagnosis`: a trace is a ranking of one gold chunk per channel; it is cut as
  `compact_trace` cuts it, then classified twice, and the samples are put together
  to a root cause.
* `Catalog`: a table stands for its row. Every reference of the schema is a record
  of its relationship in SQLAlchemy and its ON DELETE; `Delete` follows both as
  `session.delete` does, `RawDelete` follows the foreign keys only.
* `Registry`: the three steps of the start, the handlers with their check and
  their write, and a deployment that changes the registries in the code.

### Abstractions

* One batch and one evaluation: batches share nothing but the worker pool.
* The questions of the scope are fixed while the batch exists, and
  `total_count` is their number.
* Row contents are the success of an answer or the execution that scored it.
* Result ids grow in the order of `created_at`, which orders the rows of one
  question in the code.
* A message is not delivered again while its first execution still runs: the
  Celery application cancels long-running tasks on a lost connection and its
  visibility timeout exceeds the time limit. Redelivery is `Crash`.
* In `InvocationBatch` the soft time limit is one of the exceptions `query` may
  raise, and one that escapes from the event loop has the effect of `Kill`; in
  `Evaluation` they are `SoftLimit` and `SoftLimitEscapes`.
* In `WriteOpen` the read of the counters and of the old rows is one step, and
  so is the deletion of the rows and the commit of running in `RetryEvaluation`.
* The foreign key from evaluation results to invocation results is in `Catalog`,
  not in these two modules.
* A frame of a stream carries one thing: a delta with both text and a tool call
  is not modelled, text with a finish reason is two frames. The exception is a
  chunk with usage, which may carry any of them and loses it, as in the code.
* In the job modules a dataset, document or question is an id or a number, a
  remote outcome one of a few, and a fault hits one statement.
* In `Jobs` and `Services` a behaviour is about one kind of job or service:
  they share tables only through `Catalog`, where the references are what matters.
* Texts, HTTP paths, headers, prompts and floating point are left out: a text is
  `<<"t">>` or nothing, a score is a fraction.

## 3. Runs

Every run has small sets of model values and a budget for each kind of fault,
named in the `.cfg`. `MaxRequests` bounds the requests of a behaviour; when they
are used up and all work is done the system rests, which is why the
configurations switch the deadlock check off.

| Run | Bounds | Shows |
| --- | --- | --- |
| `inv_one_worker` | 2 questions, 1 worker, 1 client, all operations, 3 requests, 1 database error | types; the counters of a settled batch match its last rows; a completed batch loses no result and gains only placeholders; the batch implements `BatchContract` |
| `inv_two_workers` | 2 questions, 2 workers, 2 clients, 1 database error, 1 kill, 1 broker error, symmetric | completed is covered and results never vanish under every interleaving of two executions |
| `inv_redelivery` | 2 questions, 2 requests (run, both cancels, delete), 2 crashes, 1 database error, fair | a batch settles, no second row, the queued indication |
| `eval_faults` | 3 samples in chunks of 2, 1 worker, 2 clients, every operation but retry, 3 requests, one fault of each kind, an escaped limit among them | no sample scored twice, completed is scored, scores survive |
| `eval_cancel` | 3 samples, run, rerun, cancel, retry, delete, 4 requests, 1 crash, 1 soft limit, 1 that escapes, an error after any chunk, fair | cancelled stays cancelled, the summary of a completed evaluation without an error is of its rows, the evaluation settles unless a limit escaped |
| `jobs` | eight kinds of job, 1 worker (load tests and training data 2), 2 clients (load tests 1), one fault of each kind; 3 files of which two share a name, initial level, step and maximum of -1, 0 or 2, levels 2, 0, -1, 2 samples scored one by one, 2 uploads, 2 source rows in either table, chunks of 1, 2 articles listed once or twice | what a redelivery or a failure midway stores twice, loses or reports wrongly: nothing of what the twelve properties name |
| `services` | connectors: 2 files in pages of 2, 2 polls, 1 change by others; adapters: 2 chunks, 3 frames, 2 references in either place, K = 2; proxy: 3 messages, 3 pieces, 2 usages; vibe agent: 2 browsers, 7 requests, scripts that print `error` or `running`; diagnosis: 2 channels of up to 3, 2 kept, 2 samples; schema: six groups of tables; start-up tables: 2 clients, 3 requests, 2 deployments | sessions, streams and conversions lose and invent nothing, executions settle, a cut trace is diagnosed soundly, results go only with their owner, the market offers the deployed registry |
| `find_retry_ambiguous_commit`, `find_rerun_in_flight`, `find_retry_redelivered`, `find_eval_rerun_mixes`, `find_ingested_recall` | the smallest instance that shows it | the disagreements of section 6 |

Why the bounds are enough. Two questions distinguish a batch with none, some and
all of its results, a chunk of two of three samples gives a full and a partial
chunk. Three requests reach run, cancel and retry of the same batch. Two
workers and two clients give every overlap of two transactions. The code makes
three attempts at a commit; the runs use `Attempts = 2`, so that fewer database
errors reach the last attempt, and the run of the repeated retry uses three.
In `jobs` each kind of fault may hit once and each kind of job gets two or three
requests: a start, and what may overlap or follow it. In `services` the bounds
are the least with which the case in question exists: a second page, a frame
after the one that is cut, a merge of three messages, two executions that
overlap (seven requests), a channel longer than what is kept, a third request
between the check and the write of two others.
The runs that check a property under fewer faults or operations than others do
so because the property is false beyond them, as section 6 says for each.

Fairness. `FairSpec` asks weak fairness of each handler, of each task's own
steps and of each idle worker taking a message: a coroutine that was started is
resumed, a database call returns or fails, Celery hands a waiting message to a
free worker. Clients and faults are not fair. A killed task, and one whose soft
limit escapes, has its message acknowledged, and nothing else settles its row.
`Kill` is in no fair run; `RunSettles` of `Evaluation` says that the evaluation
settles or that it was `Abandoned` by one of the two.

## 4. Proofs

Each theorem holds for any number of questions, samples, files, workers,
clients, requests and faults, but for what is named with it. The assumptions on
constants are those the modules declare, and TLC evaluates them: counts and
bounds are natural numbers, sizes of chunks and pages are positive, a client is
not a worker (`ActorsDiffer`), the set of passages is finite.

### A batch

`TypeCorrect` (in `InvocationBatch_proofs`) is `Spec => []TypeOK`. TypeOK alone
is not inductive, because a finished reconciliation counts down the passes that
are left; `TypeInv` adds that a reconciling task has one (`PassesLeft`).

`CompletedCorrect`, `ResultsStay` and `Implements` rest on one inductive
invariant, `CoverInv`, defined at the end of `InvocationBatch`. The idea is that
nothing that is carried across a step becomes false:

* row ids are never reused, and the row a task holds belongs to the question the
  task believes (`RowIds`, `TaskIds`), so what a transaction deletes belongs to
  the question it inserts (`SnapsOneQuestion`) and no step uncovers a question;
* therefore a `completed` that a handler read and may write back when a
  dispatch fails (`SeenCovered`), or that a reconciliation decided and commits
  later (`VerdictCovered`), is still justified when it is written.

The proof first shows, for every action, the shape of its effect on the rows and
the status (`HandlerShapes`, `TaskShapes`, `NextShape`), then that the parts of
the invariant survive any step of such a shape. The same shapes give the step
simulation of `BatchContract` (`NextContract`). `ContractDelivers` shows what
the contract is good for: a batch that says completed has a result for every
question.

The other theorems about batches and evaluations name what they assume; the
behaviours of section 6 are why.

| Assumption | Meaning |
| --- | --- |
| `OneWorker` | no two executions overlap |
| `NoRetry` | the retry operations are not in `Ops` |
| `FewFaults` | no kill, no broker error, fewer database errors than a commit has attempts |
| `NoCrash`, `NoBroker`, `NoFault(k)` | that fault has no budget |
| `NoForce`, `NoReturn` | no forced cancellation; no rerun, or a broker that takes every message |

`OneRowPerQuestionThm` (`OneWorker`, `NoRetry`): the invariant says that a
transaction about to commit will delete every row of its question
(`SnapsWhole`), which one worker keeps true, since nobody inserts a row between
the DELETE and the commit.

`QuietIsSettledThm` (`NoRetry` or `NoCrash`, and `FewFaults`): a running batch
has the dispatch of a run, its message or an execution that is obliged to commit
a final state (`Pending`). What makes that inductive is that the reconciliation
has an attempt left for every database error to come (`AttemptsLeft`), and that
no retry is delivered twice (`RetriesOnce`), since a retry may find that its rows
are gone and end. Executions hand the obligation on to themselves
(`TaskAnswers`) or to the message. `QueuedStateThm` (`NoRetry`, `FewFaults`) is
the same argument for a batch without `started_at` and who will claim it
(`Awaited`, `TaskClaims`); `NoRetry` stays, because only a run sets
`started_at` and a retried batch that never started is shown as queued while it
executes.

`CompletedIsFrozenThm` (`OneWorker`, `NoBroker`): an execution that works on
questions has announced itself, so the batch does not say that it is over
(`Working`), and nobody else deletes a row. What is added while the batch is
completed is a placeholder of a handler between `FindMissing` and `FillMissing`,
which read the batch as failed or cancelled: a batch it read as completed was
covered (`CoverInv`), and lacks nothing (`Filling`). Retries, kills, crashes and
database errors are in. That nothing at all is added is false (section 6).

`SettledCountsThm` (`OneWorker`, `NoCrash`, `FewFaults`): the counters of a batch
that is over are those of its last results, unless a retry whose rows are still
there waits for its turn (`Live`) or an execution is about to settle (`Owed`).
The verdict of a reconciliation waits for its commit on counters that have not
changed since (`CountsSeen`), so the ORM writes both columns or they are right.

### An evaluation

`EvaluationTypes` is the type invariant. `ScoresSurviveThm` needs no assumption:
a transaction deletes rows of its own chunk only, and inserts a row for each of
its samples. `OneScorePerSampleThm` (`OneWorker`) is the argument of
`OneRowPerQuestionThm` for the chunks of `persist_batch`; it needs no `NoRetry`,
because a retry of an evaluation runs the same transaction.

`CompletedIsScoredThm` (`OneWorker`, `NoRetry`) is about a count: `_finalize`
compares the number of rows with the number of samples, and that is enough
because the map from rows to samples is injective, hence onto when the numbers
agree (`FS_Injection`). The invariant says this of every verdict and every
status that is carried to a later write (`Carried`). `EvaluationImplements` puts
both together: under the same assumptions an evaluation implements
`BatchContract`, the samples in the place of the questions; of this the run
`eval_faults` has `CompletedIsScored` and `ScoresSurvive`.

`CancelledStaysThm` (`OneWorker`, `NoForce`, `NoFault("db")`, `NoReturn`): while
an execution is past the guard of `evaluation_task`, the evaluation does not say
cancelled (`Alive`), because nobody but that execution can write it, and a failed
dispatch puts back a status that was not cancelled (`Returns`). A database error
is excluded since a `_finalize` that was applied has cleared the flag and decides
again.

`SummaryIsOfResultsThm` (`OneWorker`, `NoFault("db")`, `NoReturn`): the rows behind
the position of an execution are its own (`Own`), so what it commits at the end
was computed from all of them. It is about an evaluation that is completed and
has no error: one whose execution raised after its last chunk is completed by
`_finalize` under an earlier summary, and its `error` column tells. Reruns,
retries, forced cancellations, crashes, kills, soft limits, escaped ones and errors
after any chunk are in.

### The jobs

A behaviour of `Jobs` is about one kind of job. For the kinds with a proof module
of their own `Jobs` instantiates that module, and a lemma such as `ParseRuns`
(`Spec => ([](focus = "parse") /\ Parse!Spec) \/ []~(focus = "parse")`) carries
its theorems over; the other kinds are proved about in `Jobs_proofs`, with an
invariant that is claimed when the behaviour is about them. Nothing is assumed
but the constants.

* Parsing: there is one message or one execution of a batch (`OneMessage`), its
  session agrees with the stored results (`SessionAgrees`), and a result that was
  saved says so (`SavedOnce`): `OneDocumentPerFileThm`. `SuccessStaysThm` adds
  that the session of a custom service knows every success and never has a parsed
  file under way (`CustomSession`).
* Load tests: `OneLoadAtATimeThm` is for requests that do not overlap (`Jobs`
  gives load tests one client): until a message is delivered again, there is one
  handler between its commit and its dispatch, one message or one execution, and
  meanwhile the test says running (`Single`). `LimitWasSustainedThm`, for any
  integers a client gives, is a loop invariant: the values of an execution are a
  ramp of passed levels in the direction of the step, whose last is the best
  (`Ramp`), and the ways to leave the loop give a result that is sustained
  (`FailIsSustained`, `MaxIsSustained`).
* Ingestion: every commit that adds local documents removes those of the same
  remote one (`OneDocumentPerRemoteThm`); the commit that makes a dataset notes
  it in the row of the ingestion (`DatasetNoted`), where a later delivery finds it
  (`OneDatasetPerIngestThm`). `CompletedIsReadyThm` needs that there is one
  execution (`OneMessage`), that it works on the dataset of the row (`WorksOn`)
  and that none has begun once the row says completed (`CompletedRests`): no later
  delivery can fail the dataset again.
* Synchronisation, `NothingSkippedThm`: every row up to `last_sync_at` is stored,
  counted among those that could not be (`missed`), or of a table that the sync
  which moved past it had not selected (`leftOut`). The invariant (`SyncInv`) says
  so of the place in the source (`Dealt`) and, table by table, of what each
  execution has finished (`Reads`, `Finished`); a chunk that fails halfway moves no
  place.
* Crawls, `ArticleOnceThm`: while crawls do not overlap at most one actor is in a
  crawl, what it is about to insert is not stored (`IsNew`), and one reading of the
  feed holds an article no more often than the feed lists it (`OneReading`).
* Imports, `ImportIsIdempotentThm`, for any number of clients: while no import
  overlaps another the records of a dataset are of one import (`ProfInv`), and
  an import that is alone finds none when it inserts (`Alone`).
* Generated datasets, `RecountsThm`: what an open transaction has counted, if no
  other overlapped it, is the number of rows it will leave (`TxOk`).
* Training data, `CountersMatchRowsThm`, for any number of workers: scores, counters
  and the number of the execution are stored together or not at all (`Concluded`,
  `TrainTask`) unless an execution was overtaken by another, and a completed status that a failed dispatch will put back still has its scores
  (`Restores`).

### The services

`Services` has no module of its own per kind to prove about; `Services_proofs`
states one invariant for each.

* `OfferedIsRegistryThm`: rows of metrics are never deleted, so what a request has
  read before its write exists (`RegAsked`), and the start makes active exactly
  what the registry has (`RegOffered`).
* `ExecutionSettlesThm`: who is in the sandbox stands for a row of its own, and no
  row is running without (`VibeSettles`), unless its script printed that status
  (`own`).
* `MetricsAgreeThm` is a fact about finite sets: the rank, the hit and the recall
  of one ranking are three functions of the targets among the first K.
* `LogIsTrueThm` and `StreamIsWellFormedThm` share `ProxyInv`: before the target
  is asked nothing is collected (`ProxyFresh`), what the generator has merged is
  what the target has reported (`ProxyUsage`), and a stream that has not ended has
  a block around its text and a call ahead of its arguments (`ProxyShape`). A
  success is logged once the client was told the end (`ProxyClosed`), or when it
  left while it was told; what a chunk with usage drops is excepted. The proof is
  by the frames of both protocols and holds for any stream of them.
* `DiagnosisIsSoundThm`: the stored trace is the compaction of the reply
  (`DiagInv`), the two classifications agree on it, and a step that is blamed is
  the step the reply leads to. It needs no bound on the lengths of channels.
* `ResultsSurviveThm` is about the references of the schema as a graph
  (`RefIsShaped`): which rows a deletion takes is two references deep at most, and
  no reference to a row that is gone is left (`CatInv`).
* `ChunksAreOwnThm`: an id the session remembers is of the document it uploaded for
  the file (`ConIds`), what was listed as done is done or was shown so early
  (`ConListed`), and the chunks read are the first of those of the document, all
  of them unless it was shown early (`ConGot`), whatever others add and whichever
  connector it is.
* `TimeoutIsRealThm`, for the same connectors: while nobody interferes everything
  waited for is settled, and every wanted document on a page that was read is known
  as settled (`WaitQuiet`), so that at the end of a whole listing the wait has
  enough. The listing shows what is waited for because an upload that is remembered
  by its number is in the knowledge base under its own file (`WaitFiles`).
* `StreamIsWholeThm`: at every frame the answer is the text of the frames so far and
  the ids are those of their references in the places the stream reads (`RagInv`,
  `Kept`). It needs that what is kept of two lists of references, one after the
  other, is what is kept of each.
* `RequestIsKeptThm` is about pure conversions of lists of messages: each message of
  the client becomes messages with the same blocks (`OneOpenaiKeeps`,
  `OneAnthropicKeeps`), a filler means nothing (`FilledKeeps`), and joining neighbours
  of one role loses no block and leaves no such neighbours, message by message
  (`JoinedKeeps`, `MergeKeeps`). The step is that of `StartLog` (`KeptInv`).

The last three are about lists of any length. The induction theorems of the library
take an operator as a parameter, which no prover here can instantiate; the section
"Sequences of sequences" of `Services_proofs` gets its induction from the least
number outside of a set (`NatInd`, from `WFMin` of WellFoundedInduction) and, from
it, over sequences (`SeqInd`). What `FlattenSeq` computes follows (`FlattenAppend`,
`FlattenConcat`, `FlattenHas`), then what replacing each element by a list of its own
does (`Spread`). The models say "those of the list that ..." with `FlattenSeq` for
that reason: a selection by a test has no such facts.

### What is only model-checked

Liveness under fairness (`RunSettles` of both modules): no backend. Every other
property of the passing runs is proved under assumptions that its run meets.

## 5. Reading the mutants

Definitions marked `mutant` are plausible mistakes (a reconciliation that counts
rows instead of questions, a guard that forgets cancelled, a delete that forgets
the question). They are used only to show that each property notices one.

## 6. Where the code and its documentation disagree

With a run:

1. `find_retry_ambiguous_commit`: `_run_retry` deletes by result id only, so a
   commit that was applied but reported as failed is repeated into a second row.
2. `find_rerun_in_flight`: a finished batch that is run again keeps its old
   counters, and `batch_in_flight` says no while its message is queued.
3. `find_retry_redelivered`: a retry redelivered after its last row was replaced
   returns without settling the batch.
4. `find_eval_rerun_mixes`: a rerun that fails midway is completed by the rows
   of the run before, under the old summary.
5. `find_ingested_recall`: the target chunks of a generated question are ids of
   local rows, and no adapter returns such an id, so its recall is always 0.

Seen while choosing the operations and faults of the runs, without a run of
their own:

* two retries of the same rows, or two runs of an evaluation that both read
  pending, execute in two workers and leave two rows for a question; this is why
  `OneRowPerQuestion` and `OneScorePerSample` are checked with one worker;
* a second reconciliation, or a repeated one, no longer finds the cancel flag
  the first cleared, and writes failed over cancelled;
* a cancel accepted while the task settles leaves its flag on a completed batch
  and stops the next run at its first question;
* a retry of a batch that never started executes with `started_at` empty and is
  shown as queued, which is why `inv_redelivery` has no retry; so does a second
  run whose dispatch fails;
* a retry creates failed placeholders before its dispatch; when the dispatch
  fails or the worker dies the counters no longer match the rows, which is why
  `SettledCounts` is checked with database errors only;
* a database error in the unguarded head of `evaluation_task` leaves the
  evaluation in running, which is why `RunSettles` of `Evaluation` is checked
  without database errors;
* two requests to run a load test may both read that it is not running and start
  it twice (`load_tests.py:220`), which is why `jobs` gives load tests one client;
* a force cancel does not stop a live evaluation worker, which writes completed
  over cancelled; a broker error or a repeated `_finalize` does so too, which is
  why `CancelledStays` is checked without them;
* a retry held open while the redelivered message of the previous run finishes
  deletes the rows and is then told completed, which is why
  `CompletedIsScored` is checked without retry;
* an error of `update_state` or of the summary after the last chunk was committed
  leaves every row, so that `_finalize` (`evaluation_tasks.py:284`) writes completed
  with the error and under the summary of the run before: `SummaryIsOfResults`
  excepts a completed evaluation that has an error, `AnySummaryIsOfResults` of
  `find_eval_rerun_mixes` does not.

Properties that state what the code says of itself, that the modules keep beside
those that hold, and that TLC refutes when one of them is the only property
of the configuration named (for `Jobs.cfg` and `Services.cfg` with `Kinds` cut down
to the kind in question):

* `CompletedIsUntouched` (`InvocationOneWorker.cfg`): `invocations.py:266` fills in
  placeholders only in a batch that is over, because a worker of a running one may
  still write the result itself. The worker of a batch that was cancelled by force
  may do so too: it writes the last result and completes the batch between the
  handler's look at the rows and its commit, and a completed batch gets a failed
  placeholder.
* `RunAlwaysSettles` (`EvaluationCancel.cfg`): `_finalize`
  (`evaluation_tasks.py:376`) is there so that no exit leaves the status in running;
  a soft limit in the event loop is an exit that does not pass it.
* `LimitIsHighest` (load): the test raises the concurrency to find the limit
  (`load_test_tasks.py:171`); with a negative step, which nothing refuses, it
  lowers it, and the limit is the lowest level that passed.
* `OneRowPerHash` (news): the hash is there to tell copies apart
  (`models/hot_news.py:62`, `crawler/base.py:56`); two equal entries of one feed are
  both stored, since `existing_hashes` is not updated in the loop.
* `NothingLeftOut` (sync): the target types of a sync are chosen freely
  (`data_sources.py:280`), and the next incremental sync starts where any sync of
  the source ended (`sync_tasks.py:94`), so that the rows of a table that was not
  chosen are never read.
* `NothingLeftRunning` (vibe): `models/vibe_agent.py:103` lists the states of an
  execution; a script prints its own (`executor.py:80`), `vibe_agent.py:368` stores
  it, and a row may say running with nothing under way.
* `SuccessIsWhole` (proxy): the log says whether a stream was delivered; one left
  while its closing events are yielded (`proxy.py:272-299`) is logged as a success.
* `NothingDropped` (proxy): a chunk that holds usage returns at once
  (`protocol_converter.py:742-744`), and the text beside it is lost.
* `QuotesAreKept` (rag): `fastgpt_adapter.py:78` says that references come in
  either of two places; its stream (`fastgpt_adapter.py:168`) reads one.
* `ChunksAreWhole` (con): a collection that the counts show as done
  (`fastgpt.py:226`) may still be in training, and only the chunks made so far are
  read.
* `ReplayedIsStored` (train): `training_data_eval_tasks.py:34` says the second
  commit replays the first; a rollback has expunged what it should replay, and
  the scores are lost.
* `CountIsRows` (build): two handlers that overlap each count the rows they see
  (`services/documents.py:67`), and the last one wins.
* `BlockedIsPollable` (build): a poll that asked while the task worked and commits
  after the task has ended writes PROGRESS over a dataset whose task id is
  cleared (`datasets.py:841`); it refuses every later generation, and a page has
  no id to poll with (`datasets.py:805`).
* `StatusMatchesError` (news): `crawler_tasks.py:98` clears the error so that
  status and error never contradict; the path of `hot_news.py:363` does not.
* `ListingIsWhole` (con): connectors that list one page give up on documents that
  are parsed on the next.
* `TruncationIsNotAbsence` (diag): `trace.py:47` counts what it cuts so that a cut
  is not taken for absence; `retrieval_step` does not look at the count.
* `RefusalIsTrue` (cat): a refused deletion names evaluations or batches
  (`datasets.py:201`, `rag_systems.py:462`) when a load test or an ingestion blocks it.
* `ReusedAnswersAreOfTheBatch` (cat): when the batch is deleted its reference
  becomes NULL, and a run of an evaluation that reuses answers scores those of
  the dataset, which `evaluation_tasks.py:177` rules out.
* `StartsAgain` (reg): a news source that is named like a preset makes
  `scalar_one_or_none` (`preset_sources.py:399`) raise at every later start.
* `BoundOnce` (reg): `models/metric.py:112` says once; a list with a repeated id,
  or two clients, bind a tag twice, and it can then not be unbound.
* `RetiredIsNotOffered` (reg): a user's metric whose name the code later takes and
  gives up stays on offer (`builtin_metrics.py:128`).
* `MeanIsOfItsRatings` (reg, four requests): a lost update of the count beside a
  mean that did not change leaves a mean no such number of ratings can have.

Read in the code while modelling it, without a property: `create_prompt` and
`update_prompt` use `prompt.id` before it exists and fail (`prompts.py:210`); a
load test that takes its questions from a dataset always fails, since a scalar
row has no `question` (`load_test_tasks.py:128`); a node that was tuned is not
stored, since its JSON is changed in place (`vibe_agent.py:446`); a workflow
without an entry point passes its tests (`executor.py:239`); a conversation
started over HTTP lives in an engine no other request finds (`vibe_agent.py:71`);
an article with a date cannot become a document, since the date goes into a JSON
column (`datasets.py:1360`); deleting a question that a result refers to answers
500 instead of 400 (`DeleteQaRecord` of `Catalog`).

## 7. What is left

* Proofs: liveness, which no backend reaches. Every other property of the passing
  runs is a theorem, under the assumptions named in section 4.
* The reuse of a batch by an evaluation that runs while the batch is retried:
  `Catalog` has the references and not the interleaving of the two tasks.
* The comparison of evaluations, the replay of a logged call, and the three steps
  of an annotation correction.

## 8. Not modelled

* Sampling scope and context budget: functions of text lengths; the modules take
  a scope as a set of samples.
* Values: scores and statistics in floating point, the texts of prompts and
  suggestions, the format of each remote API.
* Graph construction, the stores, engine and pool of the database: wrappers of
  external services without a life cycle of their own.
* The web interface: it polls and keeps nothing the server relies on.
* Prompts: both handlers that write always fail.
* `batch_evaluation_task`, `import_dataset_task`, `data_import_task`: registered
  and never dispatched.

`PROJECT.json` gives the reason for each component.
