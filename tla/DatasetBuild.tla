---------------------------- MODULE DatasetBuild ----------------------------
(***************************************************************************)
(* A dataset and its QA records: the handlers that add, import, change and *)
(* delete records, and the generation of records by generate_dataset_task  *)
(* with the handlers that start and poll it.                               *)
(*                                                                         *)
(* A handler writes in one transaction: refresh_dataset_stats flushes the  *)
(* rows of its session and counts those it can see, the commit follows.    *)
(* A session writes a column only if the value it sets differs from the    *)
(* value it has read; the session of the task reads the dataset when it    *)
(* opens and not again (expire_on_commit=False).                           *)
(***************************************************************************)
EXTENDS TaskQueue

CONSTANTS
    MaxRow,     \* bound: QA rows ever made
    MaxAdd      \* bound: rows one import or generation adds

VARIABLES
    qa,         \* ids of the QA records
    nextRow,
    held,       \* records that a result refers to
    results     \* the result backend: state by message

buildVars == <<qa, nextRow, held, results>>

\* count: record_count; genId, genStatus: generate_task_id and _status;
\* told: the ids clients have been given
Init ==
    /\ QueueInit
    /\ job = [status |-> "draft", count |-> 0, genId |-> 0, genStatus |-> "none", told |-> {}]
    /\ qa = {} /\ nextRow = 1 /\ held = {}
    /\ results = [m \in {} |-> "PENDING"]

Write(read, new, current) == IF read = new THEN current ELSE new

Request(c) ==
    /\ call[c] = NoCall /\ requests < MaxRequests /\ Exists
    /\ requests' = requests + 1

NewRows(n) == nextRow..(nextRow + n - 1)

\* an open transaction: its rows are flushed and counted with the committed
\* ones; alone: no other transaction has committed since
Tx(add, del, ready) ==
    [add |-> add, del |-> del, ready |-> ready, alone |-> TRUE, read |-> job.count,
     count |-> Cardinality((qa \cup add) \ del)]

\* the other open transactions have been overlapped
Overlapped(except) ==
    [c \in Clients |-> IF call[c].op = "tx" /\ c \notin except
                       THEN [call[c] EXCEPT !.seen.alone = FALSE] ELSE call[c]]

-----------------------------------------------------------------------------
\* create_qa_record, import_data: one row, or those of a file
AddRecords(c) ==
    /\ Request(c)
    /\ \E n \in 0..MaxAdd, ready \in BOOLEAN :
          /\ nextRow + n <= MaxRow + 1
          /\ n # 1 => ready
          /\ nextRow' = nextRow + n
          /\ call' = [call EXCEPT ![c] = [op |-> "tx", seen |-> Tx(NewRows(n), {}, ready)]]
    /\ UNCHANGED <<job, queue, nextMid, frame, faults, qa, held, results>>

\* mutant of DeleteRecords: the statistics are left to the next import
DeleteRecordsUncounted(c) ==
    /\ Request(c)
    /\ \E del \in (SUBSET qa) \ {{}} :
          call' = IF del \cap held # {} THEN call
                  ELSE [call EXCEPT ![c] = [op |-> "tx",
                           seen |-> [Tx({}, del, FALSE) EXCEPT !.count = job.count]]]
    /\ UNCHANGED <<job, queue, nextMid, frame, faults, buildVars>>

\* delete_qa_record, batch_delete_qa_records: a record that a result refers to
\* breaks the flush of the count, and all of the deletion
DeleteRecords(c) ==
    /\ Request(c)
    /\ \E del \in (SUBSET qa) \ {{}} :
          call' = IF del \cap held # {} THEN call
                  ELSE [call EXCEPT ![c] = [op |-> "tx", seen |-> Tx({}, del, FALSE)]]
    /\ UNCHANGED <<job, queue, nextMid, frame, faults, buildVars>>

\* backfill_qa_targets changes gold only, and counts
BackfillTargets(c) ==
    /\ Request(c) /\ qa # {}
    /\ call' = [call EXCEPT ![c] = [op |-> "tx", seen |-> Tx({}, {}, FALSE)]]
    /\ UNCHANGED <<job, queue, nextMid, frame, faults, buildVars>>

CommitTx(c) ==
    /\ call[c].op = "tx"
    /\ LET t == call[c].seen IN
       IF Exists
       THEN /\ qa' = (qa \cup t.add) \ t.del
            /\ job' = [job EXCEPT !.count = Write(t.read, t.count, @),
                                  !.status = IF t.ready THEN "ready" ELSE @]
            /\ call' = [Overlapped({c}) EXCEPT ![c] = NoCall]
       ELSE UNCHANGED <<job, qa>> /\ Finish(c)
    /\ UNCHANGED <<queue, nextMid, frame, requests, faults, nextRow, held, results>>

\* a result row refers to a record; the record is not being deleted
Refer(r) ==
    /\ r \in qa \ held
    /\ \A c \in Clients : call[c].op = "tx" => r \notin call[c].seen.del
    /\ held' = held \cup {r}
    /\ UNCHANGED <<taskVars, qa, nextRow, results>>

\* delete_dataset: refused while a result refers to it, the records go along
DeleteDataset(c) ==
    /\ Request(c)
    /\ IF held # {} THEN UNCHANGED <<job, qa>>
       ELSE job' = [job EXCEPT !.status = "gone", !.count = 0] /\ qa' = {}
    /\ UNCHANGED <<queue, nextMid, frame, call, faults, nextRow, held, results>>

-----------------------------------------------------------------------------
InFlight == {"PENDING", "PROGRESS"}

\* generate_dataset: refused while a generation is in flight; models, sources
\* and documents are checked; the message leaves before its id is committed
RequestGenerate(c) ==
    /\ Request(c) /\ job.genStatus \notin InFlight
    /\ call' = [call EXCEPT ![c] = [op |-> "gen_send", seen |-> "none"]]
    /\ UNCHANGED <<job, queue, nextMid, frame, faults, buildVars>>

SendGenerate(c) ==
    /\ call[c].op = "gen_send"
    /\ \/ /\ queue' = queue \cup {nextMid} /\ nextMid' = nextMid + 1
          /\ results' = [m \in DOMAIN results \cup {nextMid} |->
                            IF m = nextMid THEN "PENDING" ELSE results[m]]
          /\ call' = [call EXCEPT ![c] = [op |-> "gen_note", seen |-> nextMid]]
          /\ UNCHANGED faults
       \/ /\ Fault("broker") /\ Finish(c)
          /\ UNCHANGED <<queue, nextMid, results>>
    /\ UNCHANGED <<job, frame, requests, qa, nextRow, held>>

NoteGenerate(c) ==
    /\ call[c].op = "gen_note"
    /\ \/ /\ job' = IF Exists THEN [job EXCEPT !.genId = call[c].seen, !.genStatus = "PENDING",
                                               !.told = @ \cup {call[c].seen}]
                    ELSE job
          /\ UNCHANGED faults
       \/ Fault("db") /\ UNCHANGED job
    /\ Finish(c)
    /\ UNCHANGED <<queue, nextMid, frame, requests, buildVars>>

\* get_generate_status of a message: the backend is asked and the row is read,
Poll(c) ==
    /\ Request(c)
    /\ \E m \in job.told :
          call' = IF results[m] = "PENDING" THEN call
                  ELSE [call EXCEPT ![c] = [op |-> "poll",
                           seen |-> [state |-> results[m], id |-> job.genId, status |-> job.genStatus]]]
    /\ UNCHANGED <<job, queue, nextMid, frame, faults, buildVars>>

\* then what the backend has said is committed
CommitPoll(c) ==
    /\ call[c].op = "poll"
    /\ LET s == call[c].seen IN
       job' = IF ~Exists THEN job
              ELSE [job EXCEPT !.genStatus = Write(s.status, s.state, @),
                               !.genId = IF s.state = "PROGRESS" THEN @ ELSE Write(s.id, 0, @)]
    /\ Finish(c)
    /\ UNCHANGED <<queue, nextMid, frame, requests, faults, buildVars>>

-----------------------------------------------------------------------------
\* generating is committed outside the try
OpenGenerate(w) ==
    /\ At(w, "open")
    /\ \/ /\ Exists
          /\ job' = [job EXCEPT !.status = "generating"]
          /\ Goto(w, "begin", [count |-> job.count, id |-> job.genId, status |-> job.genStatus])
          /\ UNCHANGED faults
       \/ /\ ~Exists
          /\ Goto(w, "return", <<>>) /\ UNCHANGED <<job, faults>>
       \/ /\ Fault("db")
          /\ Goto(w, "return", <<>>) /\ UNCHANGED job
    /\ UNCHANGED <<queue, nextMid, call, requests, buildVars>>

Reported(m, s) == results' = [results EXCEPT ![m] = s]

\* models, clients and adapters; then update_state
LoadSources(w) ==
    /\ At(w, "begin")
    /\ Goto(w, "generate", Loc(w))
    /\ Reported(frame[w].mid, "PROGRESS")
    /\ UNCHANGED <<job, queue, nextMid, call, requests, faults, qa, nextRow, held>>

\* the generator, then the rows in the session and their count
Generate(w) ==
    /\ At(w, "generate")
    /\ \E n \in 0..MaxAdd :
          /\ nextRow + n <= MaxRow + 1
          /\ nextRow' = nextRow + n
          /\ Goto(w, "commit", [read |-> Loc(w), add |-> NewRows(n),
                                count |-> Cardinality(qa \cup NewRows(n))])
    /\ UNCHANGED <<job, queue, nextMid, call, requests, faults, qa, held, results>>

\* rows, count, ready and the cleared task id in one commit
CommitGenerate(w) ==
    /\ At(w, "commit") /\ Exists
    /\ LET l == Loc(w) IN
       /\ qa' = qa \cup l.add
       /\ job' = [job EXCEPT !.status = "ready", !.count = Write(l.read.count, l.count, @),
                             !.genId = Write(l.read.id, 0, @),
                             !.genStatus = Write(l.read.status, "none", @)]
    /\ call' = Overlapped({})
    /\ Goto(w, "return", <<>>)
    /\ UNCHANGED <<queue, nextMid, requests, faults, nextRow, held, results>>

Fails(w) ==
    /\ \/ Raise(w, {"begin", "generate"})
       \/ DbError(w, {"begin", "commit"})
       \/ ~Exists /\ Raise(w, {"commit"})
    /\ UNCHANGED buildVars

\* after the rollback the row is read again and all columns are written; a
\* database error here leaves the task
FailGenerate(w) ==
    /\ At(w, "except")
    /\ \/ /\ job' = IF Exists THEN [job EXCEPT !.status = "failed", !.genId = 0, !.genStatus = "none"]
                    ELSE job
          /\ UNCHANGED faults
       \/ Fault("db") /\ UNCHANGED job
    /\ Goto(w, "return", <<>>)
    /\ UNCHANGED <<queue, nextMid, call, requests, buildVars>>

\* a task that returned has succeeded for Celery, whatever it returned; one
\* that raised has not
Return(w) ==
    /\ At(w, "return")
    /\ Reported(frame[w].mid, "SUCCESS") \/ Reported(frame[w].mid, "FAILURE")
    /\ Goto(w, "ack", <<>>)
    /\ UNCHANGED <<job, queue, nextMid, call, requests, faults, qa, nextRow, held>>

Handlers(c) ==
    \/ AddRecords(c) \/ DeleteRecords(c) \/ BackfillTargets(c) \/ CommitTx(c)
    \/ DeleteDataset(c) \/ RequestGenerate(c) \/ SendGenerate(c) \/ NoteGenerate(c)
    \/ Poll(c) \/ CommitPoll(c)

Work(w) ==
    \/ Delivery(w) /\ UNCHANGED buildVars
    \/ OpenGenerate(w) \/ LoadSources(w) \/ Generate(w) \/ CommitGenerate(w)
    \/ Fails(w) \/ FailGenerate(w) \/ Return(w)

Next == (\E c \in Clients : Handlers(c)) \/ (\E w \in Workers : Work(w))
            \/ (\E r \in qa : Refer(r))
vars == <<taskVars, buildVars>>
Spec == Init /\ [][Next]_vars

-----------------------------------------------------------------------------
\* The transaction of a handler that no other overlapped leaves record_count
\* at the number of rows, whatever it was before (documents.py:67).
Recounts ==
    \A c \in Clients : call[c].op = "tx" /\ call'[c] = NoCall /\ Exists /\ call[c].seen.alone =>
        job'.count = Cardinality(qa')

-----------------------------------------------------------------------------
\* promised and not kept (README, section 6): each fails as the only invariant of Jobs.cfg

\* What refresh_dataset_stats promises for every writer: with no transaction
\* open, record_count is the number of rows (documents.py:67).
CountIsRows ==
    (\A c \in Clients : call[c].op # "tx") /\ Exists => job.count = Cardinality(qa)

\* A dataset that refuses another generation names the task to poll, so that a
\* page can find out how it ended (datasets.py:805, datasets.py:869).
BlockedIsPollable ==
    Exists /\ job.genStatus \in InFlight => job.genId # 0
=============================================================================
