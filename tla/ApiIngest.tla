----------------------------- MODULE ApiIngest -----------------------------
(***************************************************************************)
(* The ingestion of documents through the API of a RAG system:             *)
(* start_api_ingest and api_ingest_task, which makes or chooses a remote   *)
(* knowledge base, uploads the files, waits for the remote parse, stores   *)
(* what the remote system made of them in a local dataset, generates       *)
(* questions and may start an invocation batch.                            *)
(*                                                                         *)
(* The task commits between the stages and has no guard against a second   *)
(* delivery, which starts again from the first stage.                      *)
(***************************************************************************)
EXTENDS TaskQueue, Sequences

CONSTANTS
    Files      \* uploaded files, in order

VARIABLES
    remote,    \* the remote system: knowledge bases made, documents uploaded
    docs,      \* local documents: [marker, of the dataset, copy]
    questions, \* QA rows of the dataset: one per generation that was stored
    datasets,  \* status of each dataset row
    batches    \* invocation batches: [sent |-> BOOLEAN, rows |-> number]

ingestVars == <<remote, docs, questions, datasets, batches>>

\* what the connector can do: create a knowledge base, list chunks; keyed: an
\* upload of the same file is the same remote document (langchain_chatchat)
Connectors == [create : BOOLEAN, chunks : BOOLEAN, keyed : BOOLEAN]
\* kb: the request names a knowledge base
Requested == [kb : BOOLEAN, generate : BOOLEAN, invoke : BOOLEAN]

Init ==
    /\ QueueInit
    /\ \E k \in Connectors, r \in Requested :
          job = [status |-> "none", connector |-> k, config |-> r, kb |-> 0,
                 dataset |-> 0, files |-> <<>>]
    /\ remote = [kbs |-> 0, uploads |-> 0]
    /\ docs = {} /\ questions = 0 /\ datasets = <<>> /\ batches = <<>>

-----------------------------------------------------------------------------
\* start_api_ingest: the objects are stored before the row is committed; an
\* object that cannot be stored leaves the others without a row
StartIngest(c) ==
    /\ job.status = "none" /\ call[c] = NoCall /\ requests < MaxRequests
    /\ requests' = requests + 1
    /\ \/ /\ job' = [job EXCEPT !.status = "pending", !.files = [i \in DOMAIN Files |-> "pending"]]
          /\ call' = [call EXCEPT ![c] = [op |-> "dispatch", seen |-> "pending"]]
       \/ UNCHANGED <<job, call>>
    /\ UNCHANGED <<queue, nextMid, frame, faults, ingestVars>>

DispatchIngest(c) ==
    /\ call[c].op = "dispatch"
    /\ queue' = queue \cup {nextMid} /\ nextMid' = nextMid + 1
    /\ call' = [call EXCEPT ![c].op = "note_id"]
    /\ UNCHANGED <<job, frame, requests, faults, ingestVars>>

DispatchIngestFails(c) ==
    /\ call[c].op = "dispatch" /\ Fault("broker")
    /\ job' = [job EXCEPT !.status = "failed"]
    /\ Finish(c)
    /\ UNCHANGED <<queue, nextMid, frame, requests, ingestVars>>

\* celery_task_id is committed after the message has left; when that commit
\* fails the row is marked failed, whatever the worker has made of it
NoteTaskId(c) ==
    /\ call[c].op = "note_id"
    /\ \/ UNCHANGED <<job, faults>>
       \/ Fault("db") /\ job' = [job EXCEPT !.status = "failed"]
    /\ Finish(c)
    /\ UNCHANGED <<queue, nextMid, frame, requests, ingestVars>>

-----------------------------------------------------------------------------
\* the RAG system may be gone; a knowledge base is chosen or has to be made
ChooseKb(w) ==
    /\ At(w, "begin") /\ (job.kb # 0 \/ job.config.kb)
    /\ job' = [job EXCEPT !.kb = IF @ # 0 THEN @ ELSE 1]
    /\ Goto(w, "dataset", <<>>)
    /\ UNCHANGED <<queue, nextMid, call, requests, faults, ingestVars>>

\* the remote knowledge base exists before its id is committed
CreateKb(w) ==
    /\ At(w, "begin") /\ job.kb = 0 /\ ~job.config.kb /\ job.connector.create
    /\ remote' = [remote EXCEPT !.kbs = @ + 1]
    /\ Goto(w, "note_kb", [kb |-> remote.kbs + 1])
    /\ UNCHANGED <<job, queue, nextMid, call, requests, faults, docs, questions, datasets, batches>>

NoteKb(w) ==
    /\ At(w, "note_kb")
    /\ job' = [job EXCEPT !.kb = Loc(w).kb]
    /\ Goto(w, "dataset", <<>>)
    /\ UNCHANGED <<queue, nextMid, call, requests, faults, ingestVars>>

UploadFrom(d) == [dataset |-> d, at |-> 1, ids |-> [i \in DOMAIN Files |-> 0],
                  files |-> job.files]

\* mutant of EnsureDataset: a redelivered task makes its dataset again
EnsureDatasetAgain(w) ==
    /\ At(w, "dataset")
    /\ datasets' = Append(datasets, "importing")
    /\ job' = [job EXCEPT !.dataset = Len(datasets')]
    /\ Goto(w, "upload", UploadFrom(Len(datasets')))
    /\ UNCHANGED <<queue, nextMid, call, requests, faults, remote, docs, questions, batches>>

\* the dataset and its id in the task row are one commit
EnsureDataset(w) ==
    /\ At(w, "dataset")
    /\ \/ /\ job.dataset = 0
          /\ datasets' = Append(datasets, "importing")
          /\ job' = [job EXCEPT !.dataset = Len(datasets')]
          /\ Goto(w, "upload", UploadFrom(Len(datasets')))
       \/ /\ job.dataset # 0
          /\ datasets' = [datasets EXCEPT ![job.dataset] = "importing"]
          /\ Goto(w, "upload", UploadFrom(job.dataset)) /\ UNCHANGED job
    /\ UNCHANGED <<queue, nextMid, call, requests, faults, remote, docs, questions, batches>>

\* every file is uploaded again by a second delivery; a file without its
\* object is skipped without a commit
UploadFile(w) ==
    /\ At(w, "upload") /\ Loc(w).at <= Len(Files)
    /\ LET l == Loc(w)
           id == IF job.connector.keyed THEN l.at ELSE Len(Files) + remote.uploads + 1
           Noted(s) == [l.files EXCEPT ![l.at] = s]
       IN \/ /\ remote' = [remote EXCEPT !.uploads = @ + 1]
             /\ job' = [job EXCEPT !.files = Noted("uploaded")]
             /\ Goto(w, "upload", [l EXCEPT !.at = @ + 1, !.ids[l.at] = id, !.files = Noted("uploaded")])
          \/ /\ job' = [job EXCEPT !.files = Noted("failed")]
             /\ Goto(w, "upload", [l EXCEPT !.at = @ + 1, !.files = Noted("failed")])
             /\ UNCHANGED remote
          \/ /\ Goto(w, "upload", [l EXCEPT !.at = @ + 1, !.files = Noted("failed")])
             /\ UNCHANGED <<job, remote>>
    /\ UNCHANGED <<queue, nextMid, call, requests, faults, docs, questions, datasets, batches>>

\* wait_documents_ready: every uploaded document is parsed or failed
ParseDocuments(w) ==
    /\ At(w, "upload") /\ Loc(w).at > Len(Files)
    /\ LET up == {i \in DOMAIN Files : Loc(w).files[i] = "uploaded"} IN
       \E good \in (SUBSET up) \ {{}} :
          LET seen == [i \in DOMAIN Files |-> IF i \in good THEN "ready" ELSE "failed"] IN
          /\ job' = [job EXCEPT !.files = seen]
          /\ Goto(w, "chunks", [Loc(w) EXCEPT !.files = seen])
    /\ UNCHANGED <<queue, nextMid, call, requests, faults, ingestVars>>

\* mutant of KeepDocs: what an earlier delivery stored stays
KeepDocsAll(markers) == docs

\* _save_remote_document: the rows with the marker of the document are replaced
KeepDocs(markers) == {d \in docs : d.marker \notin markers}

\* one commit for the documents and chunks of all files
SaveDocuments(w) ==
    /\ At(w, "chunks")
    /\ LET l == Loc(w)
           markers == {l.ids[i] : i \in {j \in DOMAIN Files : l.files[j] = "ready"}}
           fresh == {[marker |-> k, dataset |-> l.dataset, copy |-> remote.uploads] : k \in markers}
       IN docs' = IF job.connector.chunks THEN KeepDocs(markers) \cup fresh ELSE docs
    /\ Goto(w, "questions", Loc(w))
    /\ UNCHANGED <<job, queue, nextMid, call, requests, faults, remote, questions, datasets, batches>>

\* _build_qa and refresh_dataset_stats leave the rows in the session: made is
\* what the next commit stores; without chunks nothing is generated
BuildQuestions(w) ==
    /\ At(w, "questions")
    /\ \E n \in IF job.config.generate /\ job.connector.chunks THEN {0, 1} ELSE {0} :
          Goto(w, IF job.config.invoke THEN "batch" ELSE "complete",
               [dataset |-> Loc(w).dataset, made |-> n, ready |-> TRUE])
    /\ UNCHANGED <<job, queue, nextMid, call, requests, faults, ingestVars>>

StoreQuestions(w) ==
    /\ questions' = questions + Loc(w).made
    /\ datasets' = IF Loc(w).ready THEN [datasets EXCEPT ![Loc(w).dataset] = "ready"] ELSE datasets

\* auto_invoke: the batch row, and with it all that is in the session
AddBatch(w) ==
    /\ At(w, "batch")
    /\ StoreQuestions(w)
    /\ batches' = Append(batches, [sent |-> FALSE, rows |-> Loc(w).made])
    /\ Goto(w, "send", [Loc(w) EXCEPT !.made = 0])
    /\ UNCHANGED <<job, queue, nextMid, call, requests, faults, remote, docs>>

\* its dispatch; a broker error is written into the config only
SendBatch(w) ==
    /\ At(w, "send")
    /\ \/ batches' = [batches EXCEPT ![Len(batches)].sent = TRUE] /\ UNCHANGED faults
       \/ Fault("broker") /\ UNCHANGED batches
    /\ Goto(w, "complete", Loc(w))
    /\ UNCHANGED <<job, queue, nextMid, call, requests, remote, docs, questions, datasets>>

\* mutant of BatchLost: the session goes on as if nothing had been lost
BatchLostGoesOn(w) ==
    /\ At(w, "batch") /\ Fault("db")
    /\ Goto(w, "complete", [Loc(w) EXCEPT !.made = 0, !.ready = FALSE])
    /\ UNCHANGED <<job, queue, nextMid, call, requests, ingestVars>>

\* the commit of the batch fails: the error is swallowed, but the session has
\* lost what it held, and the next use of it raises
BatchLost(w) ==
    /\ At(w, "batch") /\ Fault("db")
    /\ Goto(w, "except", <<>>)
    /\ UNCHANGED <<job, queue, nextMid, call, requests, ingestVars>>

Complete(w) ==
    /\ At(w, "complete")
    /\ StoreQuestions(w)
    /\ job' = [job EXCEPT !.status = "completed"]
    /\ Goto(w, "ack", <<>>)
    /\ UNCHANGED <<queue, nextMid, call, requests, faults, remote, docs, batches>>

\* a missing system or capability, no file uploaded, no document parsed, a
\* timeout of the parse, no model for the questions; or a failed commit
Fails(w) ==
    /\ \/ Raise(w, {"begin", "dataset", "questions"})
       \/ At(w, "upload") /\ Loc(w).at > Len(Files) /\ Raise(w, {"upload"})
       \/ DbError(w, {"begin", "note_kb", "dataset", "upload", "chunks", "questions", "complete"})
    /\ UNCHANGED ingestVars

Handlers(c) == StartIngest(c) \/ DispatchIngest(c) \/ DispatchIngestFails(c) \/ NoteTaskId(c)

Work(w) ==
    \/ (Delivery(w) \/ Open(w, <<>>) \/ MarkFailed(w) \/ MarkFailedLost(w)) /\ UNCHANGED ingestVars
    \/ ChooseKb(w) \/ CreateKb(w) \/ NoteKb(w) \/ EnsureDataset(w) \/ UploadFile(w)
    \/ ParseDocuments(w) \/ SaveDocuments(w) \/ BuildQuestions(w) \/ AddBatch(w)
    \/ SendBatch(w) \/ BatchLost(w) \/ Complete(w) \/ Fails(w)

Next == (\E c \in Clients : Handlers(c)) \/ (\E w \in Workers : Work(w))
vars == <<taskVars, ingestVars>>
Spec == Init /\ [][Next]_vars

-----------------------------------------------------------------------------
\* However often the message is delivered, one ingestion makes one dataset:
\* the second delivery finds the id the first has committed
\* (api_ingest_tasks.py:102).
OneDatasetPerIngest == Len(datasets) <= 1

\* A remote document has one local document, also where an upload repeated by
\* a second delivery is the same remote document: its old rows are deleted in
\* the commit that adds the new ones (api_ingest_tasks.py:315).
OneDocumentPerRemote == \A d, e \in docs : d.marker = e.marker => d = e

\* A completed ingestion has left a dataset that can be used: its status is
\* ready, and every batch it started was stored with its questions
\* (api_ingest_tasks.py:244).
CompletedIsReady ==
    job.status = "completed" /\ (\A w \in Workers : frame[w].pc \in {"idle", "open", "ack"}) =>
        datasets[job.dataset] = "ready"
=============================================================================
