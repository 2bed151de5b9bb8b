-------------------------- MODULE ApiIngest_proofs --------------------------
(***************************************************************************)
(* Facts about the ingestion through an API, for any number of workers,    *)
(* clients, files, requests and faults: it makes one dataset, and one      *)
(* local document for each remote document, however often its message is   *)
(* delivered, and says completed of a dataset that is ready.               *)
(***************************************************************************)
EXTENDS ApiIngest, SequenceTheorems, TLAPS

\* the steps every job shares write neither the datasets nor the documents
\* and keep the dataset the row of the job names
LEMMA SharedStepKeepsDataset ==
    ASSUME NEW w \in Workers, "dataset" \in DOMAIN job,
           Delivery(w) \/ Open(w, <<>>) \/ MarkFailed(w) \/ MarkFailedLost(w)
    PROVE  "dataset" \in DOMAIN job' /\ job'.dataset = job.dataset
<1>1. UNCHANGED job \/ job' = [job EXCEPT !.status = "running"]
                    \/ job' = [job EXCEPT !.status = "failed"]
  BY DEF Delivery, Take, Ack, Crash, Kill, Open, MarkFailed, MarkFailedLost
<1> QED BY <1>1

-----------------------------------------------------------------------------
\* A document is written by SaveDocuments only: it keeps the rows of other
\* markers and adds one row for each marker of its own.
LEMMA StepKeepsOneDocument == OneDocumentPerRemote /\ [Next]_vars => OneDocumentPerRemote'
<1> SUFFICES ASSUME OneDocumentPerRemote, [Next]_vars PROVE OneDocumentPerRemote'
  OBVIOUS
<1>1. ASSUME UNCHANGED docs PROVE OneDocumentPerRemote'
  BY <1>1 DEF OneDocumentPerRemote
<1>2. ASSUME NEW w \in Workers, SaveDocuments(w) PROVE OneDocumentPerRemote'
  <2> DEFINE l == Loc(w)
             markers == {l.ids[i] : i \in {j \in DOMAIN Files : l.files[j] = "ready"}}
             fresh == {[marker |-> k, dataset |-> l.dataset, copy |-> remote.uploads] : k \in markers}
  <2>1. docs' = docs \/ docs' = KeepDocs(markers) \cup fresh
    BY <1>2 DEF SaveDocuments
  <2>2. \A d \in KeepDocs(markers) : d \in docs /\ d.marker \notin markers
    BY DEF KeepDocs
  <2>3. \A d \in fresh : /\ d.marker \in markers
                         /\ d = [marker |-> d.marker, dataset |-> l.dataset, copy |-> remote.uploads]
    OBVIOUS
  <2>4. \A d, e \in fresh : d.marker = e.marker => d = e
    BY <2>3
  <2> HIDE DEF markers, fresh
  <2>5. \A d, e \in KeepDocs(markers) \cup fresh : d.marker = e.marker => d = e
    BY <2>2, <2>3, <2>4 DEF OneDocumentPerRemote
  <2> QED BY <1>1, <2>1, <2>5 DEF OneDocumentPerRemote
<1>3. ASSUME NEW c \in Clients, Handlers(c) PROVE UNCHANGED docs
  BY <1>3 DEF Handlers, StartIngest, DispatchIngest, DispatchIngestFails, NoteTaskId, ingestVars
<1>4. ASSUME NEW w \in Workers, Work(w) PROVE UNCHANGED docs \/ SaveDocuments(w)
  BY <1>4 DEF Work, ChooseKb, CreateKb, NoteKb, EnsureDataset, UploadFile, ParseDocuments,
              BuildQuestions, AddBatch, SendBatch, BatchLost, Complete, Fails, ingestVars
<1>5. CASE UNCHANGED vars
  BY <1>1, <1>5 DEF vars, ingestVars
<1> QED BY <1>1, <1>2, <1>3, <1>4, <1>5 DEF Next

\* However often the message of an ingestion is delivered, and wherever a
\* delivery is cut off, one document of the remote system has at most one
\* local document (api_ingest_tasks.py:315).
THEOREM OneDocumentPerRemoteThm == Spec => []OneDocumentPerRemote
<1>1. Init => OneDocumentPerRemote
  BY DEF Init, OneDocumentPerRemote
<1> QED BY <1>1, StepKeepsOneDocument, PTL DEF Spec

-----------------------------------------------------------------------------
(* One dataset.  OneDatasetPerIngest is not inductive: a delivery that     *)
(* finds no dataset in the row of the job makes one, so the row has to     *)
(* name the dataset from the step that makes it.                           *)

DatasetStatus == {"importing", "ready"}

\* the row of the job names the dataset that was made, if there is one
DatasetNoted ==
    /\ "dataset" \in DOMAIN job
    /\ datasets \in Seq(DatasetStatus)
    /\ job.dataset = Len(datasets)
    /\ Len(datasets) <= 1

\* a step that leaves the datasets and the name of the dataset alone
LEMMA QuietStep ==
    ASSUME DatasetNoted, UNCHANGED datasets,
           "dataset" \in DOMAIN job', job'.dataset = job.dataset
    PROVE  DatasetNoted'
BY DEF DatasetNoted

\* the status of a dataset changes, the datasets stay the same
LEMMA StatusStep ==
    ASSUME DatasetNoted, NEW i, NEW s \in DatasetStatus, datasets' = [datasets EXCEPT ![i] = s],
           "dataset" \in DOMAIN job', job'.dataset = job.dataset
    PROVE  DatasetNoted'
<1>1. datasets \in [1 .. Len(datasets) -> DatasetStatus]
  BY LenProperties DEF DatasetNoted
<1>2. CASE i \in 1 .. Len(datasets)
  BY <1>2, ExceptSeq DEF DatasetNoted
<1>3. CASE i \notin 1 .. Len(datasets)
  <2>1. datasets' = datasets
    BY <1>1, <1>3
  <2> QED BY <2>1, QuietStep
<1> QED BY <1>2, <1>3

LEMMA HandlerKeepsDataset ==
    ASSUME DatasetNoted, NEW c \in Clients, Handlers(c) PROVE DatasetNoted'
<1> USE DEF ingestVars
<1>1. CASE StartIngest(c)
  <2>1. "dataset" \in DOMAIN job' /\ job'.dataset = job.dataset /\ UNCHANGED datasets
    BY <1>1 DEF StartIngest, DatasetNoted
  <2> QED BY <2>1, QuietStep
<1>2. CASE DispatchIngest(c) BY <1>2, QuietStep DEF DispatchIngest, DatasetNoted
<1>3. CASE DispatchIngestFails(c) BY <1>3 DEF DispatchIngestFails, DatasetNoted
<1>4. CASE NoteTaskId(c) BY <1>4 DEF NoteTaskId, DatasetNoted
<1> QED BY <1>1, <1>2, <1>3, <1>4 DEF Handlers

\* the step that makes the dataset is the step that names it
LEMMA EnsureKeepsDataset ==
    ASSUME DatasetNoted, NEW w \in Workers, EnsureDataset(w) PROVE DatasetNoted'
<1>1. CASE job.dataset = 0
  <2>1. datasets' = Append(datasets, "importing") /\ job' = [job EXCEPT !.dataset = Len(datasets')]
    BY <1>1 DEF EnsureDataset
  <2>2. datasets' \in Seq(DatasetStatus) /\ Len(datasets') = 1
    <3>1. datasets \in Seq(DatasetStatus) /\ Len(datasets) = 0
      BY <1>1 DEF DatasetNoted
    <3>2. "importing" \in DatasetStatus
      BY DEF DatasetStatus
    <3>3. /\ Append(datasets, "importing") \in Seq(DatasetStatus)
          /\ Len(Append(datasets, "importing")) = Len(datasets) + 1
      BY <3>1, <3>2, AppendProperties, Zenon
    <3> QED BY <2>1, <3>1, <3>3
  <2>3. "dataset" \in DOMAIN job' /\ job'.dataset = Len(datasets')
    BY <2>1 DEF DatasetNoted
  <2> QED BY <2>2, <2>3 DEF DatasetNoted
<1>2. CASE job.dataset # 0
  <2>1. datasets' = [datasets EXCEPT ![job.dataset] = "importing"] /\ UNCHANGED job
    BY <1>2 DEF EnsureDataset
  <2>2. "dataset" \in DOMAIN job' /\ job'.dataset = job.dataset
    BY <2>1 DEF DatasetNoted
  <2>3. "importing" \in DatasetStatus
    BY DEF DatasetStatus
  <2> QED BY <2>1, <2>2, <2>3, StatusStep, Zenon
<1> QED BY <1>1, <1>2

\* the steps that store what the session holds
LEMMA StoreKeepsDataset ==
    ASSUME DatasetNoted, NEW w \in Workers, AddBatch(w) \/ Complete(w) PROVE DatasetNoted'
<1>1. UNCHANGED job \/ job' = [job EXCEPT !.status = "completed"]
  BY DEF AddBatch, Complete
<1>2. "dataset" \in DOMAIN job' /\ job'.dataset = job.dataset
  BY <1>1 DEF DatasetNoted
<1>3. CASE Loc(w).ready
  <2>1. datasets' = [datasets EXCEPT ![Loc(w).dataset] = "ready"]
    BY <1>3 DEF AddBatch, Complete, StoreQuestions
  <2>2. "ready" \in DatasetStatus
    BY DEF DatasetStatus
  <2> QED BY <1>2, <2>1, <2>2, StatusStep, Zenon
<1>4. CASE ~Loc(w).ready
  <2>1. UNCHANGED datasets
    BY <1>4 DEF AddBatch, Complete, StoreQuestions
  <2> QED BY <1>2, <2>1, QuietStep
<1> QED BY <1>3, <1>4

LEMMA WorkKeepsDataset ==
    ASSUME DatasetNoted, NEW w \in Workers, Work(w) PROVE DatasetNoted'
<1> USE DEF ingestVars
<1>1. CASE (Delivery(w) \/ Open(w, <<>>) \/ MarkFailed(w) \/ MarkFailedLost(w)) /\ UNCHANGED ingestVars
  BY <1>1, SharedStepKeepsDataset, QuietStep DEF DatasetNoted
<1>2. CASE ChooseKb(w) \/ NoteKb(w) \/ ParseDocuments(w)
  BY <1>2 DEF ChooseKb, NoteKb, ParseDocuments, DatasetNoted
<1>3. CASE UploadFile(w)
  <2>1. UNCHANGED datasets /\ "dataset" \in DOMAIN job' /\ job'.dataset = job.dataset
    BY <1>3 DEF UploadFile, DatasetNoted
  <2> QED BY <2>1, QuietStep
<1>4. CASE EnsureDataset(w) BY <1>4, EnsureKeepsDataset
<1>5. CASE AddBatch(w) \/ Complete(w) BY <1>5, StoreKeepsDataset
<1>6. CASE CreateKb(w) \/ SaveDocuments(w) \/ BuildQuestions(w) \/ SendBatch(w) \/ BatchLost(w) \/ Fails(w)
  <2>1. UNCHANGED <<job, datasets>>
    BY <1>6 DEF CreateKb, SaveDocuments, BuildQuestions, SendBatch, BatchLost, Fails, Raise, DbError
  <2> QED BY <2>1, QuietStep DEF DatasetNoted
<1> QED BY <1>1, <1>2, <1>3, <1>4, <1>5, <1>6 DEF Work

\* However often the message of an ingestion is delivered, and wherever a
\* delivery is cut off, one ingestion makes one dataset: the commit that makes
\* it also writes its id, which every later delivery reads
\* (api_ingest_tasks.py:102).
THEOREM OneDatasetPerIngestThm == Spec => []OneDatasetPerIngest
<1>1. Init => DatasetNoted
  BY DEF Init, DatasetNoted
<1>2. DatasetNoted /\ [Next]_vars => DatasetNoted'
  <2> SUFFICES ASSUME DatasetNoted, [Next]_vars PROVE DatasetNoted'
    OBVIOUS
  <2>1. CASE UNCHANGED vars
    BY <2>1, QuietStep DEF vars, taskVars, ingestVars, DatasetNoted
  <2> QED BY <2>1, HandlerKeepsDataset, WorkKeepsDataset DEF Next
<1>3. DatasetNoted => OneDatasetPerIngest
  BY DEF DatasetNoted, OneDatasetPerIngest
<1> QED BY <1>1, <1>2, <1>3, PTL DEF Spec

-----------------------------------------------------------------------------
(* A completed ingestion has left its dataset ready.  This rests on there  *)
(* being one message: while a delivery works on the dataset no other has   *)
(* completed, and the next one says running before it touches it.          *)

Shape ==
    /\ "status" \in DOMAIN job
    /\ DOMAIN frame = Workers /\ \A w \in Workers : DOMAIN frame[w] = {"pc", "mid", "loc"}
    /\ DOMAIN call = Clients /\ \A c \in Clients : DOMAIN call[c] = {"op", "seen"}

Busy(w) == frame[w].pc # "idle"
\* the delivery has said running
Begun(w) == frame[w].pc \notin {"idle", "open", "ack"}

\* an ingestion is sent once and its message is in one place
OneMessage ==
    /\ \A m, n \in queue : m = n
    /\ \A v, w \in Workers : Busy(v) /\ Busy(w) => v = w
    /\ \A w \in Workers : Busy(w) => queue = {}
    /\ \A c \in Clients : call[c].op = "dispatch" =>
          /\ queue = {} /\ \A w \in Workers : ~Busy(w)
          /\ \A d \in Clients : call[d].op = "dispatch" => d = c
    /\ job.status = "none" => /\ queue = {} /\ \A w \in Workers : ~Busy(w)
                              /\ \A c \in Clients : call[c].op # "dispatch"

\* a task past EnsureDataset works on the dataset of the row
WorksOn(w) ==
    /\ frame[w].pc \in {"upload", "chunks", "questions", "batch", "send", "complete"} =>
          /\ "dataset" \in DOMAIN frame[w].loc
          /\ frame[w].loc.dataset = job.dataset /\ job.dataset # 0
    /\ frame[w].pc \in {"batch", "send", "complete"} =>
          /\ {"made", "ready"} \subseteq DOMAIN frame[w].loc
          /\ frame[w].loc.ready

CompletedRests ==
    job.status = "completed" =>
        datasets[job.dataset] = "ready" /\ \A w \in Workers : ~Begun(w)

IngestInv ==
    /\ DatasetNoted /\ Shape /\ OneMessage
    /\ \A w \in Workers : WorksOn(w)
    /\ CompletedRests

\* a move of one task
LEMMA GotoMoves ==
    ASSUME Shape, NEW w \in Workers, NEW pc, NEW loc, Goto(w, pc, loc)
    PROVE  /\ DOMAIN frame' = Workers
           /\ \A v \in Workers : DOMAIN frame'[v] = {"pc", "mid", "loc"}
           /\ frame'[w].pc = pc /\ frame'[w].loc = loc
           /\ \A v \in Workers \ {w} : frame'[v] = frame[v]
BY DEF Shape, Goto

\* a step of the busy worker: the others have no message
LEMMA BusyStep ==
    ASSUME IngestInv, DatasetNoted', NEW w \in Workers, Busy(w), UNCHANGED <<queue, call>>,
           "status" \in DOMAIN job', job'.status # "none",
           NEW pc, NEW loc, Goto(w, pc, loc), pc # "idle",
           pc \in {"upload", "chunks", "questions", "batch", "send", "complete"} =>
              "dataset" \in DOMAIN loc /\ loc.dataset = job'.dataset /\ job'.dataset # 0,
           pc \in {"batch", "send", "complete"} =>
              {"made", "ready"} \subseteq DOMAIN loc /\ loc.ready,
           job'.status = "completed" => datasets'[job'.dataset] = "ready" /\ pc = "ack"
    PROVE  IngestInv'
<1>1. /\ DOMAIN frame' = Workers
      /\ \A v \in Workers : DOMAIN frame'[v] = {"pc", "mid", "loc"}
      /\ frame'[w].pc = pc /\ frame'[w].loc = loc
      /\ \A v \in Workers \ {w} : frame'[v] = frame[v]
  BY GotoMoves DEF IngestInv
<1>2. Shape'
  BY <1>1 DEF IngestInv, Shape
<1>3. \A v \in Workers \ {w} : ~Busy(v) /\ ~Busy(v)'
  BY <1>1 DEF IngestInv, OneMessage, Busy
<1>4. OneMessage'
  BY <1>1, <1>3 DEF IngestInv, OneMessage, Busy
<1>5. WorksOn(w)'
  BY <1>1 DEF WorksOn
<1>6. \A v \in Workers \ {w} : WorksOn(v)' /\ ~Begun(v)'
  BY <1>3 DEF WorksOn, Busy, Begun
<1>7. CompletedRests'
  BY <1>1, <1>6 DEF CompletedRests, Begun
<1> QED BY <1>2, <1>4, <1>5, <1>6, <1>7 DEF IngestInv

\* a step of a task that has said running and does not complete
LEMMA BegunStep ==
    ASSUME IngestInv, DatasetNoted', NEW w \in Workers, Begun(w), UNCHANGED <<queue, call>>,
           "status" \in DOMAIN job', job'.status = job.status,
           NEW pc, NEW loc, Goto(w, pc, loc), pc # "idle",
           pc \in {"upload", "chunks", "questions", "batch", "send", "complete"} =>
              "dataset" \in DOMAIN loc /\ loc.dataset = job'.dataset /\ job'.dataset # 0,
           pc \in {"batch", "send", "complete"} =>
              {"made", "ready"} \subseteq DOMAIN loc /\ loc.ready
    PROVE  IngestInv'
<1>1. Busy(w) /\ job.status # "none" /\ job.status # "completed"
  BY DEF IngestInv, OneMessage, CompletedRests, Begun, Busy
<1> QED BY <1>1, BusyStep

\* a message is sent, or nothing happens to messages, tasks and datasets
LEMMA HandlersKeep ==
    ASSUME IngestInv, NEW c \in Clients, Handlers(c) PROVE IngestInv'
<1> USE DEF Finish, NoCall, ingestVars
<1>0. DatasetNoted'
  BY HandlerKeepsDataset DEF IngestInv
<1>1. UNCHANGED <<frame, datasets>>
  BY DEF Handlers, StartIngest, DispatchIngest, DispatchIngestFails, NoteTaskId
<1>2. /\ \A w \in Workers : (Busy(w)' <=> Busy(w)) /\ (Begun(w)' <=> Begun(w))
      /\ "status" \in DOMAIN job /\ "dataset" \in DOMAIN job
      /\ DOMAIN call = Clients /\ \A d \in Clients : DOMAIN call[d] = {"op", "seen"}
  BY <1>1 DEF Busy, Begun, IngestInv, Shape, DatasetNoted
<1>3. ASSUME job'.dataset = job.dataset PROVE \A w \in Workers : WorksOn(w)'
  BY <1>1, <1>3 DEF IngestInv, WorksOn
<1>4. CASE StartIngest(c)
  <2>1. CASE UNCHANGED <<job, call>>
    <3>1. UNCHANGED queue
      BY <1>4 DEF StartIngest
    <3> QED BY <1>0, <1>1, <1>2, <1>3, <2>1, <3>1
            DEF IngestInv, Shape, OneMessage, CompletedRests
  <2>2. CASE ~UNCHANGED <<job, call>>
    <3>1. /\ job.status = "none" /\ UNCHANGED queue
          /\ job' = [job EXCEPT !.status = "pending", !.files = [i \in DOMAIN Files |-> "pending"]]
          /\ call' = [call EXCEPT ![c] = [op |-> "dispatch", seen |-> "pending"]]
      BY <1>4, <2>2 DEF StartIngest
    <3>2. DOMAIN job' = DOMAIN job /\ job'.status = "pending" /\ job'.dataset = job.dataset
      BY <1>2, <3>1
    <3>3. Shape' /\ CompletedRests'
      BY <1>1, <1>2, <3>1, <3>2 DEF IngestInv, Shape, CompletedRests
    <3>4. OneMessage'
      BY <1>2, <3>1, <3>2 DEF IngestInv, OneMessage
    <3> QED BY <1>0, <1>3, <3>2, <3>3, <3>4 DEF IngestInv
  <2> QED BY <2>1, <2>2
<1>5. CASE DispatchIngest(c)
  <2>1. /\ call[c].op = "dispatch" /\ queue' = queue \cup {nextMid} /\ UNCHANGED job
        /\ call' = [call EXCEPT ![c].op = "note_id"]
    BY <1>5 DEF DispatchIngest
  <2>2. /\ queue = {} /\ \A w \in Workers : ~Busy(w)
        /\ \A d \in Clients : call[d].op = "dispatch" => d = c
        /\ job.status # "none"
    BY <2>1 DEF IngestInv, OneMessage
  <2>3. Shape' /\ CompletedRests'
    BY <1>1, <1>2, <2>1 DEF IngestInv, Shape, CompletedRests
  <2>4. OneMessage'
    BY <1>2, <2>1, <2>2 DEF IngestInv, OneMessage
  <2> QED BY <1>0, <1>3, <2>1, <2>3, <2>4 DEF IngestInv
<1>6. CASE DispatchIngestFails(c) \/ NoteTaskId(c)
  <2>1. /\ call[c].op \in {"dispatch", "note_id"} /\ UNCHANGED queue
        /\ call' = [call EXCEPT ![c] = [op |-> "none", seen |-> "none"]]
        /\ job' = [job EXCEPT !.status = "failed"] \/ UNCHANGED job
    BY <1>6 DEF DispatchIngestFails, NoteTaskId
  <2>2. /\ DOMAIN job' = DOMAIN job /\ job'.dataset = job.dataset
        /\ job'.status \in {job.status, "failed"}
    BY <1>2, <2>1
  <2>3. Shape' /\ CompletedRests'
    BY <1>1, <1>2, <2>1, <2>2 DEF IngestInv, Shape, CompletedRests
  <2>4. OneMessage'
    BY <1>2, <2>1, <2>2 DEF IngestInv, OneMessage
  <2> QED BY <1>0, <1>3, <2>2, <2>3, <2>4 DEF IngestInv
<1> QED BY <1>4, <1>5, <1>6 DEF Handlers

\* the message moves between the broker and a worker
LEMMA DeliveryKeeps ==
    ASSUME IngestInv, NEW w \in Workers, Delivery(w), UNCHANGED ingestVars PROVE IngestInv'
<1>0. DatasetNoted' /\ UNCHANGED <<job, call, datasets>> /\ Shape
  BY QuietStep DEF IngestInv, DatasetNoted, ingestVars, Delivery, Take, Ack, Crash, Kill
<1>1. /\ DOMAIN frame' = Workers /\ \A v \in Workers : DOMAIN frame'[v] = {"pc", "mid", "loc"}
      /\ frame'[w].pc \in {"open", "idle"}
      /\ \A v \in Workers \ {w} : frame'[v] = frame[v]
  <2>1. CASE Take(w)
    <3>1. PICK m \in queue : frame' = [frame EXCEPT ![w] = [IdleFrame EXCEPT !.pc = "open", !.mid = m]]
      BY <2>1 DEF Take
    <3> QED BY <1>0, <3>1 DEF Shape, IdleFrame
  <2>2. CASE Ack(w) \/ Crash(w) \/ Kill(w)
    <3>1. frame' = [frame EXCEPT ![w] = IdleFrame]
      BY <2>2 DEF Ack, Crash, Kill
    <3> QED BY <1>0, <3>1 DEF Shape, IdleFrame
  <2> QED BY <2>1, <2>2 DEF Delivery
<1>2. Shape'
  BY <1>0, <1>1 DEF Shape
<1>3. WorksOn(w)' /\ ~Begun(w)'
  BY <1>1 DEF WorksOn, Begun
<1>4. \A v \in Workers \ {w} : WorksOn(v)' /\ (Begun(v)' <=> Begun(v)) /\ (Busy(v)' <=> Busy(v))
  BY <1>0, <1>1 DEF IngestInv, WorksOn, Begun, Busy
<1>5. CompletedRests'
  BY <1>0, <1>3, <1>4 DEF IngestInv, CompletedRests
<1>6. OneMessage'
  <2>1. CASE Take(w)
    <3>1. PICK m \in queue : queue' = queue \ {m}
      BY <2>1 DEF Take
    <3>2. /\ queue' = {} /\ \A v \in Workers : ~Busy(v)
          /\ \A c \in Clients : call[c].op # "dispatch"
          /\ job.status # "none"
      BY <3>1 DEF IngestInv, OneMessage
    <3> QED BY <1>0, <1>4, <3>2 DEF OneMessage
  <2>2. CASE Ack(w) \/ Crash(w) \/ Kill(w)
    <3>1. /\ Busy(w) /\ frame' = [frame EXCEPT ![w] = IdleFrame]
          /\ queue' = queue \/ queue' = queue \cup {frame[w].mid}
      BY <2>2 DEF Ack, Crash, Kill, Busy, At
    <3>2. /\ queue = {} /\ \A c \in Clients : call[c].op # "dispatch"
          /\ job.status # "none"
          /\ \A v \in Workers \ {w} : ~Busy(v)
      BY <3>1 DEF IngestInv, OneMessage
    <3>3. \A v \in Workers : ~Busy(v)'
      BY <1>0, <1>4, <3>1, <3>2 DEF Shape, Busy, IdleFrame
    <3> QED BY <1>0, <3>1, <3>2, <3>3 DEF OneMessage
  <2> QED BY <2>1, <2>2 DEF Delivery
<1> QED BY <1>0, <1>2, <1>3, <1>4, <1>5, <1>6 DEF IngestInv

\* opening says running; failing says failed
LEMMA StatusKeeps ==
    ASSUME IngestInv, NEW w \in Workers, UNCHANGED ingestVars,
           Open(w, <<>>) \/ MarkFailed(w) \/ MarkFailedLost(w)
    PROVE  IngestInv'
<1>0. /\ "status" \in DOMAIN job /\ "dataset" \in DOMAIN job
      /\ DatasetNoted' /\ UNCHANGED <<queue, call, datasets>>
  BY SharedStepKeepsDataset, QuietStep
     DEF IngestInv, Shape, DatasetNoted, ingestVars, Open, MarkFailed, MarkFailedLost
<1>1. Busy(w)
  BY DEF Open, MarkFailed, MarkFailedLost, At, Busy
<1>2. job.status # "none"
  BY <1>1 DEF IngestInv, OneMessage
<1>3. CASE Open(w, <<>>)
  <2>1. CASE Exists /\ job' = [job EXCEPT !.status = "running"] /\ Goto(w, "begin", <<>>)
    <3>1. "status" \in DOMAIN job' /\ job'.status = "running"
      BY <1>0, <2>1
    <3> QED BY <1>0, <1>1, <2>1, <3>1, BusyStep
  <2>2. CASE UNCHANGED job /\ Goto(w, "ack", <<>>)
    <3>1. job'.status = "completed" => datasets'[job'.dataset] = "ready"
      BY <1>0, <2>2 DEF IngestInv, CompletedRests
    <3> QED BY <1>0, <1>1, <1>2, <2>2, <3>1, BusyStep
  <2> QED BY <1>3, <2>1, <2>2 DEF Open
<1>4. CASE MarkFailed(w) \/ MarkFailedLost(w)
  <2>1. job.status # "completed"
    BY <1>4 DEF IngestInv, CompletedRests, Begun, MarkFailed, MarkFailedLost
  <2>2. PICK pc \in {"ack", "except_fresh"} : Goto(w, pc, <<>>)
    BY <1>4 DEF MarkFailed, MarkFailedLost
  <2>3. "status" \in DOMAIN job' /\ job'.status \in {job.status, "failed"}
    BY <1>0, <1>4 DEF MarkFailed, MarkFailedLost
  <2> QED BY <1>0, <1>1, <1>2, <2>1, <2>2, <2>3, BusyStep
<1> QED BY <1>3, <1>4

\* the steps up to the dataset, and those that end in the except branch
LEMMA EarlySteps ==
    ASSUME IngestInv, DatasetNoted', NEW w \in Workers,
           ChooseKb(w) \/ CreateKb(w) \/ NoteKb(w) \/ BatchLost(w) \/ Fails(w)
    PROVE  IngestInv'
<1> USE DEF ingestVars
<1>1. Begun(w) /\ UNCHANGED <<queue, call>>
  BY DEF ChooseKb, CreateKb, NoteKb, BatchLost, Fails, Raise, DbError, At, Begun
<1>2. "status" \in DOMAIN job' /\ job'.status = job.status
  BY DEF IngestInv, Shape, ChooseKb, CreateKb, NoteKb, BatchLost, Fails, Raise, DbError
<1>3. \E pc \in {"dataset", "note_kb", "except"} : \E loc : Goto(w, pc, loc)
  BY DEF ChooseKb, CreateKb, NoteKb, BatchLost, Fails, Raise, DbError
<1>4. PICK pc \in {"dataset", "note_kb", "except"} : \E loc : Goto(w, pc, loc)
  BY <1>3
<1>5. PICK loc : Goto(w, pc, loc)
  BY <1>4
<1> QED BY <1>1, <1>2, <1>4, <1>5, BegunStep

LEMMA EnsureSteps ==
    ASSUME IngestInv, DatasetNoted', NEW w \in Workers, EnsureDataset(w) PROVE IngestInv'
<1>1. Begun(w) /\ UNCHANGED <<queue, call>>
  BY DEF EnsureDataset, At, Begun
<1>2. "status" \in DOMAIN job' /\ job'.status = job.status
  BY DEF IngestInv, Shape, EnsureDataset
<1>3. PICK d : /\ Goto(w, "upload", UploadFrom(d)) /\ d = job'.dataset /\ d # 0
  <2>1. CASE job.dataset = 0
    <3>1. /\ datasets' = Append(datasets, "importing") /\ job' = [job EXCEPT !.dataset = Len(datasets')]
          /\ Goto(w, "upload", UploadFrom(Len(datasets')))
      BY <2>1 DEF EnsureDataset
    <3>2. job'.dataset = Len(datasets')
      BY <3>1 DEF IngestInv, DatasetNoted
    <3>3. Len(datasets') # 0
      <4>1. datasets \in Seq(DatasetStatus) /\ "importing" \in DatasetStatus
        BY DEF IngestInv, DatasetNoted, DatasetStatus
      <4>2. Len(Append(datasets, "importing")) = Len(datasets) + 1 /\ Len(datasets) \in Nat
        BY <4>1, AppendProperties, LenProperties, Zenon
      <4> QED BY <3>1, <4>2
    <3> QED BY <3>1, <3>2, <3>3
  <2>2. CASE job.dataset # 0
    BY <2>2 DEF EnsureDataset
  <2> QED BY <2>1, <2>2
<1>4. "dataset" \in DOMAIN UploadFrom(d) /\ UploadFrom(d).dataset = d
  BY DEF UploadFrom
<1> HIDE DEF UploadFrom
<1> QED BY <1>1, <1>2, <1>3, <1>4, BegunStep

\* the steps that keep the dataset they work on
LEMMA MiddleSteps ==
    ASSUME IngestInv, DatasetNoted', NEW w \in Workers,
           UploadFile(w) \/ ParseDocuments(w) \/ SaveDocuments(w) \/ BuildQuestions(w)
    PROVE  IngestInv'
<1> USE DEF ingestVars
<1> DEFINE l == frame[w].loc
<1>1. /\ Begun(w) /\ UNCHANGED <<queue, call>>
      /\ frame[w].pc \in {"upload", "chunks", "questions"}
  BY DEF UploadFile, ParseDocuments, SaveDocuments, BuildQuestions, At, Begun
<1>2. "dataset" \in DOMAIN l /\ l.dataset = job.dataset /\ job.dataset # 0
  BY <1>1 DEF IngestInv, WorksOn
<1>3. "status" \in DOMAIN job' /\ job'.status = job.status /\ job'.dataset = job.dataset
  BY DEF IngestInv, Shape, DatasetNoted, UploadFile, ParseDocuments, SaveDocuments, BuildQuestions
<1>4. ASSUME NEW loc, NEW pc \in {"upload", "chunks", "questions"}, Goto(w, pc, loc),
             "dataset" \in DOMAIN loc, loc.dataset = l.dataset
      PROVE  IngestInv'
  BY <1>1, <1>2, <1>3, <1>4, BegunStep
<1>5. CASE UploadFile(w)
  <2>1. PICK fs, ids : \/ Goto(w, "upload", [l EXCEPT !.at = @ + 1, !.ids[l.at] = ids, !.files = fs])
                       \/ Goto(w, "upload", [l EXCEPT !.at = @ + 1, !.files = fs])
    BY <1>5 DEF UploadFile, Loc
  <2>2. CASE Goto(w, "upload", [l EXCEPT !.at = @ + 1, !.ids[l.at] = ids, !.files = fs])
    <3> DEFINE loc == [l EXCEPT !.at = @ + 1, !.ids[l.at] = ids, !.files = fs]
    <3>1. "dataset" \in DOMAIN loc /\ loc.dataset = l.dataset
      BY <1>2
    <3> QED BY <1>4, <2>2, <3>1
  <2>3. CASE Goto(w, "upload", [l EXCEPT !.at = @ + 1, !.files = fs])
    <3> DEFINE loc == [l EXCEPT !.at = @ + 1, !.files = fs]
    <3>1. "dataset" \in DOMAIN loc /\ loc.dataset = l.dataset
      BY <1>2
    <3> QED BY <1>4, <2>3, <3>1
  <2> QED BY <2>1, <2>2, <2>3
<1>6. CASE ParseDocuments(w)
  <2>1. PICK seen : Goto(w, "chunks", [l EXCEPT !.files = seen])
    BY <1>6 DEF ParseDocuments, Loc
  <2>2. "dataset" \in DOMAIN [l EXCEPT !.files = seen] /\ [l EXCEPT !.files = seen].dataset = l.dataset
    BY <1>2
  <2> QED BY <1>4, <2>1, <2>2
<1>7. CASE SaveDocuments(w)
  BY <1>2, <1>4, <1>7 DEF SaveDocuments, Loc
<1>8. CASE BuildQuestions(w)
  <2>1. PICK pc \in {"batch", "complete"}, n \in {0, 1} :
           Goto(w, pc, [dataset |-> l.dataset, made |-> n, ready |-> TRUE])
    BY <1>8 DEF BuildQuestions, Loc
  <2> DEFINE loc == [dataset |-> l.dataset, made |-> n, ready |-> TRUE]
  <2>2. {"dataset", "made", "ready"} \subseteq DOMAIN loc /\ loc.dataset = l.dataset /\ loc.ready
    OBVIOUS
  <2> HIDE DEF loc
  <2> QED BY <1>1, <1>2, <1>3, <2>1, <2>2, BegunStep DEF loc
<1> QED BY <1>5, <1>6, <1>7, <1>8

\* ready is written with the questions, before or with completed
LEMMA LateSteps ==
    ASSUME IngestInv, DatasetNoted', NEW w \in Workers, AddBatch(w) \/ SendBatch(w) \/ Complete(w)
    PROVE  IngestInv'
<1> DEFINE l == frame[w].loc
<1>1. /\ Begun(w) /\ UNCHANGED <<queue, call>>
      /\ frame[w].pc \in {"batch", "send", "complete"}
  BY DEF AddBatch, SendBatch, Complete, At, Begun
<1>2. /\ {"dataset", "made", "ready"} \subseteq DOMAIN l /\ l.ready
      /\ l.dataset = job.dataset /\ job.dataset # 0
  BY <1>1 DEF IngestInv, WorksOn
<1>3. "status" \in DOMAIN job /\ job.status # "none"
  BY <1>1 DEF IngestInv, Shape, OneMessage, Begun, Busy
<1>4. CASE AddBatch(w)
  <2> DEFINE loc == [l EXCEPT !.made = 0]
  <2>1. Goto(w, "send", loc) /\ UNCHANGED job
    BY <1>4 DEF AddBatch, Loc
  <2>2. {"dataset", "made", "ready"} \subseteq DOMAIN loc /\ loc.dataset = l.dataset /\ loc.ready
    BY <1>2
  <2> HIDE DEF loc
  <2> QED BY <1>1, <1>2, <1>3, <2>1, <2>2, BegunStep
<1>5. CASE SendBatch(w)
  BY <1>1, <1>2, <1>3, <1>5, BegunStep DEF SendBatch, Loc
<1>6. CASE Complete(w)
  <2>1. /\ Goto(w, "ack", <<>>) /\ job' = [job EXCEPT !.status = "completed"]
        /\ datasets' = [datasets EXCEPT ![l.dataset] = "ready"]
    BY <1>2, <1>6 DEF Complete, StoreQuestions, Loc
  <2>2. "status" \in DOMAIN job' /\ job'.status = "completed" /\ job'.dataset = job.dataset
    BY <1>3, <2>1 DEF IngestInv, DatasetNoted
  <2>3. job.dataset \in DOMAIN datasets
    <3>1. DOMAIN datasets = 1 .. Len(datasets) /\ job.dataset = Len(datasets) /\ Len(datasets) \in Nat
      BY LenProperties DEF IngestInv, DatasetNoted
    <3> QED BY <1>2, <3>1
  <2>4. datasets'[job'.dataset] = "ready"
    BY <1>2, <2>1, <2>2, <2>3
  <2> QED BY <1>1, <2>1, <2>2, <2>4, BusyStep DEF Begun, Busy
<1> QED BY <1>4, <1>5, <1>6

LEMMA InitiallyIngest == Init => IngestInv
<1> SUFFICES ASSUME Init PROVE IngestInv
  OBVIOUS
<1>1. DatasetNoted /\ Shape /\ CompletedRests
  BY DEF Init, QueueInit, IdleFrame, NoCall, DatasetNoted, Shape, CompletedRests
<1>2. OneMessage /\ \A w \in Workers : WorksOn(w)
  BY DEF Init, QueueInit, IdleFrame, NoCall, OneMessage, WorksOn, Busy
<1> QED BY <1>1, <1>2 DEF IngestInv

\* A completed ingestion has left a dataset that can be used, however often its
\* message was delivered and whatever marked its row failed meanwhile
\* (api_ingest_tasks.py:244).
THEOREM CompletedIsReadyThm == Spec => []CompletedIsReady
<1>1. IngestInv /\ [Next]_vars => IngestInv'
  <2> SUFFICES ASSUME IngestInv, [Next]_vars PROVE IngestInv'
    OBVIOUS
  <2>1. CASE UNCHANGED vars
    BY <2>1, QuietStep DEF vars, taskVars, ingestVars, IngestInv, DatasetNoted, Shape, OneMessage,
                           WorksOn, CompletedRests, Busy, Begun
  <2>2. ASSUME NEW w \in Workers, Work(w) PROVE IngestInv'
    <3>1. DatasetNoted'
      BY <2>2, WorkKeepsDataset DEF IngestInv
    <3> QED BY <2>2, <3>1, DeliveryKeeps, StatusKeeps, EarlySteps, EnsureSteps, MiddleSteps, LateSteps
            DEF Work
  <2> QED BY <2>1, <2>2, HandlersKeep DEF Next
<1>2. IngestInv => CompletedIsReady
  BY DEF IngestInv, CompletedRests, CompletedIsReady
<1> QED BY InitiallyIngest, <1>1, <1>2, PTL DEF Spec
=============================================================================
