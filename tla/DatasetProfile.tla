--------------------------- MODULE DatasetProfile ---------------------------
(***************************************************************************)
(* Profiles of a dataset: the training data profile (run inside a request  *)
(* or as training_data_profile_task, with an optional analysis by an LLM)  *)
(* and the evaluation set profile (always inside a request).  run_profile  *)
(* commits after every stage.  The sample imports replace the records of   *)
(* the dataset and then make a profile of them; a dataset that has QA      *)
(* records only is profiled from them, an evaluation set after a backfill. *)
(*                                                                         *)
(* The dataset exists, and one of its profiles is followed: the first that *)
(* is made.  A later import makes and runs a profile of its own, of which  *)
(* only what it does to the records is kept.                               *)
(***************************************************************************)
EXTENDS TaskQueue

CONSTANTS
    NRecords,     \* records of a sample file
    SyncLimit     \* SYNC_PROFILE_LIMIT

VARIABLES
    records,      \* profile records of the dataset: [import, seq]
    nextImport,
    qa,           \* the dataset has QA records
    rivals,       \* history: the clients whose latest import overlapped another
    overlap       \* history: so did the last import to end

profVars == <<records, nextImport, qa, rivals, overlap>>

\* the records one import inserts; 0 stands for an upload of the user
Sample(i) == {[import |-> i, seq |-> s] : s \in 1..NRecords}

\* kind: which of the two; llm: llm_mode is on, for a sample or in full; analysis: the status of llm_analysis
Init ==
    /\ QueueInit
    /\ \E k \in {"training", "evalset"}, m \in {"off", "on"} :
          /\ k = "evalset" => m = "off"
          /\ job = [status |-> "none", kind |-> k, llm |-> m, analysis |-> "none", progress |-> 0]
    /\ records \in {{}, Sample(0)} /\ nextImport = 1
    /\ qa \in BOOLEAN /\ rivals = {} /\ overlap = FALSE

\* where an actor is in run_profile: a request handler or a worker
Stage(a) == IF a \in Clients THEN call[a].op ELSE frame[a].pc
Move(a, s) ==
    IF a \in Clients
    THEN call' = [call EXCEPT ![a].op = s] /\ UNCHANGED frame
    ELSE Goto(a, IF s = "none" THEN "ack" ELSE s, <<>>) /\ UNCHANGED call
To(c, s, seen) == call' = [call EXCEPT ![c] = [op |-> s, seen |-> seen]] /\ UNCHANGED frame

\* the profile an actor runs is the one that is followed, and what it writes to it
Followed(a) == a \in Clients => call[a].seen # "other"
Write(a, row) == job' = IF Followed(a) THEN row ELSE job
Gone(a) == Followed(a) /\ ~Exists

ReportProgress(p) == IF job.progress > p THEN job.progress ELSE p

-----------------------------------------------------------------------------
(* Handlers *)

Request(c) ==
    /\ call[c].op = "none" /\ requests < MaxRequests
    /\ requests' = requests + 1

\* between the deletion of the old records and the commit of the new ones
Importing == {"replace", "insert", "backfill"}
BeginsImport(c) ==
    LET others == {d \in Clients \ {c} : call[d].op \in Importing}
    IN  /\ rivals' = IF others = {} THEN rivals \ {c} ELSE rivals \cup others \cup {c}
        /\ UNCHANGED overlap
EndsImport(c) == overlap' = (c \in rivals) /\ UNCHANGED rivals

\* the profile of an import
NewProfile(c) ==
    IF job.status = "none"
    THEN job' = [job EXCEPT !.status = "pending"] /\ To(c, "start", "followed")
    ELSE UNCHANGED job /\ To(c, "start", "other")

\* import_ultradata_sample is one transaction: its DELETE finds the records
\* that are committed when it runs
ImportTraining(c) ==
    /\ job.kind = "training" /\ Request(c)
    /\ To(c, "replace", records) /\ BeginsImport(c)
    /\ UNCHANGED <<job, queue, nextMid, faults, records, nextImport, qa>>

ReplaceRecords(c) ==
    /\ call[c].op = "replace"
    /\ \/ /\ records' = (records \ call[c].seen) \cup Sample(nextImport)
          /\ nextImport' = nextImport + 1
          /\ NewProfile(c) /\ EndsImport(c) /\ UNCHANGED faults
       \/ /\ Fault("db")
          /\ To(c, "none", "none") /\ UNCHANGED <<job, records, nextImport, rivals, overlap>>
    /\ UNCHANGED <<queue, nextMid, requests, qa>>

\* mutant of ImportEvalSet
ImportEvalSetAppends(c) ==
    /\ job.kind = "evalset" /\ Request(c)
    /\ To(c, "insert", "none") /\ BeginsImport(c)
    /\ UNCHANGED <<job, queue, nextMid, faults, nextImport, records, qa>>

\* import_sample, import_records(replace=True): clear and commit, then insert
ImportEvalSet(c) ==
    /\ job.kind = "evalset" /\ Request(c)
    /\ records' = {}
    /\ To(c, "insert", "none") /\ BeginsImport(c)
    /\ UNCHANGED <<job, queue, nextMid, faults, nextImport, qa>>

\* a profile row whose records are there: a large training data set goes to
\* Celery, a large evaluation set is refused after its row was committed
AddProfile(c, total) ==
    IF job.status # "none" THEN UNCHANGED job /\ To(c, "none", "none")
    ELSE /\ job' = [job EXCEPT !.status = "pending"]
         /\ IF total <= SyncLimit THEN To(c, "start", "followed")
            ELSE To(c, IF job.kind = "training" THEN "run" ELSE "none", "pending")

\* batches of 2000 are committed; an error leaves those before it
InsertRecords(c) ==
    /\ call[c].op \in {"insert", "backfill"}
    /\ nextImport' = nextImport + 1
    /\ \/ /\ records' = records \cup Sample(nextImport) /\ UNCHANGED faults
          /\ IF call[c].op = "insert" THEN NewProfile(c) ELSE AddProfile(c, NRecords)
       \/ /\ Fault("db")
          /\ \E part \in SUBSET Sample(nextImport) : records' = records \cup part
          /\ To(c, "none", "none") /\ UNCHANGED job
    /\ EndsImport(c)
    /\ UNCHANGED <<queue, nextMid, requests, qa>>

\* create_profile, both kinds: without records the QA records take their place,
\* when the profile runs or, for an evaluation set, in a backfill
CreateProfile(c) ==
    /\ job.status = "none" /\ (records # {} \/ qa) /\ Request(c)
    /\ IF records = {} /\ job.kind = "evalset"
       THEN To(c, "clear", "none") /\ UNCHANGED job
       ELSE AddProfile(c, Cardinality(records))
    /\ UNCHANGED <<queue, nextMid, faults, profVars>>

\* backfill_eval_records: import_records(replace=True) of the QA records
Backfill(c) ==
    /\ call[c].op = "clear"
    /\ records' = {}
    /\ To(c, "backfill", "none") /\ BeginsImport(c)
    /\ UNCHANGED <<job, queue, nextMid, requests, faults, nextImport, qa>>

\* rerun_profile; only the training profile refuses while running
Rerun(c) ==
    /\ Exists /\ (job.kind = "training" => job.status # "running")
    /\ Request(c)
    /\ To(c, "start", "followed")
    /\ UNCHANGED <<job, queue, nextMid, faults, profVars>>

DeleteProfile(c) ==
    /\ Exists /\ Request(c)
    /\ job' = [job EXCEPT !.status = "gone"]
    /\ UNCHANGED <<queue, nextMid, frame, call, faults, profVars>>

\* QA records of the dataset are added or deleted; nothing else deletes profile
\* records than an import
EditQa(c) ==
    /\ Request(c)
    /\ qa' = ~qa
    /\ UNCHANGED <<job, queue, nextMid, frame, call, faults, records, nextImport, rivals, overlap>>

-----------------------------------------------------------------------------
(* run_profile, in a handler or in a worker *)

\* running is committed, then progress 10
Start(a) ==
    /\ Stage(a) = "start" /\ ~Gone(a)
    /\ Write(a, [job EXCEPT !.status = "running", !.progress = ReportProgress(10)])
    /\ Move(a, "load")
    /\ UNCHANGED <<queue, nextMid, requests, faults, profVars>>

\* _load_rows turns to the QA records where a training data set has no others
NothingToLoad == records = {} /\ ~(job.kind = "training" /\ qa)

\* no rows is an error; progress 50 and 80 are commits of their own
Load(a) ==
    /\ Stage(a) = "load" /\ ~Gone(a) /\ ~NothingToLoad
    /\ Write(a, [job EXCEPT !.progress = ReportProgress(50)])
    /\ Move(a, "build")
    /\ UNCHANGED <<queue, nextMid, requests, faults, profVars>>

\* the profile and completed in one commit, before the analysis
Build(a) ==
    /\ Stage(a) = "build" /\ ~Gone(a)
    /\ Write(a, [job EXCEPT !.status = "completed", !.progress = ReportProgress(85)])
    /\ Move(a, IF job.llm = "off" THEN "final" ELSE "analyse")
    /\ UNCHANGED <<queue, nextMid, requests, faults, profVars>>

\* _run_llm_analysis: skipped without a model; a failure is recorded
Analyse(a) ==
    /\ Stage(a) = "analyse" /\ ~Gone(a)
    /\ \E r \in {"completed", "skipped", "failed"} : Write(a, [job EXCEPT !.analysis = r])
    /\ Move(a, "final")
    /\ UNCHANGED <<queue, nextMid, requests, faults, profVars>>

Final(a) ==
    /\ Stage(a) = "final" /\ ~Gone(a)
    /\ Write(a, [job EXCEPT !.progress = 100])
    /\ Move(a, "none")
    /\ UNCHANGED <<queue, nextMid, requests, faults, profVars>>

Stages == {"start", "load", "build", "analyse", "final"}

\* no rows: the handler records failed, a worker goes to its except branch
NoRows(a) ==
    /\ Stage(a) = "load" /\ ~Gone(a) /\ NothingToLoad
    /\ IF a \in Clients
       THEN Write(a, [job EXCEPT !.status = "failed"]) /\ To(a, "none", "none")
       ELSE Move(a, "except") /\ UNCHANGED job
    /\ UNCHANGED <<queue, nextMid, requests, faults, profVars>>

\* a commit fails, or finds no row: the handler commits failed on a session it
\* has not rolled back, which may raise again
CommitFails(a) ==
    /\ Stage(a) \in Stages
    /\ \/ Fault("db")
       \/ Gone(a) /\ UNCHANGED faults
    /\ IF a \in Clients
       THEN /\ To(a, "none", "none")
            /\ \/ UNCHANGED job
               \/ ~Gone(a) /\ Write(a, [job EXCEPT !.status = "failed"])
       ELSE Move(a, "except") /\ UNCHANGED job
    /\ UNCHANGED <<queue, nextMid, requests, profVars>>

Run(a) == Start(a) \/ Load(a) \/ Build(a) \/ Analyse(a) \/ Final(a) \/ NoRows(a) \/ CommitFails(a)

\* training_data_profile_task: the read of the row, then run_profile
OpenProfile(w) ==
    /\ At(w, "open")
    /\ Goto(w, IF Exists THEN "start" ELSE "ack", <<>>)
    /\ UNCHANGED <<job, queue, nextMid, call, requests, faults, profVars>>

Handlers(c) ==
    \/ ImportTraining(c) \/ ReplaceRecords(c) \/ ImportEvalSet(c) \/ InsertRecords(c)
    \/ CreateProfile(c) \/ Backfill(c) \/ Rerun(c) \/ DeleteProfile(c) \/ EditQa(c) \/ Run(c)
    \/ (StartTask(c) \/ Dispatch(c) \/ DispatchFails(c)) /\ UNCHANGED profVars

Work(w) ==
    \/ (Delivery(w) \/ MarkFailed(w) \/ MarkFailedLost(w)) /\ UNCHANGED profVars
    \/ OpenProfile(w) \/ Run(w)

Next == (\E c \in Clients : Handlers(c)) \/ (\E w \in Workers : Work(w))
vars == <<taskVars, profVars>>
Spec == Init /\ [][Next]_vars

-----------------------------------------------------------------------------
\* An import that is repeated, also after one that broke down midway, leaves
\* every sample in the dataset once (evalset/profile_runner.py:68,
\* training_data_profiles.py:132), unless the last one to end overlapped another:
\* then both cleared and both inserted.
ImportIsIdempotent ==
    ~overlap => \A r, s \in records : r.seq = s.seq => r = s
=============================================================================
