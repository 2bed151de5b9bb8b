------------------------------ MODULE DocParse ------------------------------
(***************************************************************************)
(* A document parsing batch: the source files in the object store, the     *)
(* handlers that create, evaluate and delete the batch, and doc_parse_task *)
(* with its two paths: the official MinerU API takes all files in one      *)
(* call, a custom service takes them one by one.  A parsed file becomes a  *)
(* Document, which outlives the batch.                                     *)
(***************************************************************************)
EXTENDS TaskQueue

CONSTANTS
    Files,     \* source files of the documents bucket
    NameOf     \* the file name of each; names of different objects may agree

VARIABLES
    stored,    \* objects in the bucket
    parsed,    \* the rows of doc_parse_results, by file
    saved      \* how many Documents were made of each file

parseVars == <<stored, parsed, saved>>

\* text: md_content is not empty; doc: doc_id is set
NewResult == [status |-> "pending", text |-> FALSE, doc |-> FALSE, scored |-> FALSE]

Init ==
    /\ QueueInit
    /\ job = [status |-> "none", provider |-> "custom", ok |-> 0, bad |-> 0, total |-> 0,
              summary |-> 0]
    /\ stored = Files
    /\ parsed = [f \in {} |-> NewResult]
    /\ saved = [f \in Files |-> 0]

-----------------------------------------------------------------------------
UploadSource(f) ==
    /\ f \notin stored /\ stored' = stored \cup {f}
    /\ UNCHANGED <<taskVars, parsed, saved>>

DeleteSource(c, f) ==
    /\ f \in stored /\ requests < MaxRequests /\ call[c] = NoCall
    /\ requests' = requests + 1
    /\ stored' = stored \ {f}
    /\ UNCHANGED <<job, queue, nextMid, frame, call, faults, parsed, saved>>

\* create_parse_batch: the objects are not looked up; the message follows
CreateBatch(c) ==
    /\ job.status = "none" /\ requests < MaxRequests /\ call[c] = NoCall
    /\ \E p \in {"mineru_api", "custom"}, chosen \in (SUBSET Files) \ {{}} :
          /\ job' = [job EXCEPT !.status = "pending", !.provider = p,
                                !.total = Cardinality(chosen)]
          /\ parsed' = [f \in chosen |-> NewResult]
    /\ call' = [call EXCEPT ![c] = [op |-> "dispatch", seen |-> "pending"]]
    /\ requests' = requests + 1
    /\ UNCHANGED <<queue, nextMid, frame, faults, stored, saved>>

RequestDelete(c) ==
    /\ job.status # "running" /\ Receive(c, "delete")
    /\ UNCHANGED parseVars

\* delete_parse_batch: the results go with the batch, the Documents stay
DeleteBatch(c) ==
    /\ call[c].op = "delete"
    /\ job' = [job EXCEPT !.status = "gone"]
    /\ parsed' = [f \in {} |-> NewResult]
    /\ Finish(c)
    /\ UNCHANGED <<queue, nextMid, frame, requests, faults, stored, saved>>

Scorable == {f \in DOMAIN parsed : parsed[f].status = "success" /\ parsed[f].text}

\* evaluate_parse_batch, compute_batch_summary: the number of scored files
EvaluateBatch(c) ==
    /\ Exists /\ job.status # "running" /\ call[c] = NoCall /\ requests < MaxRequests
    /\ requests' = requests + 1
    /\ parsed' = [f \in DOMAIN parsed |->
                     IF f \in Scorable THEN [parsed[f] EXCEPT !.scored = TRUE] ELSE parsed[f]]
    /\ job' = IF Scorable = {} THEN job
              ELSE [job EXCEPT !.summary = Cardinality({f \in DOMAIN parsed : parsed'[f].scored})]
    /\ UNCHANGED <<queue, nextMid, frame, call, faults, stored, saved>>

-----------------------------------------------------------------------------
Outcomes == {"text", "empty", "failed"}
Parsed(r, o) == IF o = "failed" THEN [r EXCEPT !.status = "failed"]
                ELSE [r EXCEPT !.status = "success", !.text = (o = "text")]

\* the result rows as the session will flush them
Begin(w) ==
    /\ At(w, "begin")
    /\ Goto(w, IF job.provider = "mineru_api" THEN "load_all" ELSE "next",
            [todo |-> DOMAIN parsed, at |-> {}, rows |-> parsed])
    /\ UNCHANGED <<job, queue, nextMid, call, requests, faults, parseVars>>

\* a commit of this session; the batch may have been deleted
Flush(rows) == Exists /\ parsed' = rows

\* mutant of Unparsed
UnparsedAll(w) == Loc(w).todo

\* custom service: files that are not yet parsed, in any order
Unparsed(w) == {f \in Loc(w).todo : Loc(w).rows[f].status # "success"}

NextFile(w, f) ==
    /\ At(w, "next") /\ f \in Unparsed(w)
    /\ \/ /\ f \in stored
          /\ Flush([Loc(w).rows EXCEPT ![f].status = "running"])
          /\ Goto(w, "parse", [Loc(w) EXCEPT !.at = {f}, !.rows = parsed'])
       \/ /\ Flush([Loc(w).rows EXCEPT ![f].status = "failed"])
          /\ Goto(w, "next", [Loc(w) EXCEPT !.todo = @ \ {f}, !.rows = parsed'])
    /\ UNCHANGED <<job, queue, nextMid, call, requests, faults, stored, saved>>

ParseFile(w) ==
    /\ At(w, "parse")
    /\ \E f \in Loc(w).at, o \in Outcomes :
          /\ Flush([Loc(w).rows EXCEPT ![f] = Parsed(@, o)])
          /\ Goto(w, "next", [Loc(w) EXCEPT !.todo = @ \ {f}, !.at = {}, !.rows = parsed'])
    /\ UNCHANGED <<job, queue, nextMid, call, requests, faults, stored, saved>>

\* official API: every file is loaded again, whatever its status, and
\* file_map keeps the last file of a name
OnePerName(fs) == {k \in SUBSET fs : \A f \in fs :
                      Cardinality({g \in k : NameOf[g] = NameOf[f]}) = 1}

LoadAll(w) ==
    /\ At(w, "load_all")
    /\ \E bad \in SUBSET Loc(w).todo, kept \in SUBSET Loc(w).todo :
          /\ Loc(w).todo \ stored \subseteq bad
          /\ kept \in OnePerName(Loc(w).todo \ bad)
          /\ Goto(w, "batch", [Loc(w) EXCEPT !.at = kept,
                !.rows = [f \in Loc(w).todo |->
                             IF f \in bad THEN [@[f] EXCEPT !.status = "failed"] ELSE @[f]]])
    /\ UNCHANGED <<job, queue, nextMid, call, requests, faults, parseVars>>

\* on_progress commits, and with it the load failures noted so far
Progress(w) ==
    /\ At(w, "batch") /\ parsed # Loc(w).rows
    /\ Flush(Loc(w).rows)
    /\ UNCHANGED <<taskVars, stored, saved>>

ParseBatch(w) ==
    /\ At(w, "batch")
    /\ \E o \in [Loc(w).at -> Outcomes] :
          Goto(w, "next", [Loc(w) EXCEPT !.todo = {},
             !.rows = [f \in DOMAIN @ |-> IF f \in Loc(w).at THEN Parsed(@[f], o[f]) ELSE @[f]]])
    /\ UNCHANGED <<job, queue, nextMid, call, requests, faults, parseVars>>

\* mutant of ToSave
ToSaveAgain(rows) == {f \in DOMAIN rows : rows[f].status = "success" /\ rows[f].text}

\* successes with text and without a document
ToSave(rows) == {f \in DOMAIN rows : rows[f].status = "success" /\ rows[f].text /\ ~rows[f].doc}
Count(rows, s) == Cardinality({f \in DOMAIN rows : rows[f].status = s})

\* documents, counters and the final status are one commit
FinishBatch(w) ==
    /\ At(w, "next") /\ Unparsed(w) = {}
    /\ LET rows == Loc(w).rows
           new == ToSave(rows)
       IN /\ Flush([f \in DOMAIN rows |-> [rows[f] EXCEPT !.doc = @ \/ f \in new]])
          /\ saved' = [f \in Files |-> IF f \in new THEN saved[f] + 1 ELSE saved[f]]
          /\ job' = [job EXCEPT !.ok = Count(rows, "success"), !.bad = Count(rows, "failed"),
                         !.status = IF Count(rows, "success") > 0 THEN "completed" ELSE "failed"]
    /\ Goto(w, "ack", <<>>)
    /\ UNCHANGED <<queue, nextMid, call, requests, faults, stored>>

\* inside the try: a wrong model, an error of the official API, a database
\* error, or the rows of a deleted batch
Inside == {"begin", "next", "parse", "load_all", "batch"}
Fails(w) ==
    /\ \/ Raise(w, {"begin", "batch"})
       \/ DbError(w, Inside)
       \/ ~Exists /\ Raise(w, Inside)
    /\ UNCHANGED parseVars

Handlers(c) ==
    \/ CreateBatch(c) \/ RequestDelete(c) \/ DeleteBatch(c) \/ EvaluateBatch(c)
    \/ \E f \in Files : DeleteSource(c, f)
    \/ (Dispatch(c) \/ DelayFails(c)) /\ UNCHANGED parseVars

Work(w) ==
    \/ (Delivery(w) \/ Open(w, <<>>) \/ MarkFailed(w) \/ FailedLost(w)) /\ UNCHANGED parseVars
    \/ Begin(w) \/ \E f \in Files : NextFile(w, f)
    \/ ParseFile(w) \/ LoadAll(w) \/ Progress(w) \/ ParseBatch(w) \/ FinishBatch(w)
    \/ Fails(w)

Next == (\E c \in Clients : Handlers(c)) \/ (\E w \in Workers : Work(w))
            \/ (\E f \in Files : UploadSource(f))

vars == <<taskVars, parseVars>>
Spec == Init /\ [][Next]_vars

-----------------------------------------------------------------------------
\* A file becomes a Document at most once, however often the message of the
\* batch is delivered: the guard on doc_id and the commit that sets it
\* together with the status (doc_parse_tasks.py:158).
OneDocumentPerFile == \A f \in Files : saved[f] <= 1

\* Unlike the official path, which parses everything again, the path of a
\* custom service never gives up a file it has parsed: a redelivered batch
\* skips it (doc_parse_tasks.py:133).
KeepsSuccess ==
    job.provider = "custom" => \A f \in DOMAIN parsed \cap DOMAIN parsed' :
        parsed[f].status = "success" => parsed'[f].status = "success"
SuccessStays == [][KeepsSuccess]_vars
=============================================================================
