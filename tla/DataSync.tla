------------------------------ MODULE DataSync ------------------------------
(***************************************************************************)
(* Synchronisation of a data source: execute_sync and data_sync_task with  *)
(* the field mappings of the adapters.  Rows are added to the source while *)
(* a sync runs; an incremental sync reads those that are newer than        *)
(* last_sync_at, which the last commit of a sync sets to the time of that  *)
(* commit.  The source has a table for each target type, and one           *)
(* last_sync_at for both, whichever of them a sync selects.                *)
(*                                                                         *)
(* Bound: a source is synchronised again when the message of the previous  *)
(* sync has left the broker.                                               *)
(***************************************************************************)
EXTENDS TaskQueue, Sequences

CONSTANTS
    MaxRows,     \* bound: rows the source ever has
    BatchSize    \* rows between two commits

VARIABLES
    source,      \* its rows in the order of created_at, and last_sync_at
    stored,      \* numbers of the rows of the source that a committed chunk holds
    missed,      \* history: rows created between the read and the end of a sync
    leftOut      \* history: rows whose target type the completed sync that passed them left out

syncVars == <<source, stored, missed, leftOut>>

Targets == {"chunks", "qa_records"}
Row == [table : Targets, content : BOOLEAN]

\* get_default_mappings: the target types each system has a mapping for
Mapped(s) == CASE s = "dify" -> Targets [] s = "fastgpt" -> Targets
               [] s = "n8n" -> {"qa_records"} [] s = "custom" -> {}

\* what transform_data makes of a row: the mapping of dify converts a
\* timestamp with fromisoformat, which raises on the datetime the driver
\* returns; those of fastgpt and n8n for qa_records name no field question
Converts(s, t, r) == s = "fastgpt" /\ t = "chunks" /\ source.rows[r].content

\* the rows of the table of t with numbers from..to
Rows(t, from, to) == {r \in from..to : source.rows[r].table = t}

\* fetch_data: only dify and fastgpt filter by the time of the last sync
Since(s) == IF job.incremental /\ s \in {"dify", "fastgpt"} THEN source.last ELSE 0

Init ==
    /\ QueueInit
    /\ \E s \in {"dify", "fastgpt", "n8n", "custom"} :
          job = [status |-> "none", system |-> s, incremental |-> FALSE, targets |-> {}]
    /\ source = [rows |-> <<>>, last |-> 0]
    /\ stored = {} /\ missed = {} /\ leftOut = {}

SourceGrows ==
    /\ Len(source.rows) < MaxRows
    /\ \E row \in Row : source' = [source EXCEPT !.rows = Append(@, row)]
    /\ UNCHANGED <<taskVars, stored, missed, leftOut>>

\* execute_sync: no tables means both target types; the message follows the
\* commit unguarded
ExecuteSync(c) ==
    /\ job.status # "running" /\ queue = {} /\ \A w \in Workers : At(w, "idle")
    /\ call[c] = NoCall /\ requests < MaxRequests
    /\ requests' = requests + 1
    /\ \E i \in BOOLEAN, t \in (SUBSET Targets) \ {{}} :
          job' = [job EXCEPT !.status = "pending", !.incremental = i, !.targets = t]
    /\ call' = [call EXCEPT ![c] = [op |-> "dispatch", seen |-> "pending"]]
    /\ UNCHANGED <<queue, nextMid, frame, faults, syncVars>>

\* dataset and snapshot are committed; every target type needs a mapping
Prepare(w) ==
    /\ At(w, "begin") /\ job.targets \subseteq Mapped(job.system)
    /\ Goto(w, "target", [targets |-> job.targets, left |-> job.targets, since |-> Since(job.system),
                         read |-> [t \in Targets |-> 0]])
    /\ UNCHANGED <<job, queue, nextMid, call, requests, faults, syncVars>>

\* chunks first; the rows of its table are those of this moment
FetchTarget(w) ==
    /\ At(w, "target") /\ Loc(w).left # {}
    /\ LET l == Loc(w)
           t == IF "chunks" \in l.left THEN "chunks" ELSE "qa_records"
       IN Goto(w, "rows", [targets |-> l.targets, left |-> l.left \ {t}, since |-> l.since,
                           read |-> [l.read EXCEPT ![t] = Len(source.rows)],
                           target |-> t, at |-> l.since, count |-> 0])
    /\ UNCHANGED <<job, queue, nextMid, call, requests, faults, syncVars>>

\* a batch is converted, added and committed; rows without content are skipped
StoreBatch(w) ==
    /\ At(w, "rows") /\ Loc(w).at < Loc(w).read[Loc(w).target] /\ job.system # "dify"
    /\ LET l == Loc(w)
           to == IF l.at + BatchSize < l.read[l.target] THEN l.at + BatchSize ELSE l.read[l.target]
           good == {r \in Rows(l.target, l.at + 1, to) : Converts(job.system, l.target, r)}
       IN /\ stored' = stored \cup good
          /\ Goto(w, "rows", [l EXCEPT !.at = to, !.count = @ + Cardinality(good)])
    /\ UNCHANGED <<job, queue, nextMid, call, requests, faults, source, missed, leftOut>>

\* what the query of a target returned
Fetched(l) == Rows(l.target, l.since + 1, l.read[l.target])

\* rows were read and none was converted: the sync fails
EndTarget(w) ==
    /\ At(w, "rows")
    /\ LET l == Loc(w) IN
       /\ l.at >= l.read[l.target] \/ Fetched(l) = {}
       /\ Goto(w, IF Fetched(l) # {} /\ l.count = 0 THEN "except" ELSE "target",
               [targets |-> l.targets, left |-> l.left, since |-> l.since, read |-> l.read])
    /\ UNCHANGED <<job, queue, nextMid, call, requests, faults, syncVars>>

\* a sync that fetched nothing completes, and moves last_sync_at, as well
CompleteSync(w) ==
    /\ At(w, "target") /\ Loc(w).left = {}
    /\ job' = [job EXCEPT !.status = "completed"]
    /\ source' = [source EXCEPT !.last = Len(source.rows)]
    /\ missed' = missed \cup {r \in DOMAIN source.rows :
                                 LET t == source.rows[r].table
                                 IN t \in Loc(w).targets /\ r > Loc(w).read[t]}
    /\ leftOut' = leftOut \cup {r \in DOMAIN source.rows :
                                   r > source.last /\ source.rows[r].table \notin Loc(w).targets}
    /\ Goto(w, "ack", <<>>)
    /\ UNCHANGED <<queue, nextMid, call, requests, faults, stored>>

Fails(w) ==
    /\ \/ Raise(w, {"begin"})
       \/ job.system = "dify" /\ At(w, "rows") /\ Fetched(Loc(w)) # {} /\ Raise(w, {"rows"})
       \/ DbError(w, {"begin", "target", "rows"})
    /\ UNCHANGED syncVars

\* mutant of FailSync: a failed sync moves last_sync_at as well
FailSyncMovesStart(w) ==
    /\ MarkFailed(w)
    /\ source' = [source EXCEPT !.last = Len(source.rows)]
    /\ UNCHANGED <<stored, missed, leftOut>>

\* the except branch writes the task only
FailSync(w) == MarkFailed(w) /\ UNCHANGED syncVars

Handlers(c) ==
    \/ ExecuteSync(c)
    \/ (Dispatch(c) \/ DelayFails(c)) /\ UNCHANGED syncVars

Work(w) ==
    \/ (Delivery(w) \/ Open(w, <<>>) \/ FailedLost(w)) /\ UNCHANGED syncVars
    \/ Prepare(w) \/ FetchTarget(w) \/ StoreBatch(w) \/ EndTarget(w)
    \/ CompleteSync(w) \/ Fails(w) \/ FailSync(w)

Next == (\E c \in Clients : Handlers(c)) \/ (\E w \in Workers : Work(w)) \/ SourceGrows
vars == <<taskVars, syncVars>>
Spec == Init /\ [][Next]_vars

-----------------------------------------------------------------------------
\* What an incremental sync will not read again is stored, without content,
\* appeared while a completed sync ran, or lay in a table that the sync which moved
\* last_sync_at past it did not select: a failed, lost or redelivered sync never
\* moves the start of the next one past rows that nobody has stored
\* (sync_tasks.py:218).
NothingSkipped ==
    \A r \in 1..source.last :
       ~source.rows[r].content \/ r \in stored \cup missed \cup leftOut

-----------------------------------------------------------------------------
\* promised and not kept (README, section 6): fails as the only invariant of Jobs.cfg

\* The target types of a sync are selected freely (data_sources.py:280) and an incremental
\* sync starts where the last sync of the source ended (sync_tasks.py:94): rows of
\* the table that sync did not select are not read by a later sync of it.
NothingLeftOut ==
    \A r \in 1..source.last : ~source.rows[r].content \/ r \in stored \cup missed
=============================================================================
