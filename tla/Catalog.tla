------------------------------ MODULE Catalog ------------------------------
(***************************************************************************)
(* What refers to what in the database, and what the handlers that insert  *)
(* and delete rows do to it (models, api/v1).                              *)
(*                                                                         *)
(* Two mechanisms decide about a deletion: the relationships SQLAlchemy    *)
(* knows (delete the children, or set their reference to NULL, which a     *)
(* required reference refuses), and, for the references it knows nothing   *)
(* of, the ON DELETE of the foreign key.  One row of a table is enough to  *)
(* tell them apart, so that a table stands for its row.                    *)
(***************************************************************************)
EXTENDS Naturals

CONSTANTS Groups    \* sets of tables; a behaviour uses one, closed under required references

VARIABLES
    group,      \* the tables of this behaviour
    rows,       \* tables that have their row
    links,      \* <<child, parent>>: the reference is not NULL
    eval,       \* the evaluation: created for a batch, reuse_invocation, whose answers it scored
    told        \* the last request that deletes: its table and its outcome

vars == <<group, rows, links, eval, told>>

NoEval == [batch |-> FALSE, reuse |-> FALSE, scored |-> "none"]
Nothing == [table |-> "none", how |-> "insert", out |-> "ok"]

-----------------------------------------------------------------------------
\* the references: "orm" is what a relationship of the parent does to the child when the
\* parent is deleted, "db" is the ON DELETE of the foreign key

R(child, parent, required, orm, db) ==
    [child |-> child, parent |-> parent, required |-> required, orm |-> orm, db |-> db]

DatasetRefs ==
    {R("qa_records", "datasets", TRUE, "delete", "refuse"),
     R("dataset_snapshots", "datasets", TRUE, "nullify", "refuse")}
DocumentRefs ==
    {R("documents", "datasets", FALSE, "none", "refuse"), R("chunks", "documents", TRUE, "delete", "cascade")}
InvocationRefs ==
    {R("invocation_batches", p, TRUE, "nullify", "refuse") : p \in {"datasets", "rag_systems"}}
    \cup {R("invocation_results", "invocation_batches", TRUE, "delete", "refuse")}
    \cup {R("invocation_results", p, TRUE, "nullify", "refuse") : p \in {"qa_records", "rag_systems"}}
\* mutant of EvaluationRefs: the scores go with the answers
EvaluationRefsDelete ==
    {R("evaluations", "datasets", TRUE, "nullify", "refuse"),
     R("evaluations", "rag_systems", FALSE, "none", "refuse"),
     R("evaluations", "models", FALSE, "none", "refuse"),
     R("evaluations", "invocation_batches", FALSE, "nullify", "refuse"),
     R("eval_results", "evaluations", TRUE, "delete", "refuse"),
     R("eval_results", "qa_records", TRUE, "nullify", "refuse"),
     R("eval_results", "invocation_results", FALSE, "delete", "refuse")}
EvaluationRefs ==
    {R("evaluations", "datasets", TRUE, "nullify", "refuse"),
     R("evaluations", "rag_systems", FALSE, "none", "refuse"),
     R("evaluations", "models", FALSE, "none", "refuse"),
     R("evaluations", "invocation_batches", FALSE, "nullify", "refuse"),
     R("eval_results", "evaluations", TRUE, "delete", "refuse"),
     R("eval_results", "qa_records", TRUE, "nullify", "refuse"),
     R("eval_results", "invocation_results", FALSE, "nullify", "refuse")}
CorrectionRefs ==
    {R("annotation_corrections", p, FALSE, "none", "refuse")
       : p \in {"invocation_results", "qa_records", "invocation_batches"}}
LoadTestRefs ==
    {R("load_tests", "rag_systems", FALSE, "nullify", "refuse")}
    \cup {R("load_tests", p, FALSE, "none", "refuse") : p \in {"models", "datasets"}}
ApiIngestRefs ==
    {R("api_ingest_tasks", "rag_systems", TRUE, "none", "refuse"),
     R("api_ingest_tasks", "datasets", FALSE, "none", "refuse")}
DocParseRefs ==
    {R("doc_parse_batches", "models", TRUE, "none", "refuse"),
     R("doc_parse_batches", "datasets", FALSE, "none", "refuse"),
     R("doc_parse_results", "doc_parse_batches", TRUE, "delete", "cascade"),
     R("doc_parse_results", "documents", FALSE, "none", "null")}
SyncRefs == {R("sync_tasks", "data_sources", TRUE, "none", "refuse")}
HotNewsRefs ==
    {R("hot_articles", "hot_news_sources", TRUE, "delete", "cascade"),
     R("hot_articles", "documents", FALSE, "none", "refuse")}
ModelRefs ==
    {R(c, "models", TRUE, "none", "cascade") : c \in {"model_request_logs", "model_mappings"}}
TrainingRefs ==
    {R("training_data_evals", "datasets", TRUE, "nullify", "refuse"),
     R("training_data_eval_results", "training_data_evals", TRUE, "delete", "refuse"),
     R("training_data_eval_results", "qa_records", TRUE, "nullify", "refuse"),
     R("training_data_metric_configs", "training_data_evals", TRUE, "delete", "cascade")}
ProfileRefs ==
    {R(c, "datasets", TRUE, "delete", "refuse")
       : c \in {"training_data_records", "training_data_profiles", "eval_set_records", "eval_set_profiles"}}

References ==
    DatasetRefs \cup DocumentRefs \cup InvocationRefs \cup EvaluationRefs \cup CorrectionRefs
    \cup LoadTestRefs \cup ApiIngestRefs \cup DocParseRefs \cup SyncRefs \cup HotNewsRefs
    \cup ModelRefs \cup TrainingRefs \cup ProfileRefs

Linked(r) == <<r.child, r.parent>> \in links
RequiredBy(t) == {r.parent : r \in {q \in References : q.child = t /\ q.required}}

Init ==
    /\ group \in Groups /\ rows = {} /\ links = {} /\ eval = NoEval /\ told = Nothing

-----------------------------------------------------------------------------
\* insertions: the row refers to all it must and to those of the optional parents that were
\* named, which are there, by a check of the handler or by the foreign key
InsertRows(new, references) ==
    /\ new \subseteq group \ rows /\ rows' = rows \cup new /\ links' = links \cup references
    /\ told' = Nothing /\ UNCHANGED group
InsertWith(t, named) ==
    /\ RequiredBy(t) \cup named \subseteq rows
    /\ InsertRows({t}, {<<t, p>> : p \in RequiredBy(t) \cup named})
Insert(t, optional) == (\E named \in SUBSET optional : InsertWith(t, named)) /\ UNCHANGED eval

CreateDataset == Insert("datasets", {})
CreateModel == Insert("models", {})
CreateRagSystem == Insert("rag_systems", {})
CreateQaRecord == Insert("qa_records", {})
CreateDocument == Insert("documents", {"datasets"})
SaveChunks == Insert("chunks", {})
TakeSnapshot == Insert("dataset_snapshots", {})
CreateInvocationBatch == "qa_records" \in rows /\ Insert("invocation_batches", {})
SaveResult == Insert("invocation_results", {})
CreateCorrection == Insert("annotation_corrections", {"invocation_results", "qa_records", "invocation_batches"})
\* a tested system, model or both; questions of its own or a dataset that has some
CreateLoadTest ==
    \E target \in SUBSET {"rag_systems", "models"} \ {{}}, data \in SUBSET {"datasets"} :
      /\ data = {} \/ "qa_records" \in rows
      /\ InsertWith("load_tests", target \cup data) /\ UNCHANGED eval
StartApiIngest == Insert("api_ingest_tasks", {"datasets"})
\* the batch and a result of each file, at once
CreateParseBatch ==
    \E named \in SUBSET ({"datasets"} \cap rows) :
      /\ "models" \in rows /\ UNCHANGED eval
      /\ InsertRows({"doc_parse_batches", "doc_parse_results"},
                    {<<"doc_parse_batches", p>> : p \in {"models"} \cup named}
                      \cup {<<"doc_parse_results", "doc_parse_batches">>})
\* the document of a result, of the data set of the batch
SaveParsed ==
    /\ "doc_parse_results" \in rows /\ UNCHANGED eval
    /\ InsertRows({"documents"}, {<<"doc_parse_results", "documents">>}
                     \cup {<<"documents", p>> : p \in {q \in {"datasets"} : <<"doc_parse_batches", q>> \in links}})
CreateDataSource == Insert("data_sources", {})
ExecuteSync == "datasets" \in rows /\ Insert("sync_tasks", {})
CreateSource == Insert("hot_news_sources", {})
SaveArticle == Insert("hot_articles", {})
CreateMapping == Insert("model_mappings", {})
\* a call is logged, or replayed where the target keeps logs; the reply is told either way
SaveLog == Insert("model_request_logs", {})
CreateTrainingEval == Insert("training_data_evals", {})
SaveTrainingRows == Insert("training_data_eval_results", {}) \/ Insert("training_data_metric_configs", {})
ImportProfiles == \E r \in ProfileRefs : Insert(r.child, {})

CreateEvaluation ==
    \E named \in SUBSET {"rag_systems", "models", "invocation_batches"}, reuse \in BOOLEAN :
      /\ InsertWith("evaluations", named)
      /\ eval' = [batch |-> "invocation_batches" \in named, reuse |-> reuse, scored |-> "none"]

\* the answer of the batch where there is one and it is to be reused, else the one the
\* dataset holds
RunEvaluation ==
    LET answered == {"invocation_results"} \cap rows
        own == eval.reuse /\ <<"evaluations", "invocation_batches">> \in links /\ answered # {}
    IN /\ InsertWith("eval_results", IF own THEN answered ELSE {})
       /\ eval' = [eval EXCEPT !.scored = IF own THEN "batch" ELSE "dataset"]

-----------------------------------------------------------------------------
\* deletions

Children(S, orm, db) ==
    S \cup {r.child : r \in {q \in References : Linked(q) /\ q.parent \in S /\ q.orm \in orm /\ q.db \in db}}
AnyRule == {"cascade", "null", "refuse"}
ByOrm(t) == Children(Children({t}, {"delete"}, AnyRule), {"delete"}, AnyRule)

\* who of the others stands in the way of the deletion of D
Refuses(r) == \/ (r.orm = "nullify" /\ r.required)
              \/ (r.orm = "none" /\ r.db = "refuse")
Blocking(D) == {r.child : r \in {q \in References : Linked(q) /\ q.parent \in D /\ q.child \notin D /\ Refuses(q)}}

Remove(gone) ==
    /\ rows' = rows \ gone /\ links' = {l \in links : l[1] \notin gone /\ l[2] \notin gone}
    /\ eval' = IF "evaluations" \in gone THEN NoEval ELSE eval
Refused == UNCHANGED <<rows, links, eval>>

\* session.delete and commit; a violation is told as "answer"
Delete(t, answer) ==
    LET D == ByOrm(t) blocking == Blocking(D) IN
    /\ t \in rows /\ UNCHANGED group
    /\ told' = [table |-> t, how |-> "delete", out |-> IF blocking = {} THEN "ok" ELSE answer]
    /\ IF blocking = {} THEN Remove(Children(D, {"none"}, {"cascade"})) ELSE Refused

\* a DELETE statement: only the foreign keys have a say
RawDelete(t, how) ==
    LET blocked == \E r \in References : Linked(r) /\ r.parent = t /\ r.db = "refuse" IN
    /\ t \in rows /\ UNCHANGED group
    /\ told' = [table |-> t, how |-> how, out |-> IF blocked THEN "error" ELSE "ok"]
    /\ IF blocked THEN Refused ELSE Remove(Children({t}, {"delete", "none"}, {"cascade"}))

\* commit_delete tells the violation
DeleteDataset == Delete("datasets", "refused")
DeleteModel == Delete("models", "refused")
DeleteRagSystem == Delete("rag_systems", "refused")
DeleteProfile == \E t \in {"training_data_profiles", "eval_set_profiles"} : Delete(t, "refused")
\* the count of the rows is a query, which flushes the deletion before commit_delete can catch it
DeleteQaRecord == Delete("qa_records", "error")
DeleteMapping == Delete("model_mappings", "error")
DeleteLog == Delete("model_request_logs", "error")
DeleteEvaluation == Delete("evaluations", "error")
DeleteInvocationBatch == Delete("invocation_batches", "error")
DeleteDataSource == Delete("data_sources", "error")
DeleteLoadTest == Delete("load_tests", "error")
DeleteParseBatch == Delete("doc_parse_batches", "error")
DeleteTrainingEval == Delete("training_data_evals", "error")
DeleteSource == Delete("hot_news_sources", "error")
DeleteArticle == RawDelete("hot_articles", "delete")
\* what failed long ago
Cleanup == \E t \in {"evaluations", "sync_tasks"} : RawDelete(t, "delete")

\* a retry replaces the result of a question, an ingestion the document of a remote file
RetryResult == RawDelete("invocation_results", "retry")
ReplaceDocument == Delete("documents", "error")
RetryEvaluation ==
    /\ "evaluations" \in rows /\ UNCHANGED group
    /\ told' = [table |-> "evaluations", how |-> "retry", out |-> "ok"]
    /\ rows' = rows \ {"eval_results"} /\ links' = {l \in links : l[1] # "eval_results"}
    /\ \E reuse \in BOOLEAN : eval' = [eval EXCEPT !.reuse = reuse, !.scored = "none"]

InsertRow ==
    \/ CreateDataset \/ CreateModel \/ CreateRagSystem \/ CreateQaRecord \/ CreateDocument \/ SaveChunks
    \/ TakeSnapshot \/ CreateInvocationBatch \/ SaveResult \/ CreateCorrection \/ CreateLoadTest
    \/ StartApiIngest \/ CreateParseBatch \/ SaveParsed \/ CreateDataSource \/ ExecuteSync \/ CreateSource
    \/ SaveArticle \/ CreateMapping \/ SaveLog \/ CreateTrainingEval \/ SaveTrainingRows \/ ImportProfiles
    \/ CreateEvaluation \/ RunEvaluation
DeleteRow ==
    \/ DeleteDataset \/ DeleteModel \/ DeleteRagSystem \/ DeleteProfile \/ DeleteQaRecord \/ DeleteMapping
    \/ DeleteLog \/ DeleteEvaluation \/ DeleteInvocationBatch \/ DeleteDataSource \/ DeleteLoadTest
    \/ DeleteParseBatch \/ DeleteTrainingEval \/ DeleteSource \/ DeleteArticle \/ Cleanup
    \/ RetryResult \/ ReplaceDocument \/ RetryEvaluation

Next == InsertRow \/ DeleteRow
Spec == Init /\ [][Next]_vars

-----------------------------------------------------------------------------
\* whose deletion, retry or replacement a result may vanish with
Owner(t) ==
    CASE t \in {"evaluations", "eval_results"} -> "evaluations"
      [] t = "invocation_results" -> IF "retry" = told'.how THEN t ELSE "invocation_batches"
      [] t \in {"training_data_evals", "training_data_eval_results"} -> "training_data_evals"
      [] t = "model_request_logs" -> IF told'.table = "models" THEN "models" ELSE t
      [] OTHER -> t
Results ==
    {"evaluations", "eval_results", "invocation_batches", "invocation_results", "documents",
     "training_data_evals", "training_data_eval_results", "load_tests", "model_request_logs"}

\* A row refers to all it must refer to, and only to rows that are there.
Intact ==
    /\ \A l \in links : l[1] \in rows /\ l[2] \in rows
    /\ \A t \in rows : \A p \in RequiredBy(t) : <<t, p>> \in links

\* A result vanishes only with what owns it, whatever else is deleted: neither the deletion
\* of a dataset, of a question, of a system or of a parse batch ("the documents stay",
\* doc_parser.py:310) nor the retry of an answer takes scores, answers or documents with it,
\* and every reference of what is left is intact.
Survives ==
    /\ \A t \in Results : t \in rows /\ t \notin rows' => told'.table = Owner(t)
    /\ Intact'
ResultsSurvive == [][Survives]_vars

-----------------------------------------------------------------------------
\* promised and not kept (README, section 6): each fails as the only invariant of Services.cfg

\* A refused deletion is refused for the reason that is told (datasets.py:201, rag_systems.py:462).
RefusalIsTrue ==
    told.out = "refused" =>
      /\ told.table = "datasets" => Blocking(ByOrm("datasets")) \cap {"evaluations", "invocation_batches"} # {}
      /\ told.table = "rag_systems" => "invocation_batches" \in Blocking(ByOrm("rag_systems"))

\* An evaluation that reuses the answers of a batch scores no answer the dataset holds
\* (evaluation_tasks.py:177, "the answer can only come from the invocation result").
ReusedAnswersAreOfTheBatch == eval.batch /\ eval.reuse => eval.scored # "dataset"
=============================================================================
