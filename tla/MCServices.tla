----------------------------- MODULE MCServices -----------------------------
(* Small instances of the services. *)
EXTENDS Services

MCFiles == <<"a", "ba">>
MCOld == <<"a", "x">>
MCSameEnd == {<<"ba", "a">>}

Scored ==
    {"datasets", "qa_records", "rag_systems", "invocation_batches", "invocation_results",
     "evaluations", "eval_results", "annotation_corrections"}
Modelled ==
    {"models", "model_request_logs", "model_mappings", "datasets", "documents", "chunks",
     "doc_parse_batches", "doc_parse_results"}
Tested == {"datasets", "qa_records", "rag_systems", "models", "load_tests", "api_ingest_tasks", "evaluations"}
Synced == {"datasets", "qa_records", "data_sources", "sync_tasks", "dataset_snapshots"}
Trained ==
    {"datasets", "qa_records", "training_data_evals", "training_data_eval_results",
     "training_data_metric_configs", "training_data_records", "training_data_profiles",
     "eval_set_records", "eval_set_profiles"}
Crawled == {"hot_news_sources", "hot_articles", "documents", "chunks"}
MCGroups == {Scored, Modelled, Tested, Synced, Trained, Crawled}
=============================================================================
