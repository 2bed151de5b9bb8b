-------------------------------- MODULE Jobs --------------------------------
(***************************************************************************)
(* The background jobs under one broker.  A behaviour runs one kind of job *)
(* (focus), so the state spaces of the jobs add up and do not multiply.    *)
(* The rows a job writes besides its own are in r1 to r5, which each       *)
(* instance names for what it keeps there.  A job whose proofs are a       *)
(* module of their own is instantiated from that module, which adds its    *)
(* theorems to its definitions.                                            *)
(***************************************************************************)
EXTENDS TaskQueue, LoadConfig

CONSTANTS
    Kinds,         \* the kinds of job a behaviour may be about
    Limit,         \* bound: API requests of a behaviour, by kind
    Uploads,       \* the files of document parsing
    NameOf,        \* and their names
    LoadWorkers,   \* the workers of a load test or a training data evaluation: two,
                   \* so that it could run twice
    NSamples, ChunkSize,
    NRecords, SyncLimit,
    IngestFiles,   \* the files of an ingestion, in order
    MaxRows, BatchSize,
    MaxRow, MaxAdd,
    MaxEntries, MaxTimes

KindsOfJob == {"parse", "load", "train", "prof", "ingest", "sync", "build", "news"}

ASSUME KindsAssumption == Kinds \subseteq KindsOfJob
ASSUME LimitAssumption == Limit \in [KindsOfJob -> Nat]
ASSUME SamplesAssumption == NSamples \in Nat \ {0}    \* an empty dataset is refused
ASSUME MaxRowsAssumption == MaxRows \in Nat
ASSUME BatchSizeAssumption == BatchSize \in Nat \ {0}
ASSUME MaxTimesAssumption == MaxTimes \in Nat
ASSUME ActorsDiffer == Clients \cap Workers = {}

VARIABLES focus, r1, r2, r3, r4, r5

\* where two concurrent requests are known to break a promise of one request
OneClient == {CHOOSE x \in Clients : TRUE}

Parse == INSTANCE DocParse_proofs WITH MaxRequests <- Limit["parse"],
            stored <- r1, parsed <- r2, saved <- r3, Files <- Uploads
Load == INSTANCE LoadTest_proofs WITH MaxRequests <- Limit["load"],
            Clients <- OneClient, Workers <- LoadWorkers
Train == INSTANCE TrainingEval WITH MaxRequests <- Limit["train"], Workers <- LoadWorkers,
            made <- r1, configs <- r2, nextExec <- r3, overtaken <- r4
Prof == INSTANCE DatasetProfile WITH MaxRequests <- Limit["prof"],
            records <- r1, nextImport <- r2, qa <- r3, rivals <- r4, overlap <- r5
Ingest == INSTANCE ApiIngest_proofs WITH MaxRequests <- Limit["ingest"], remote <- r1, docs <- r2,
            questions <- r3, datasets <- r4, batches <- r5, Files <- IngestFiles
Sync == INSTANCE DataSync WITH MaxRequests <- Limit["sync"], source <- r1, stored <- r2,
            missed <- r3, leftOut <- r4
Build == INSTANCE DatasetBuild WITH MaxRequests <- Limit["build"], qa <- r1, nextRow <- r2, held <- r3,
            results <- r4
News == INSTANCE HotNews WITH MaxRequests <- Limit["news"], copies <- r1, feed <- r2,
            overlap <- r3

Init ==
    /\ focus \in Kinds
    /\ \/ focus = "parse" /\ Parse!Init /\ r4 = 0 /\ r5 = 0
       \/ focus = "load" /\ Load!Init /\ r1 = 0 /\ r2 = 0 /\ r3 = 0 /\ r4 = 0 /\ r5 = 0
       \/ focus = "train" /\ Train!Init /\ r5 = 0
       \/ focus = "prof" /\ Prof!Init
       \/ focus = "ingest" /\ Ingest!Init
       \/ focus = "build" /\ Build!Init /\ r5 = 0
       \/ focus = "news" /\ News!Init /\ r4 = 0 /\ r5 = 0
       \/ focus = "sync" /\ Sync!Init /\ r5 = 0

Next ==
    /\ UNCHANGED focus
    /\ \/ focus = "parse" /\ Parse!Next /\ UNCHANGED <<r4, r5>>
       \/ focus = "load" /\ Load!Next /\ UNCHANGED <<r1, r2, r3, r4, r5>>
       \/ focus = "train" /\ Train!Next /\ UNCHANGED r5
       \/ focus = "prof" /\ Prof!Next
       \/ focus = "ingest" /\ Ingest!Next
       \/ focus = "build" /\ Build!Next /\ UNCHANGED r5
       \/ focus = "news" /\ News!Next /\ UNCHANGED <<r4, r5>>
       \/ focus = "sync" /\ Sync!Next /\ UNCHANGED r5

vars == <<focus, taskVars, r1, r2, r3, r4, r5>>
Spec == Init /\ [][Next]_vars

OneDocumentPerFile == focus = "parse" => Parse!OneDocumentPerFile
SuccessStays == [][focus = "parse" => Parse!KeepsSuccess]_vars
LimitWasSustained == focus = "load" => Load!LimitWasSustained
LimitIsHighest == focus = "load" => Load!LimitIsHighest
OneLoadAtATime == focus = "load" => Load!OneLoadAtATime
CountersMatchRows == focus = "train" => Train!CountersMatchRows
ReplayedIsStored == focus = "train" => Train!ReplayedIsStored
OneDatasetPerIngest == focus = "ingest" => Ingest!OneDatasetPerIngest
OneDocumentPerRemote == focus = "ingest" => Ingest!OneDocumentPerRemote
CompletedIsReady == focus = "ingest" => Ingest!CompletedIsReady
NothingSkipped == focus = "sync" => Sync!NothingSkipped
NothingLeftOut == focus = "sync" => Sync!NothingLeftOut
Recounts == [][focus = "build" => Build!Recounts]_vars
CountIsRows == focus = "build" => Build!CountIsRows
BlockedIsPollable == focus = "build" => Build!BlockedIsPollable
ArticleOnce == focus = "news" => News!ArticleOnce
OneRowPerHash == focus = "news" => News!OneRowPerHash
StatusMatchesError == focus = "news" => News!StatusMatchesError
ImportIsIdempotent == focus = "prof" => Prof!ImportIsIdempotent
=============================================================================
