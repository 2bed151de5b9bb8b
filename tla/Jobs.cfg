CONSTANTS
  Workers = {w1}
  Clients = {c1, c2}
  MaxRequests = 3
  Budget <- MCBudget
  Crashes = 1
  Kills = 1
  DbErrors = 1
  BrokerErrors = 1
  Kinds = {"parse", "load", "train", "prof", "ingest", "sync", "build", "news"}
  Limit <- MCLimit
  Uploads <- MCUploads
  NameOf <- MCNameOf
  LoadWorkers <- MCLoadWorkers
  Given <- MCGiven
  Default <- MCDefault
  Levels <- MCLevels
  NSamples = 2
  ChunkSize = 1
  NRecords = 2
  SyncLimit = 1
  IngestFiles <- MCIngestFiles
  MaxRows = 2
  BatchSize = 1
  MaxRow = 2
  MaxAdd = 2
  MaxEntries = 2
  MaxTimes = 2
SPECIFICATION Spec
INVARIANT OneDocumentPerFile
INVARIANT LimitWasSustained
INVARIANT OneLoadAtATime
INVARIANT CountersMatchRows
INVARIANT ImportIsIdempotent
INVARIANT OneDatasetPerIngest
INVARIANT OneDocumentPerRemote
INVARIANT CompletedIsReady
INVARIANT NothingSkipped
INVARIANT ArticleOnce
PROPERTY SuccessStays
PROPERTY Recounts
CHECK_DEADLOCK FALSE
