SPECIFICATION Spec
CONSTANTS
    Kinds = {"con", "rag", "proxy", "vibe", "diag", "cat", "reg"}
    Files <- MCFiles
    Old <- MCOld
    SameEnd <- MCSameEnd
    Page = 2
    ChunkCounts = {2, 3}
    MaxForeign = 1
    MaxListings = 2
    Passages = {"c1", "c2"}
    MaxRefs = 2
    MaxFrames = 3
    MaxPolls = 1
    K = 2
    MaxMessages = 3
    MaxPieces = 3
    MaxUsages = 2
    Browsers = {"b1", "b2"}
    MaxCommands = 7
    ScriptStatuses = {"error", "running"}
    Channels = {"vector", "fulltext"}
    MaxLen = 3
    ChannelKeep = 2
    SlimKeep = 1
    MaxSamples = 2
    Groups <- MCGroups
    Clients = {"c1", "c2"}
    Names = {"m1", "m2"}
    Ratings = {1, 3, 5}
    MaxRequests = 3
    MaxDeploys = 2
INVARIANTS
    ChunksAreOwn
    TimeoutIsReal
    StreamIsWhole
    MetricsAgree
    RequestIsKept
    StreamIsWellFormed
    
    ExecutionSettles
    DiagnosisIsSound
    OfferedIsRegistry
PROPERTIES
    ResultsSurvive
CHECK_DEADLOCK FALSE
