SPECIFICATION WorkflowSpec
CONSTANTS
    normalize = normalize
    enrich = enrich
    w1 = w1
    w2 = w2
    NoJob = NoJob
    NoWorker = NoWorker
    Job <- MCJob
    Child <- MCChild
    Root <- MCRoot
    Worker <- MCWorker
    RetryDelay <- MCRetryDelay
    MaxAttempts = 3
    LeaseTime = 2
    DeferDelay = 1
    MaxLag = 1
    Reaping = TRUE
    MaxCrashes = 2
    MaxDefers = 1
    MaxSlips = 1
    Item = {"a"}
    CandidateOf <- MCCandidateOf
    Queued = {"a"}
    Scraped = {}
    ReportPeriod = {1, 2}
    SlateLimit = 1
    Stager = {w1, w2}
    MaxVersion = 2
    StageHorizon = 2
    MaxEvents = 3
INVARIANTS
    ChainUnbroken
PROPERTIES
    OutputsStand
    
    
    
    
CHECK_DEADLOCK FALSE
