SPECIFICATION Spec
CONSTANTS
    normalize = normalize
    enrich = enrich
    w1 = w1
    w2 = w2
    NoJob = NoJob
    NoWorker = NoWorker
    Job <- MCJob
    Child <- MCChild
    Root <- MCRoot
    Worker <- MCWorker
    RetryDelay <- MCRetryDelay
    MaxAttempts = 2
    LeaseTime = 2
    DeferDelay = 1
    MaxLag = 1
    Reaping = FALSE
    MaxCrashes = 1
    MaxDefers = 1
    MaxSlips = 1
PROPERTY
    EveryJobSettles
CHECK_DEADLOCK FALSE
