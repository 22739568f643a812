SPECIFICATION ScratchSpec
CONSTANTS
    nas = nas
    vps = vps
    r1 = r1
    r2 = r2
    t1 = t1
    t2 = t2
    c1 = c1
    x1 = x1
    x2 = x2
    Target <- MCTarget
    NoRelease = NoRelease
    NoWorker = NoWorker
    Worker <- MCWorker
    Nas <- MCNas
    Release <- MCRelease
    Qualified <- MCQualified
    Capabilities <- MCCapabilities
    HealthWindow = 4
    MaxDelay = 0
    MaxTime = 1
    MaxEpoch = 1
    Task <- MCTwoTasks
    ClassOf <- MCReplayDiscovery
    Content <- MCContent
    LeaseTime = 1
    MaxLease = 2
    MaxAttempts = 2
    RetryBase = 1
    RetryCap = 2
    MaxClaims = 2
    MaxLeases = 2
PROPERTIES
    HandoffSound
