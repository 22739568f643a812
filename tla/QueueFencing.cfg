SPECIFICATION QuietSpec
CONSTANTS
    nas = nas
    vps = vps
    r1 = r1
    r2 = r2
    t1 = t1
    t2 = t2
    c1 = c1
    x1 = x1
    x2 = x2
    Target <- MCTarget
    NoRelease = NoRelease
    NoWorker = NoWorker
    Worker <- MCWorker
    Nas <- MCNas
    Release <- MCRelease
    Qualified <- MCQualified
    Capabilities <- MCCapabilities
    HealthWindow = 4
    MaxDelay = 0
    MaxTime = 4
    MaxEpoch = 2
    Task <- MCOneTask
    ClassOf <- MCLive
    Content <- MCContent
    LeaseTime = 2
    MaxLease = 3
    MaxAttempts = 2
    RetryBase = 1
    RetryCap = 2
    MaxClaims = 3
    MaxLeases = 3
INVARIANTS
    AttemptLedger
    RetryBudgetLeft
    AcceptedIsGenuine
    AckedIsAccepted
PROPERTIES
    TerminalIsFinal
    EpochFence
