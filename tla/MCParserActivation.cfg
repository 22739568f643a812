SPECIFICATION MCSpec
CONSTANTS
    nas = nas
    vps = vps
    r1 = r1
    r2 = r2
    r3 = r3
    NoRelease = NoRelease
    Worker <- MCWorker
    Nas <- MCNas
    Release <- MCRelease
    Qualified <- MCRelease
    Capabilities <- MCCapabilities
    HealthWindow = 2
    MaxDelay = 1
    MaxTime = 2
    MaxEpoch = 4
    Listing = {1}
    TwoYears = 3
    ThirtyDays = 2
    BatchSizes <- MCBatchSizes
    MaxSnapshot = 2
    MaxResults = 3
    LastRecovery = 1
    MaxEvents = 6
INVARIANTS
    PointerFollowsAudit
    RecoveryInvariant
PROPERTIES
    RollbackTargetFresh
    
