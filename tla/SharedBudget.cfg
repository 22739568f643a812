SPECIFICATION QuietBudgetSpec
CONSTANTS
    nas = nas
    vps = vps
    r1 = r1
    t1 = t1
    t2 = t2
    c1 = c1
    NoRelease = NoRelease
    NoWorker = NoWorker
    Worker <- MCOneWorker
    Nas = {}
    Release <- MCRelease
    Qualified = {}
    Capabilities <- MCCapabilities
    HealthWindow = 9
    MaxDelay = 1
    MaxTime = 3
    MaxEpoch = 1
    Task <- MCTwoTasks
    ClassOf <- MCLive
    Content <- MCContent
    LeaseTime = 2
    MaxLease = 2
    MaxAttempts = 1
    RetryBase = 1
    RetryCap = 2
    MaxClaims = 2
    Route <- MCOneRoute
    DayOf <- MCLongDays
    CycleOf <- MCSameDay
    MinInterval = 2
    DailyAttempts = 1
    DailySuccesses = 1
    ProxyUsable = 3
    ReserveBytes = 2
    FallbackDelay = 1
    Cooldown <- MCCooldown
    RetryAfter <- MCNoRetryAfter
INVARIANTS
    BudgetInvariant
    PortalPacing
SYMMETRY MCSymmetry
