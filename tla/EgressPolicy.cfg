SPECIFICATION QuietBudgetSpec
CONSTANTS
    nas = nas
    vps = vps
    r1 = r1
    t1 = t1
    t2 = t2
    c1 = c1
    NoRelease = NoRelease
    NoWorker = NoWorker
    Worker <- MCOneWorker
    Nas = {}
    Release <- MCRelease
    Qualified = {}
    Capabilities <- MCCapabilities
    HealthWindow = 9
    MaxDelay = 0
    MaxTime = 4
    MaxEpoch = 1
    Task <- MCOneTask
    ClassOf <- MCLive
    Content <- MCContent
    LeaseTime = 2
    MaxLease = 2
    MaxAttempts = 3
    RetryBase = 1
    RetryCap = 2
    MaxClaims = 3
    Route <- MCTwoRoutes
    DayOf <- MCLongDays
    CycleOf <- MCSameDay
    MinInterval = 1
    DailyAttempts = 2
    DailySuccesses = 2
    ProxyUsable = 3
    ReserveBytes = 2
    FallbackDelay = 1
    Cooldown <- MCCooldown
    RetryAfter <- MCRetryAfter
INVARIANTS
    FallbackIsDirect
    
    
