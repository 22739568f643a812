SPECIFICATION ServicesSpec
CONSTANTS
    Enricher = {"e1", "e2"}
    RouteQuery = {"q1", "q2"}
    PlanOf <- MCPlanOf
    Allowance = 3
    SafetyPercent = 90
    MaxResets = 1
    MaxEnrichments = 4
    Interval = 1
    Jitter = 1
    InlineWait = 2
    DailyLimit = 2
    DayLength = 4
    DeniedDelay = 2
    ErrorDelay = 1
    MaxDelayDenied = 3
    MaxDelayError = 2
    RetryAfter = {0, 1}
    MaxWaiting = 2
    RateHorizon = 7
    Browser = {"b1", "b2"}
    Link = {"l1"}
    Mailer = {"w1", "w2"}
    MaxPerMinute = 2
    Minute = 2
    LinkTtl = 2
    DeskHorizon = 4
    MaxForms = 3
    MaxDrafts = 2
    MaxRatings = 4
    Unknown = Unknown
    Offer = {1, 2, 3}
    FirstFacts <- MCFirstFacts
    Discovery <- MCAllDiscovery
    Profile <- MCProfile
    Weight <- MCWeight
    Limit = 2
    Cooldown = 7
    BenchRun = {"r"}
    Raw <- MCRaw
    StratumOf <- MCStratumOf
    VariantOf <- MCVariantOf
    ExpiryOf <- MCExpiryOf
    ChangedVariant = {"w"}
    MaxRaw = 3
    BenchHorizon = 2
    Actor = {"a", "b"}
    Page = {"p"}
    Retention = 2
    SampleLimit = 1
    MaxLifetime = 1
    MaxArtifact = 2
    StoreHorizon = 2
    MaxCrashes = 1
INVARIANTS
    QuotaInvariant
    StoreInvariant
    
    
    BenchInvariant
PROPERTIES
    PortalSpared
    DeletedFileGoes
    MatchingSound
CHECK_DEADLOCK FALSE
