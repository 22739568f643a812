SPECIFICATION BackgroundSpec
CONSTANTS
    Mail <- MCMail
    MailOf <- MCMailOf
    FactsOf <- MCFacts
    Unreadable = {"b"}
    MaxListings = 2
    PollLimit = 3
    MaxFaults = 2
    Capture = {1, 2}
    ListingOf <- MCListingOf
    TwoYears = 1
    BatchSize = 1
    BenchRow = {1, 2}
    BenchLife <- MCBenchLife
    DatabaseSize = {0, 1}
    RearmAfter = 2
    MaxReplays = 1
    Crew = {"w1", "w2", "n", "m"}
    Job = {"a", "c"}
    Replays = {"c"}
    Readers = {"n", "m"}
    Packs <- MCPacks
    Needs <- MCNeeds
    NoOne = NoOne
    LeaseLen = 1
    LeaseCap = 2
    TryLimit = 2
    WaitLen = 1
INVARIANTS
    IngestInvariant
    RequestsBounded
PROPERTIES
    AlertsSettleWithoutSuspicious
    
    OutdatedResultsGo
    
CHECK_DEADLOCK FALSE
