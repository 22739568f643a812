SPECIFICATION Spec
CONSTANTS
    p1 = p1
    p2 = p2
    a = a
    b = b
    w1 = w1
    w2 = w2
    NoReport = NoReport
    NoWorker = NoWorker
    NoPeriod = NoPeriod
    Period <- MCPeriod
    Report <- MCReport
    Worker <- MCWorker
    Backoff <- MCBackoff
    StaleAfter = 2
    MaxLag = 1
    MaxCrashes = 1
    MaxFaults = 1
    MaxStalls = 1
INVARIANTS
    SentWasAccepted
    OneMailPerPeriod
PROPERTIES
    DeliveryIsLeasedWork
    EveryReportIsSent
