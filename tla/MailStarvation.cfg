SPECIFICATION IngestSpec
CONSTANTS
    Mail <- MCMail
    MailOf <- MCMailOf
    FactsOf <- MCFacts
    Unreadable = {}
    MaxListings = 2
    PollLimit = 2
    MaxFaults = 1
PROPERTY
    EveryAlertSettles
CHECK_DEADLOCK FALSE
