CONSTANTS
    a = a
    b = b
    None = None
    Jobs = {1}
    Contents <- TwoBodies
    Size <- DistinctSizes
    MaxAttempts = 2
    MaxJobs = 2
    ErrorLimit = 2
    MaxFetches = 4
    Faults = {"lost_ack"}
SPECIFICATION Spec
INVARIANTS
    AttemptLedger
    RetryBudget
    ReadyMatchesStore
PROPERTIES
    ReadyObjectKept
    ClosedAttemptsAreHistory
