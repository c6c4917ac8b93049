CONSTANTS
    a = a
    b = b
    w1 = w1
    w2 = w2
    None = None
    Cleaner = Cleaner
    Jobs = {1}
    Contents <- TwoBodies
    Size <- EqualSizes
    Workers <- TwoWorkers
    MaxAttempts = 2
    MaxJobs = 1
    MaxVersion = 2
    MaxRaws = 2
    Weathers <- OneOrTwoFaults
SPECIFICATION FairSpec
INVARIANTS
    ResultsAgree
    AttemptBudget
    MissingIsExplained
PROPERTIES
    ClosedIsFinal
    RemovalIsSafe
    EveryPageSettles
    PurgeEnds
