CONSTANTS
    a = a
    b = b
    None = None
    Jobs = {1, 2}
    Contents <- OneBody
    Size <- DistinctSizes
    MaxAttempts = 2
    MaxJobs = 1
    ErrorLimit = 1
    MaxFetches = 2
    Faults = {"lost_ack"}
SPECIFICATION FairSpec
PROPERTY EveryJobSettles
