CONSTANTS
    a = a
    b = b
    None = None
    Jobs = {1}
    Contents <- TwoBodies
    Size <- EqualSizes
    MaxAttempts = 1
    MaxJobs = 2
    ErrorLimit = 2
    MaxFetches = 3
    Faults = {"lost_ack", "object_lost", "object_changed", "cleanup_killed"}
SPECIFICATION Spec
PROPERTY ShelfSpec
