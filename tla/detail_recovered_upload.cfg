CONSTANTS
    a = a
    b = b
    None = None
    Jobs = {1}
    Contents <- TwoBodies
    Size <- EqualSizes
    MaxAttempts = 2
    MaxJobs = 2
    ErrorLimit = 2
    MaxFetches = 2
    Faults = {}
SPECIFICATION Spec
PROPERTY RecoveredUploadIsStored
