CONSTANTS
    t1 = t1
    t2 = t2
    wide = wide
    narrow = narrow
    None = None
    p = p
    q = q
    j = j
    k = k
    Runners <- OneRunner
    Jobs <- TwoJobs
    Targets <- TwoTargets
    Scopes <- TwoScopes
    TargetsOf <- WideAndNarrow
    MaxRuns = 3
    Faults = {}
SPECIFICATION Spec
SYMMETRY JobsAlike
CONSTRAINT LongIsNarrow
INVARIANTS
    ListingAgrees
    HistoryAgrees
    PendingIsNewest
PROPERTIES
    ExpiryIsEvidenced
    ObservedIsActive
