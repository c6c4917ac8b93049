CONSTANTS
    t1 = t1
    t2 = t2
    wide = wide
    narrow = narrow
    None = None
    p = p
    q = q
    j = j
    k = k
    Runners <- TwoRunners
    Jobs <- TwoJobs
    Targets <- OneTarget
    Scopes <- OneScope
    TargetsOf <- WideAndNarrow
    MaxRuns = 2
    Faults = {"session_lost"}
SPECIFICATION Spec
SYMMETRY AllAlike
PROPERTIES
    DecisionIsFinal
