CONSTANTS
    a = a
    b = b
    p = p
    q = q
    None = None
    Jobs = {1}
    Contents <- TwoBodies
    Size <- EqualSizes
    Procs <- TwoProcs
    Settings <- AloneOrTwo
    MaxAttempts = 2
    MaxParses = 2
SPECIFICATION Spec
SYMMETRY Alike
INVARIANTS
    PagesAgree
    AttemptsAgree
PROPERTIES
    RawIsWrittenOnce
    ClosedParseIsFinal
