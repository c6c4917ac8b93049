SPECIFICATION FairSpec
CONSTANTS
    Postings = {p1, p2}
    Contents = {c1}
    Syncs = {y1, y2}
    Sources = {x1, x2}
    Main = main
    Slots = 1
    Retries = 1
    None = none
    Settings <- MCSettings
INVARIANTS
    PublishIsGated
PROPERTIES
    DeletionIsEvidence
    NewerIsNotUndone
    StatusIsHonest
    CycleEnds
    ServingConverges
CHECK_DEADLOCK FALSE
