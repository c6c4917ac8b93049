CONSTANTS
    Urls = {1, 2, 3, 4, 5, 6}
    MaxTries = 3
    TargetCount = 2
    Listings <- TwoListings
    PageSize = 2
    EmptyStop = 1
    StaleStop = 2
    Settings <- TheSettings
SPECIFICATION Spec
INVARIANTS
    CoverageIsHonest
    SeenIsStored
    PagerReadsItsPage
    KeptSessionIsWelcome
PROPERTIES
    DiscoveryEnds
CHECK_DEADLOCK FALSE
