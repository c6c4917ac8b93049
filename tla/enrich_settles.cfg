CONSTANTS
    a = a
    b = b
    x = x
    y = y
    gemini = gemini
    groq = groq
    None = None
    Postings <- TwoPostings
    Contents <- TwoContents
    ContentsOf <- OwnContent
    Eligible <- AllRows
    Providers <- TwoProviders
    Order <- Both
    Limit <- Fallback
    Cost <- BySize
    MaxAttempts = 2
    MaxJobs = 1
    Minute = 1
    Day = 2
    RetryDelay = 1
    Cooldowns = {2}
    MaxRequests = 2
SPECIFICATION FairSpec
PROPERTY
    EveryContentSettles
