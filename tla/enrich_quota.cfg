CONSTANTS
    a = a
    b = b
    x = x
    y = y
    gemini = gemini
    groq = groq
    None = None
    Postings <- TwoPostings
    Contents <- OneContent
    ContentsOf <- AnyContent
    Eligible <- AllRows
    Providers <- OneProvider
    Order <- First
    Limit <- Daily
    Cost <- BySize
    MaxAttempts = 2
    MaxJobs = 1
    Minute = 1
    Day = 2
    RetryDelay = 1
    Cooldowns = {1}
    MaxRequests = 3
SPECIFICATION Spec
SYMMETRY PostingsAlike
INVARIANTS
    QueueAgrees
    QuotaHolds
    RetriesAlone
PROPERTIES
    AnswerIsKept
