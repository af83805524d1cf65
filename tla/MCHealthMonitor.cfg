\* One relay, one channel, three runs and one crash.
SPECIFICATION HealthSpec
CONSTANTS
    k1 = k1
    k2 = k2
    c1 = c1
    news = news
    blanks = blanks
    nothing = nothing
    r1 = r1
    NoRow = NoRow
    NoMonitor = NoMonitor
    NoHealth = NoHealth
    Relays <- OneRelay
    Keys <- MCKeys
    Texts <- MCTexts
    Strip <- MCStrip
    Feed <- MCFeed
    Channels <- MCChannels
    Empty = nothing
    Limit = 2
    MaxRuns = 3
    MaxCrashes = 1
INVARIANTS
    FetchedIsAccountedFor
    PublishedIsCovered
    StuckIsCounted
CHECK_DEADLOCK FALSE
