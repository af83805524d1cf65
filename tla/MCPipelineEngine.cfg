\* One relay, two channels, two runs and one crash.
SPECIFICATION FairSpec
CONSTANTS
    k1 = k1
    k2 = k2
    k3 = k3
    c1 = c1
    c2 = c2
    news = news
    newsPadded = newsPadded
    blanks = blanks
    nothing = nothing
    r1 = r1
    r2 = r2
    NoRow = NoRow
    Relays <- OneRelay
    Keys <- MCKeys
    Texts <- MCTexts
    Strip <- MCStrip
    Feed <- MCFeed
    Channels <- MCChannels
    Empty = nothing
    Limit = 2
    MaxRuns = 2
    MaxCrashes = 1
INVARIANTS
    OneRelayInv
    AtMostOncePerContent
    EveryItemIsReported
PROPERTIES
    PublishedStays
    HubTruthful
    ImplementsLifecycle
    RunsEnd
CHECK_DEADLOCK FALSE
