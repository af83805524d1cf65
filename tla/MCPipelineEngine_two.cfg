\* Two relays on one table, a post edited between fetches, two runs each.
SPECIFICATION Spec
CONSTANTS
    k1 = k1
    k2 = k2
    k3 = k3
    c1 = c1
    c2 = c2
    news = news
    newsPadded = newsPadded
    blanks = blanks
    nothing = nothing
    r1 = r1
    r2 = r2
    NoRow = NoRow
    Relays <- TwoRelays
    Keys <- MCKeysTwo
    Texts <- MCTexts
    Strip <- MCStrip
    Feed <- MCFeedTwo
    Channels <- MCChannelsTwo
    Empty = nothing
    Limit = 1
    MaxRuns = 2
    MaxCrashes = 0
INVARIANTS
    AtMostOncePerRelay
    PublishedWasDelivered
SYMMETRY RelaySymmetry
CHECK_DEADLOCK FALSE
