\* One relay that fetches one post in two runs, no crash.
SPECIFICATION Spec
CONSTANTS
    k1 = k1
    k2 = k2
    k3 = k3
    c1 = c1
    c2 = c2
    news = news
    newsPadded = newsPadded
    blanks = blanks
    nothing = nothing
    r1 = r1
    r2 = r2
    NoRow = NoRow
    Relays <- OneRelay
    Keys <- MCKeys
    Texts <- MCTexts
    Strip <- MCStrip
    Feed <- MCFeedOne
    Channels <- MCChannelsTwo
    Empty = nothing
    Limit = 1
    MaxRuns = 2
    MaxCrashes = 0
INVARIANT
    NoSilentDrop
CHECK_DEADLOCK FALSE
