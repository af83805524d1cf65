\* Three channels, a saved list of two, at most three loads at a time.
SPECIFICATION Spec
CONSTANTS
    news = news
    sport = sport
    music = music
    None = None
    Channels <- MCChannels
    Cap = 2
    MaxLoads = 3
INVARIANTS
    SavedListIsSound
    QuietPageShowsCurrent
    RemovedIsForgotten
SYMMETRY ChannelSymmetry
