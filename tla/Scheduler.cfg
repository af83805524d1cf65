\* Two starts; tasks of two posts, three seconds between POSTs, two between tasks.
SPECIFICATION FairSpec
CONSTANTS
    Delay = 3
    Interval = 2
    MaxPosts = 2
    MaxStarts = 2
INVARIANT
    PublishingInv
PROPERTIES
    Spaced
    TasksRest
    StopEnds
