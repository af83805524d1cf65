\* Two pages, one of them with a deadline, and an image, on one client.
SPECIFICATION FairSpec
CONSTANTS
    page = page
    pageInTime = pageInTime
    image = image
    nobody = nobody
    Requests <- MCRequests
    Media <- MCMedia
    Deadlined <- MCDeadlined
    Nobody = nobody
    NAttempts = 2
    NHosts = 2
    MinInterval = 2
    Backoff = 1
    MediaBackoff = 1
INVARIANTS
    PacingInv
    EachAttemptOnce
    OneLateSlot
PROPERTIES
    Paced
    RequestsEnd
CHECK_DEADLOCK FALSE
