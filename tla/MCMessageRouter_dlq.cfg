\* The queue under a Database that raises in a retry.
SPECIFICATION Spec
CONSTANTS
    k1 = k1
    k2 = k2
    news = news
    edit = edit
    eitaa = eitaa
    archive = archive
    NoRow = NoRow
    Keys <- MCKeys
    Texts <- MCTexts
    Messages <- MCMessages
    Rules <- MCRules
    Transports <- MCTransports
    MaxCalls = 4
INVARIANT
    DeadLetterQueueIsReliable
CHECK_DEADLOCK FALSE
