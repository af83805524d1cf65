\* Four calls of route or retry_failed_messages on one router.
SPECIFICATION FairSpec
CONSTANTS
    k1 = k1
    k2 = k2
    news = news
    edit = edit
    eitaa = eitaa
    archive = archive
    NoRow = NoRow
    Keys <- MCKeys
    Texts <- MCTexts
    Messages <- MCMessages
    Rules <- MCRules
    Transports <- MCTransports
    MaxCalls = 4
INVARIANTS
    TypeOK
    RuleByPriority
    PublishedWasSent
    TwiceOnlyIfUnsure
    DeadLettersKept
PROPERTIES
    RouteSendsNew
    RowStaysPublished
    CallsReturn
CHECK_DEADLOCK FALSE
