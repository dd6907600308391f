SPECIFICATION Spec
CONSTANTS
    NoId = 0
    MaxEvents = 8
    MaxAggregate = 12
    IncludeUsage = TRUE
    MaxFaults = 1
    Messages <- MCMessages
    TextWays <- MCTextWays
    CallWays <- MCCallWays
    Endings <- MCEndings
    ChatStreams <- MCChatStreams
    Strays <- MCStrays
INVARIANTS StreamedExactly CollectedExactly CompletedMeansDelivered
PROPERTIES HonestEventsAccepted KeepsPromise
CHECK_DEADLOCK FALSE
