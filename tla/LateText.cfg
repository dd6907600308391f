SPECIFICATION Spec
CONSTANTS
    NoId = 0
    MaxEvents = 8
    MaxAggregate = 12
    IncludeUsage = TRUE
    MaxFaults = 0
    Messages <- MCLateMessages
    TextWays <- MCTextWays
    CallWays <- MCCallWays
    Endings <- MCEndings
    ChatStreams <- MCChatStreams
    Strays <- MCStrays
INVARIANT LateTextDelivered
CHECK_DEADLOCK FALSE
