SPECIFICATION FairSpec
CONSTANTS
    HTTP_MAX_HEADER_SIZE = 36
    ULLONG_MAX = 127
    Requests <- MCRequests
    Later <- MCLater
    Responses <- MCResponses
    Path <- MCPath
    BuffSize = 48
    KeepAliveOn = TRUE
    MaxMessages = 2
    MaxSplits = 1
    MaxChanges = 2
    None = None
INVARIANTS
    ParserAssertions
    RequestAsSent
    RepliesKeepTheirWord
    ResponseAsSent
PROPERTIES
    EveryRequestAnswered
