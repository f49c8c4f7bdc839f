SPECIFICATION FairSpec
CONSTANTS
    Streams = {0, 4, 8}
    StopStreams = {8}
    Scopes <- MCScopes
INVARIANTS
    StreamsInv
    SectionsAnswered
    FinishedStreamsRemoved
    SentMessageWellFormed
PROPERTIES
    ImplementsDelivery
    BlockedStreamsResume
CHECK_DEADLOCK FALSE
