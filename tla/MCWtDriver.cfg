SPECIFICATION FairSpec
CONSTANTS
    MaxLimit = 2
    UniCapacity = 1
    Scopes <- MCScopes
INVARIANTS
    EndReported
    LastWords
    DataStreamsSound
PROPERTIES
    ConnectReturns
    SendSideEnds
CHECK_DEADLOCK FALSE
