SPECIFICATION FairSpec
CONSTANTS
    MaxRequests = 2
    MaxInserts = 1
    Scopes <- MCScopes
INVARIANTS
    NothingLost
    WakeupNotLost
PROPERTIES
    CallsReturn
CHECK_DEADLOCK FALSE
