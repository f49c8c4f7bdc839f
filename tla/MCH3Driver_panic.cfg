SPECIFICATION Spec
CONSTANTS
    MaxRequests = 2
    MaxInserts = 1
    Scopes <- MCScopes
INVARIANTS
    MutexNotPoisoned
CHECK_DEADLOCK FALSE
