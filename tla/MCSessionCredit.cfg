SPECIFICATION FairSpec
CONSTANTS
    Windows <- MCWindows
    Sizes = {1, 2}
    MaxBuffered = 1
    MaxStreamsLimit = 3
    Scopes <- MCScopes
INVARIANTS
    AccountsAgree
    ClosesOnce
PROPERTIES
    ImplementsCredit
    BlockedSendersResume
CHECK_DEADLOCK FALSE
