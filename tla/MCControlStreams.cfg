SPECIFICATION FairSpec
CONSTANTS
    Scopes <- MCScopes
    MaxChunk = 3
    GoawayIds = {0, 4, 6}
    Requests = {0, 4}
INVARIANTS
    StreamsReadExactly
    GoawayHonoured
    NegotiationAgrees
PROPERTY
    SettingsExchanged
CHECK_DEADLOCK FALSE
