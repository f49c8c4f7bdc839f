SPECIFICATION Spec
CONSTANTS
    Headers <- MCHeaders
    EntrySize <- MCEntrySize
    HeaderLists <- MCHeaderLists
    StaticHeaders <- MCStatic
    Streams = {s1, s2}
    Capacities = {40}
    MaxCap = 80
    LocalCap = 80
    MaxBlocked = 1
    AckedEvictionOnly = TRUE
    FittingCapacityOnly = TRUE
    MaxInserts = 3
    MaxSections = 1
    MaxCapChanges = 1
INVARIANTS
    NoConnectionError
    TablesAgree
    BlockedStreamsBounded
    KnownReceivedIsReceived
    IInv
CHECK_DEADLOCK FALSE
