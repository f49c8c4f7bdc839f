SPECIFICATION FairSpec
CONSTANTS
    Headers <- MCSmallHeaders
    EntrySize <- MCSmallSize
    HeaderLists <- MCSmallLists
    StaticHeaders = {}
    Streams = {s1}
    Capacities = {80}
    MaxCap = 80
    LocalCap = 70
    MaxBlocked = 1
    AckedEvictionOnly = TRUE
    FittingCapacityOnly = TRUE
    MaxInserts = 6
    MaxSections = 2
    MaxCapChanges = 0
INVARIANTS
    DecodesExactly
PROPERTY SectionsReleased
CHECK_DEADLOCK FALSE
