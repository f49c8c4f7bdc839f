SPECIFICATION Spec
CONSTANTS
    u1 = u1
    b1 = b1
    b2 = b2
    l1 = l1
    l2 = l2
    Sessions = {0, 4}
    PeerUni = {u1}
    PeerBidi = {b1, b2}
    LocalUni = {l2}
    LocalBidi = {l1}
    UniLimit = 1
    BidiLimit = 1
    DataWindow = 3
    MaxBuffered = 1
    MaxBufferedBytes = 4
    MaxDatagrams = 1
    MaxPending = 1
    MaxDeferred = 1
    MaxCapsules = 2
    GoawayIds = {0, 4}
    Scopes <- MCScopes
    MaxStreamsLimit = 10
INVARIANTS
    SessionsInv
    BytesExact
    CreditExact
    OneSessionWithoutFlowControl
PROPERTIES
    QuietAfterClose
    HeldStreamsDispatched
CHECK_DEADLOCK FALSE
