CONSTANTS
    Codecs <- MCCodecs
    Values <- MCValues
    RawInputs <- MCRawInputs
    MaxCloseMessage = 4
SPECIFICATION Spec
CHECK_DEADLOCK FALSE
INVARIANTS
    CutsInvisible
    ValuesArrive
    AcceptedExactly
