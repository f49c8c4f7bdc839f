CONSTANTS
    Templates <- MCTemplates
    Fields <- MCFields
    MaxEdits = 2
    Alphabets <- MCAlphabets
    NameChars = {"a", "DQ", "BS", ",", ";", " "}
    MaxNames = 3
    MaxChars = 2
    MaxSfElements = 2
SPECIFICATION Spec
CHECK_DEADLOCK FALSE
INVARIANTS
    RulesExact
    HandshakeAgrees
