SPECIFICATION Spec
CONSTANTS
    Jurisdictions = {"CN", "XX"}
    KNOWN_JURISDICTIONS = {"CN"}
    Fields = {"agent.aid", "signature"}
    Ids <- MCIds
    Bytes = {"b1", "b2"}
    Absent = Absent
    Torn = Torn
    Suites <- MCSuites
    MaxEdits = 1
INVARIANTS
    TypeOK
    NoMixedGenerations
    WarningNeverMasks
PROPERTY
    ImplementsSuiteVerdict
