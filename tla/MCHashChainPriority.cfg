SPECIFICATION Spec
CONSTANTS
    Decisions <- MCDecisions
    Times <- MCTimes
    NoTime = NoTime
    Versions <- MCVersions
    PREIMAGE_VERSION = "v1.5"
    Forged = Forged
    ChainLen = 3
    MaxEdits = 2
INVARIANT ReportedByPriority
CHECK_DEADLOCK FALSE
