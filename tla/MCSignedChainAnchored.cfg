SPECIFICATION Spec
CONSTANTS
    a = a
    b = b
    KEY = KEY
    OtherKey = OtherKey
    Forged = Forged
    NoProof = NoProof
    ChainIds <- MCChainIds
    Timestamps <- MCTimestamps
    TokenTimes <- MCTokenTimes
    Decisions <- MCDecisions
    MaxSigned = 3
    MaxEdits = 1
SYMMETRY ChainSymmetry
CHECK_DEADLOCK FALSE
INVARIANT AnchoringKeepsSignature
