\* verify.js and the reference runner over 258 vector files and the answers, with one replacement.
CONSTANTS
    None = None
    Legacy = Legacy
    Zeros = Zeros
    b1 = b1
    b2 = b2
    Definitions <- MCDefinitions
    AVMapping <- MCAVMapping
    VectorFiles <- MCVectorFiles
    Replacements <- MCReplacements
    AnswerFiles <- MCAnswerFiles
    ExpectedPassCount = 2
    MaxEdits = 1
SPECIFICATION Spec
INVARIANTS PassVouches RegressedRejected TogetherComplete
CHECK_DEADLOCK FALSE
