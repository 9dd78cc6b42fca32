\* Three verifications in either panel, with the field edited at any time.
CONSTANTS
    Empty = Empty
    Garbage = Garbage
    None = None
    Unreadable = Unreadable
    b1 = b1
    b2 = b2
    sig = sig
    DOTexts <- MCDOTexts
    VectorTexts <- MCVectorTexts
    MaxStarts = 3
SPECIFICATION Spec
INVARIANTS VerdictIsOfOneRecord HashModeParity
PROPERTY AnswersArrive
