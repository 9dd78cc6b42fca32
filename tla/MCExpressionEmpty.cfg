\* The same instances, for the promise about empty arrays.
SPECIFICATION MCSpec
CONSTANTS
    Throws = 2
    NoValue = 9
    Threshold = 1
    MaxChanges = 1
    None = None
    Exclusive = {"both"}
    Reference <- MCReference
    Engines <- MCEngines
    Revisions <- MCRevisions
    Truth <- MCTruth
    Tamper <- MCTamper
    Scale = 2
    PlainDigits = 3
    PlainPlaces = 1
    Places = 3
    RollsDays = TRUE
    Includes <- MCIncludes
    TextOf <- MCTextOf
    Expressions <- MCTrees
    Contexts <- MCContexts
    Eval <- MCEval
INVARIANT EmptyQuantifierIsFalse
CHECK_DEADLOCK FALSE
