\* The runner on rule lists, and the three programs that rely on a resolution.
SPECIFICATION MCSpec
CONSTANTS
    None = None
    Rulebooks <- MCRulebooks
    VectorSets <- MCVectorSets
    Decided = {"ALLOW", "DENY"}
    MaxEdits = 2
    MainFiles <- MCMainFiles
    DivergenceFiles <- MCDivergenceFiles
    ScenarioLists <- MCScenarioLists
    UndefinedExpr = "nomatch"
    Releases = {"current", "lagging"}
    Evaluates <- MCEvaluates
INVARIANTS
    TypeOK
    EvaluatedCount
    TighteningNeverLoosens
    ListingNeverLoosens
    AcceptedAnswersAll
    AllowIsEarned
    UnevaluableIsReported
PROPERTIES
    ImplementsRule
    RunnerAccepted
CHECK_DEADLOCK FALSE
