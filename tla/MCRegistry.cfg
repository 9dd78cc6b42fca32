SPECIFICATION MCSpec
CONSTANTS
    f1 = f1
    f2 = f2
    plain = plain
    skipped = skipped
    x = x
    y = y
    Missing = Missing
    None = None
    Keys = {plain, skipped}
    Values = {x, y}
    SkipKeys = {skipped}
    SkipIds = {skipped}
    Files = {f1, f2}
    Offers <- MCOffers
    Revisions <- MCRevisions
    MaxCommits = 3
    MaxAborts = 1
    Absent = Absent
    Rows = {t1, t2}
    MaxCrashes = 1
    MaxEdits = 1
INVARIANTS
    TypeOK
    ExitZeroListsAll
PROPERTIES
    ImplementsAtomicRegistry
    RecordingKeepsText
    LatestSubmissionRecorded
CHECK_DEADLOCK FALSE
