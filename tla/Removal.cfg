SPECIFICATION FairSpec
CONSTANTS
    Homes = {h1}
    Commits = {c1, c2}
    Reclaimers = {r1}
    NoPlan = NoPlan
    NoRow = NoRow
    NoReading = NoReading
    NoEntry = NoEntry
    Retention = 1
    MaxTime = 2
    MaxFaults = 2
INVARIANTS TypeOK TrashedIsAccounted AbsentIsGone
PROPERTIES CommitsSurvive RemovalIsFinished
CHECK_DEADLOCK FALSE
