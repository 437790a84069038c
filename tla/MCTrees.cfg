CONSTANTS
    Names <- MCNames
    Sources <- MCSources
    MaxWorkers = 3
    MaxKills = 1
SPECIFICATION FairSpec
INVARIANTS CopyIsWhole
PROPERTIES FailsWhereOneThreadWould EveryCloneEnds
\* a clone ends
CHECK_DEADLOCK FALSE
