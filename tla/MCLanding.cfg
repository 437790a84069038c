SPECIFICATION Spec
CONSTANTS
    u1 = u1
    u2 = u2
    Units = {u1, u2}
    Adopted = {}
    Finished = {u1}
    StageSets <- Flags
    MaxChanges = 2
    MaxMerges = 2
    MaxFaults = 1
INVARIANTS MergedIsOnTarget RollbackRestores WorkKept
CHECK_DEADLOCK FALSE
