CONSTANTS
    Pids = {p1, p2, p3}
    None = None
    First = First
    LINEAGE = 16
    MaxStarts = 4
    MaxTurns = 1
SPECIFICATION OccupancySpec
SYMMETRY MCSymmetry
PROPERTIES MovedUnderNobody OwnRunNeverBlocks
\* the reclaim ends, moved or refused
CHECK_DEADLOCK FALSE
