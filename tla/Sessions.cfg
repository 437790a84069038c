CONSTANTS
    Envs = {a}
    NoEnv = NoEnv
    Numbers = {2, 3}
    Callers = {0, 2}
    MaxStarts = 3
    MaxRows = 1
    MaxCalls = 2
SPECIFICATION Spec
INVARIANTS StopIsTrue
PROPERTIES OnlyTheUnitIsSignalled RowsOutliveGroups
CHECK_DEADLOCK FALSE
