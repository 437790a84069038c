SPECIFICATION Spec
CONSTANTS
    p1 = p1
    p2 = p2
    Procs = {p1, p2}
    Keys = {1, 2}
    NoKey = NoKey
    Tools <- OneTool
    MaxBases = 2
    Keep = 1
    MaxCommands = 3
    MaxEvents = 2
INVARIANTS BuiltIsFinished NothingForgotten HomeIsReady
CHECK_DEADLOCK FALSE
SYMMETRY Same
