SPECIFICATION Spec
CONSTANTS
    u1 = u1
    u2 = u2
    p1 = p1
    w1 = w1
    a = a
    Units = {u1, u2}
    NoUnit = NoUnit
    Kinds = {"new", "adopt", "place"}
    Worktrees = {w1}
    Names = {a}
    p2 = p2
    Projects = {p1, p2}
    Blocks = 1
    Span = 2
    Services <- Ports
    Attempts = 2
    MaxEvents = 1
INVARIANTS NothingLeft GroupsAreOwned CarriedIsAnchored
CHECK_DEADLOCK FALSE
PROPERTIES ImplementsLife
SYMMETRY Same
