SPECIFICATION Spec
CONSTANTS
    root = root
    first = first
    second = second
    Commits = {root, first}
    Past <- Line
    Root = root
    main = main
    topic = topic
    Branches = {main, topic}
    Main = main
    NoCommit = NoCommit
    Undated = Undated
    NoReading = NoReading
    Setups <- Sound
    MaxTime = 1
    MaxDamage = 1
    MaxRace = 1
INVARIANTS
    SafeIsOutside
    RestsOnACurrentReading
    PushIsNotForgotten
    FetchedWorkGoes
CHECK_DEADLOCK FALSE
