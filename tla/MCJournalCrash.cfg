SPECIFICATION FairSpec
CONSTANTS
    here1 = here1
    here2 = here2
    there = there
    Ops = {1, 2}
    Procs = {here1, here2}
    HostOf <- OneMachine
    PlanLength = 2
    Answering = {1}
    Resumable = {2}
    Recording = {1}
    Rebuildable = {1, 2}
    RefusedCommits = {1}
    MaxFaults = 3
    MaxLive = 1
INVARIANTS
    CommittedIsWhole
PROPERTIES
    InterruptedRunIsResolved
