SPECIFICATION Spec
CONSTANTS
    here1 = here1
    here2 = here2
    there = there
    Ops = {1}
    Procs = {here1, here2}
    HostOf <- OneMachine
    PlanLength = 2
    Answering = {1}
    Resumable = {}
    Recording = {1}
    Rebuildable = {1}
    RefusedCommits = {}
    MaxFaults = 0
    MaxLive = 2
INVARIANTS
    CommittedIsWhole
