SPECIFICATION Spec
CONSTANTS
    here1 = here1
    here2 = here2
    there = there
    Ops = {1, 2}
    Procs = {here1, here2, there}
    HostOf <- TwoMachines
    PlanLength = 2
    Answering = {1}
    Resumable = {2}
    Recording = {1}
    Rebuildable = {1, 2}
    RefusedCommits = {1}
    MaxFaults = 2
    MaxLive = 2
INVARIANTS
    TypeOK
    RegistryAndJournalAgree
    NothingUnjournalled
    RolledBackIsClean
    StartedRunIsAlone
    ResumedIsWhole
