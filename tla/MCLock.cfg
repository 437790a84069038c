SPECIFICATION Spec
CONSTANTS
    a1 = a1
    a2 = a2
    b1 = b1
    ada = ada
    bob = bob
    s1 = s1
    s2 = s2
    s3 = s3
    s4 = s4
    box = box
    shut = shut
    Commands = {a1, a2, b1}
    Actors = {ada, bob}
    Sessions = {s1, s2, s3, s4}
    Hosts = {box, shut}
    ActorOf <- MCActorOf
    SessionOf <- MCSessionOf
    HostOf <- MCHostOf
    Left <- MCLeft
    NoActor = NoActor
    NoSession = NoSession
    NoRow = NoRow
    Blind = {shut}
    Window = 1
    MaxTime = 3
INVARIANTS TypeOK OneWriter OnlyTheDeadAreSucceeded
CHECK_DEADLOCK FALSE
