CONSTANTS
    Services = {1, 2}
    Renewals = {r1}
    TopUps = {}
    Sessions = {s1, s2}
    s1 = s1
    s2 = s2
    Worker = worker
    None = None
    Dead = {1}
    Days = 1
    Gb = 1
    Expire0 = 0
    Total0 = 1
    Window = 1
    Percent = 50
    Batch = 2
    MaxTime = 1
    MaxUsed = 1
    MaxCrashes = 1
    MaxManaged = 1
SPECIFICATION LiveSpec
CONSTRAINT Bounded
ACTION_CONSTRAINT InTurn
INVARIANTS
    PaidIsKept
    AppliedOnce
    OffIsKnown
    WarnedOnce
PROPERTIES
    ExpiredGoesDark
