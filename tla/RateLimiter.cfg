SPECIFICATION FairSpec
CONSTANTS
    Reqs = {r1, r2, r3, r4}
    Insts = {i1, i2}
    Configs <- MCConfigs
    Window = 3
    None = None
INVARIANTS
    PendingCountsWaiters
    QueueBound
    WindowRespected
    NoOversleep
PROPERTY WaitersAreServed
