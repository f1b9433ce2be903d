\* A chat message and a scheduler turn share a lane across one restart, under fair timers.
SPECIFICATION FairSpec
CONSTANTS
    chat1 = chat1
    chat2 = chat2
    sched1 = sched1
    oper = oper
    old = old
    new = new
    Owners = {old, new}
    NoOwner = NoOwner
    Requests = {chat1, sched1}
    Immediate = {sched1}
    Lanes = {oper}
    LaneOf <- OneLane
    Cap = 1
    MaxRetries = 1
    Overlap = FALSE
    MaxClaims = 2
    MaxSeq = 3
    MaxRuns = 2
    MaxExits = 1
    MaxStalls = 0
INVARIANTS
    TypeOK
    ImmediateAtMostOnce
    VerdictHasEvidence
PROPERTIES
    EveryMessageSettles
CHECK_DEADLOCK FALSE
