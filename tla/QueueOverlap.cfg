\* Two live processes, one of which loses a lease to the other.
SPECIFICATION Spec
CONSTANTS
    chat1 = chat1
    chat2 = chat2
    sched1 = sched1
    oper = oper
    old = old
    new = new
    Owners = {old, new}
    NoOwner = NoOwner
    Requests = {chat1, sched1}
    Immediate = {sched1}
    Lanes = {oper}
    LaneOf <- OneLane
    Cap = 2
    MaxRetries = 1
    Overlap = TRUE
    MaxClaims = 2
    MaxSeq = 2
    MaxRuns = 2
    MaxExits = 0
    MaxStalls = 1
INVARIANTS
    SingleFlight
    NoOvertaking
    RepeatsNeedRecovery
    LaneRunsOneTurn
    ArchivedLaneIsQuiet
PROPERTIES
    ImplementsFifoLane
CHECK_DEADLOCK FALSE
