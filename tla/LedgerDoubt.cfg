\* One action, two passes at a time, lost answers, edits and a crash.
SPECIFICATION Spec
CONSTANTS
    p1 = p1
    p2 = p2
    NoPass = NoPass
    Passes = {p1, p2}
    Actions = {1}
    Terms = {3}
    Lease = 1
    Delay = 1
    Backoff = 1
    MaxRepairs = 2
    MaxTime = 3
    MaxClaims = 6
    MaxIssues = 2
    MaxMeddling = 1
    MaxCrashes = 1
INVARIANTS
    TypeOK
    ResultIsOfLastClaim
    RepairsAreBounded
    FoundIsIdentified
PROPERTIES
    ImplementsOneEffect
CHECK_DEADLOCK FALSE
