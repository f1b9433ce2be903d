\* Fair ticks, answers and turns; an edit, and one crash.
SPECIFICATION FairSpec
CONSTANTS
    oper = oper
    Schedules = {1, 2}
    Operators = {oper}
    OperatorOf <- OneOperator
    Rule <- OnceAndDaily
    Skipping = {2}
    Grace <- Graces
    DailyCap = 1
    Day = 2
    Expiry = 1
    Stale = 0
    MaxFailures = 2
    Concurrency = 2
    NoTime = 99
    LastFire = 1
    MaxTime = 4
    MaxIds = 2
    MaxEdits = 1
    MaxManual = 0
    MaxCrashes = 1
PROPERTIES
    EveryInvocationSettles
