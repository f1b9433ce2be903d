\* Two schedules of one Operator, an edit, a manual run and one crash.
SPECIFICATION Spec
CONSTANTS
    oper = oper
    Schedules = {1, 2}
    Operators = {oper}
    OperatorOf <- OneOperator
    Rule <- Rules
    Skipping = {}
    Grace <- Graces
    DailyCap = 1
    Day = 2
    Expiry = 1
    Stale = 1
    MaxFailures = 2
    Concurrency = 2
    NoTime = 99
    LastFire = 2
    MaxTime = 2
    MaxIds = 3
    MaxEdits = 1
    MaxManual = 1
    MaxCrashes = 1
INVARIANTS
    TypeOK
    OneTurn
    OneActive
    SupersededIsReplaced
PROPERTIES
    KnownOutcomeIsKept
