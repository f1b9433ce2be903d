\* One run under fair timers: a lost answer, a cancellation, a crash or shutdown.
SPECIFICATION FairSpec
CONSTANTS
    r1 = r1
    r2 = r2
    r3 = r3
    Runs = {r1}
    Roots = {r1}
    Granted = {r1}
    Edits = {}
    MaxRetry = 0
    MaxGens = 2
    MaxEdits = 0
    MaxCancels = 1
    MaxLost = 1
    MaxCrashes = 1
PROPERTY ImplementsOwnership
PROPERTY LateStartIsIgnored
PROPERTY RunsSettle
