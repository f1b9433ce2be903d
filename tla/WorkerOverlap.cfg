\* A start and its retry across lost answers and a restart.
SPECIFICATION Spec
CONSTANTS
    r1 = r1
    r2 = r2
    r3 = r3
    Runs = {r1, r2}
    Roots = {r1}
    Granted = {r1}
    Edits = {}
    MaxRetry = 1
    MaxGens = 1
    MaxEdits = 0
    MaxCancels = 0
    MaxLost = 2
    MaxCrashes = 1
INVARIANT TypeOK
INVARIANT FirstReleaseIsDeath
PROPERTY RetryWaitsForOwner
