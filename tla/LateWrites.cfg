\* A run that is cancelled while its start is prepared.
SPECIFICATION Spec
CONSTANTS
    r1 = r1
    r2 = r2
    r3 = r3
    Runs = {r1, r2}
    Roots = {r1}
    Granted = {}
    Edits = {"cancelled"}
    MaxRetry = 1
    MaxGens = 1
    MaxEdits = 1
    MaxCancels = 0
    MaxLost = 0
    MaxCrashes = 0
PROPERTY CancelledStays
