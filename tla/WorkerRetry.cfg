\* A failed run is requeued and fails again; the observers race.
SPECIFICATION Spec
CONSTANTS
    r1 = r1
    r2 = r2
    r3 = r3
    Runs = {r1, r2, r3}
    Roots = {r1}
    Granted = {}
    Edits = {"queued"}
    MaxRetry = 1
    MaxGens = 2
    MaxEdits = 1
    MaxCancels = 0
    MaxLost = 0
    MaxCrashes = 0
SYMMETRY Retries
INVARIANT QueuedIsUnowned
INVARIANT OneRetry
