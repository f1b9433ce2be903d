\* One attempt with a check, no crash: the periodic sweep is enough.
SPECIFICATION Spec
CONSTANTS
    MaxRuns = 1
    Budget = 1
    Checked = TRUE
    Judged = FALSE
    ReviewMax = 1
    MaxExecutes = 1
    MaxEdits = 0
    MaxRefusals = 0
    MaxCrashes = 0
INVARIANT
    VerdictSeesAcceptance
CHECK_DEADLOCK FALSE
