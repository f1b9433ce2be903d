\* One task, a check, a judge, two attempts, and one of each accident.
SPECIFICATION FairSpec
CONSTANTS
    MaxRuns = 2
    Budget = 2
    Checked = TRUE
    Judged = TRUE
    ReviewMax = 1
    MaxExecutes = 1
    MaxEdits = 1
    MaxRefusals = 1
    MaxCrashes = 1
INVARIANTS
    TypeOK
    OneLineage
    JudgeIsHeeded
    RepeatsNeedCrash
    DeliveredIsAccepted
PROPERTIES
    GoalsProgress
    TaskFollowsTip
CHECK_DEADLOCK FALSE
