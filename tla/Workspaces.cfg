\* Two runs, a place for one, a change of the source, an edit and a crash.
SPECIFICATION FairSpec
CONSTANTS
    Runs = {1, 2}
    Capacity = 1
    MaxAttempts = 1
    MaxClaims = 2
    MaxChanges = 1
    MaxEdits = 1
    MaxCrashes = 1
INVARIANTS
    TypeOK
    WorkspaceStands
    NothingIsLeftBehind
PROPERTIES
    ClaimsAreGivenBack
CHECK_DEADLOCK FALSE
