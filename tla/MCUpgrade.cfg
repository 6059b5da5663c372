CONSTANTS
    Releases = 3
    Targets <- MCTargets
    Malformed = Malformed
    None = None
    Window = 2
    Quiet = 1
    MaxTime = 4
    MaxCrashes = 1
SPECIFICATION FairSpec
CHECK_DEADLOCK FALSE
INVARIANTS
    NeverReconnects

    
    
