CONSTANTS
    v = v
    s = s
    o = o
    f = f
    p1 = p1
    p2 = p2
    Jobs = {v, s}
    Stills = {s}
    Tooled = {v}
    Dirs = {v, s, o, f}
    Foreign = {f}
    Pids = {p1, p2}
    Sibling = p2
    MinOutputCeilingBytes = 40
    NoFile = NoFile
    Claim <- MCClaim
    Files <- MCFiles
    MaxFail = 1
    Crashes = 1
    None = None
SPECIFICATION Spec
CHECK_DEADLOCK FALSE
INVARIANTS
    CancelStopsUpload
    RunnerKeepsItsDir
    JobLeavesNothing
PROPERTIES
    LiveDirsSpared
