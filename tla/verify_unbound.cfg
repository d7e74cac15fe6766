SPECIFICATION Spec
CONSTANTS
    Proc = {p1}
    Src = {"bad", "good"}
    Tests = {"strong", "weak"}
    Policy = {"suite", "noop"}
    NoPolicy = "unreadable"
    Dep = {"clean", "doctored"}
    Tree <- MCTree
    Commit = {1, 2, 3}
    Contents <- MCContents
    MergeBase <- MCMergeBase
    Mains = {1, 2}
    Green <- MCGreen
    None = None
    Gone = Gone
    May = {"head"}
    MidRun = {"head"}
    Fault = {}
    Explicit = {FALSE}
    MaxMoves = 1
    MaxFaults = 0
    MaxRuns = 1
INVARIANTS CurrentIsAdjudicated
CHECK_DEADLOCK FALSE
