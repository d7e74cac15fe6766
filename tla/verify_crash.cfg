SPECIFICATION FairSpec
CONSTANTS
    Proc = {p1}
    Src = {"bad", "good"}
    Tests = {"strong", "weak"}
    Policy = {"suite", "noop"}
    NoPolicy = "unreadable"
    Dep = {"clean", "doctored"}
    Tree <- MCTree
    Commit = {1, 2, 3}
    Contents <- MCContents
    MergeBase <- MCMergeBase
    Mains = {1, 2}
    Green <- MCGreen
    None = None
    Gone = Gone
    May = {"edit", "head", "main", "deps", "wiring", "copy"}
    MidRun = {"edit", "copy"}
    Fault = {"crash", "throw", "marker", "record", "receipt"}
    Explicit = {TRUE}
    MaxMoves = 1
    MaxFaults = 2
    MaxRuns = 2
INVARIANTS CurrentIsAdjudicated 
 
CHECK_DEADLOCK FALSE
