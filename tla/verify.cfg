SPECIFICATION SpecTogether
CONSTANTS
    Proc = {p1, p2}
    Src = {"bad", "good"}
    Tests = {"strong", "weak"}
    Policy = {"suite", "noop"}
    NoPolicy = "unreadable"
    Dep = {"clean", "doctored"}
    Tree <- MCTree
    Commit = {1, 2, 3}
    Contents <- MCContents
    MergeBase <- MCMergeBase
    Mains = {1, 2}
    Green <- MCGreen
    None = None
    Gone = Gone
    May = {"edit", "head", "main", "deps", "wiring", "copy"}
    MidRun = {"edit", "head", "main", "deps", "wiring", "copy"}
    Fault = {}
    Explicit = {TRUE, FALSE}
    MaxMoves = 2
    MaxFaults = 0
    MaxRuns = 2
INVARIANTS VerdictSound BaseGoverns  StoreSound
CHECK_DEADLOCK FALSE
SYMMETRY ProcSymmetry
