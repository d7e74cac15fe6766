SPECIFICATION FairSpec
CONSTANTS
    Pid = {p1, p2, p3}
    First = p1
    Supervisor = supervisor
    None = None
    HasBudget = TRUE
    DomainFault = {"kill", "hang", "spawn", "proc", "signal"}
    AgentExits = {0, 3}
    MaxRounds = 1
    Tree <- MCTree
    Commit <- MCCommit
    Dep = {"clean", "doctored"}
    Contents <- MCContents
    GraftedBase <- MCGraftedBase
    MergeBase <- MCMergeBase
    Blocks <- MCBlocks
    Green <- MCGreen
    Loadable = {1, 2, 4}
    Base = 1
    AllowDirty = FALSE
    AllowDepDrift = FALSE
    AgentMay = {"tree", "head", "rewrite", "deps"}
    OutsiderMay = {"tree", "rewrite", "deps", "hold"}
    EnvelopeFault = {"rewrites", "check", "throw"}
    MaxMoves = 2
INVARIANTS OwnedIsDrained NobodyLeft VerifiedIsJudged
PROPERTIES RunEnds
CHECK_DEADLOCK FALSE
