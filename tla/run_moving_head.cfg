SPECIFICATION Spec
CONSTANTS
    Pid = {p1}
    First = p1
    Supervisor = supervisor
    None = None
    HasBudget = FALSE
    DomainFault = {}
    AgentExits = {0, 3}
    MaxRounds = 1
    Tree <- MCTree
    Commit <- MCCommit
    Dep = {"clean", "doctored"}
    Contents <- MCContents
    GraftedBase <- MCGraftedBase
    MergeBase <- MCMergeBase
    Blocks <- MCBlocks
    Green <- MCGreen
    Loadable = {1, 2, 4}
    Base = 1
    AllowDirty = FALSE
    AllowDepDrift = FALSE
    AgentMay = {"tree"}
    OutsiderMay = {"head"}
    EnvelopeFault = {}
    MaxMoves = 2
INVARIANTS VerifiedIsJudged
CHECK_DEADLOCK FALSE
