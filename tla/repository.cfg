SPECIFICATION Spec
CONSTANTS
    Task = {t1}
    Experiment = {e1, e2}
    Commit = {c1, c2}
    PairNumber = {1, 2}
    Runner = {r1, r2}
    Plan = {"p1", "p2"}
    TaskOrder <- OneTask
    Pairs = 2
    NoLock = NoLock
    MaxStarts = 3
    MaxHead = 2
    MaxWrites = 1
    BatchOrder <- Batches
    Event <- Events
    Legacy <- NoLegacy
    Offered <- Offers
    MaxMonth = 2
    MaxFiles = 1
    Tool = {"Bash", "Edit"}
    Current = 2
    CriticalPath = {"workflows", "policy"}
    Command = {"npm", "other"}
    None = None
    Standing <- AllFiles
    Edits <- AllEdits
    Checkouts <- Repos
    MaxChanges = 1
    RequiredCheck = {"gate", "test"}
    Trusted = "actions"
    Rulesets <- BranchRules
    Classics <- ClassicRules
    Unseen = Unseen
    Payload <- Payloads
    Calls <- ItsCalls
    CwdClaim = {"none", "root", "link", "gone"}
    MaxLanded = 2
INVARIANTS ResearchSound SteeringSound InstallationSound
PROPERTIES NothingLost InstallationKeeps
CHECK_DEADLOCK FALSE
