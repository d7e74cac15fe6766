SPECIFICATION Spec
CONSTANTS
    Inode = {"f", "g", "o", "l", "p", "d", "s"}
    KindOf <- Kinds
    NoInode = NoInode
    MaxSwaps = 3
    Pid = {"p", "q"}
    MaxBirth = 3
    MaxStages = 2
    Works <- CandidateTrees
    Bases <- BaseTrees
    DepTrees <- DependencyTrees
    Covered <- Surface
    Lower <- LowerCase
    MaxHops = 4
    Beyond = {}
    Bytes = {"c1", "c2"}
    Commands <- SomeCommands
    MaxDescriptors = 1
    MaxChanges = 2
    TracePid = {1, 2}
    FirstPid = 1
    DirFd = {3, 4}
    TracedRoot <- BaseRoot
    Folders <- BaseFolders
    Files <- BaseFiles
    LinkTo <- BaseLinks
    RelativeText <- PassedRelative
    AbsoluteText <- PassedAbsolute
    TrackedAtBase <- TrackedFiles
    CoveredByVerifier <- CoveredFiles
    RunsWanted = 2
    Unset = Unset
    MaxSyscalls = 3
INVARIANTS  CopySound  TraceSound
PROPERTIES OutsideSound StageEnds
CHECK_DEADLOCK FALSE
