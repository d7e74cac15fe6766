SPECIFICATION TraceSpec
CONSTANTS
    TracePid = {1, 2}
    FirstPid = 1
    DirFd = {3, 4}
    TracedRoot <- BaseRoot
    Folders <- BaseFolders
    Files <- BaseFiles
    LinkTo <- BaseLinks
    RelativeText <- PassedRelative
    AbsoluteText <- PassedAbsolute
    TrackedAtBase <- TrackedFiles
    CoveredByVerifier <- CoveredFiles
    RunsWanted = 2
    Unset = Unset
    MaxSyscalls = 3
INVARIANTS NothingGuessed
CHECK_DEADLOCK FALSE
