SPECIFICATION SpecAll
CONSTANTS
    Path = {p}
    Hash = {strong, weak}
    Mode = {m}
    NoHash = NoHash
    Absent = Absent
    Dir = {d}
    DirOf <- MCDirOf
    Junk = Junk
    NL = NL
    Malformed = Malformed
    ReadCap = 3
    SweepCap = 5
    Use = {"stop", "run"}
    Recursive = FALSE
    Strict = TRUE
    Fault = {"append", "torn", "health", "error", "crash", "commit", "diff"}
    LogMay = {"malformed", "oversized", "replace"}
    MaxMoves = 2
    MaxCells = 6
    MaxOdds = 1
    Client = {c1, c2}
    Service = {s1}
    None = None
    Outside = {}
    Other = {}
    Trusted = {TRUE, FALSE}
    MaxStarts = 2
    ServiceFault = {"throw", "crash"}
    Content = {strong, weak}
    Unhashed = Unhashed
    Tick = 2
    Margin = 2
    Revalidate = 4
    MaxNow = 6
    MaxCalls = 2
    Reply = {"q1"}
    Breakage = {"callback", "timeout", "identity"}
    Request <- Proposals
    Company <- Companies
    Measured <- Measurements
    MaxEvents = 2
    Mutation <- ProbedMutations
    Transport <- ProbedTransports
    Spec1 = "a"
    MaxToolCalls = 1
INVARIANTS HealthyIsComplete StrictRunClassifiesAll ServedOnce HitIsCurrent HostedSound ProbeSound
PROPERTIES KeepsLedger HookAnswers
CHECK_DEADLOCK FALSE
