SPECIFICATION Spec
CONSTANTS
    Unset = Unset
    Path = {"s1", "s2", "int", "src", "snap", "hook", "ctl", "policy"}
    ControlPath = {"ctl"}
    CodePath = {"s1", "s2", "int", "src"}
    Sample = {"s1", "src", "snap"}
    SourceSample = {"src"}
    Baseline <- BaselineGlobs
    BlockSince <- Graduations
    Test = {"t1", "t2"}
    PolicyPath = "policy"
    HookPath = {"hook"}
    Starts <- StartTrees
    Contents <- FileContents
    Touched = {"s1", "src", "hook"}
    Floors <- FloorPolicies
    Lifetime = 1
    Namings = {"head", "unset"}
    MaxHead = 2
    MaxLabels = 1
    MaxSigned = 2
    MaxDay = 2
    Source = {"v1", "v2"}
    NoClaim = NoClaim
    Window = 1
    MaxMain = 1
    MaxJudged = 1
    MaxTime = 1
    OPath = {"a", "b"}
    Cases = 2
    MaxEdits = 2
    Nothing = Nothing
    Shipped <- Shippings
    Detectable <- Detections
    Present <- Presences
    Declaration <- Declarations
    Release <- Releases
    Asking <- Askings
    Catalogue <- Catalogues
    NoHash = NoHash
    NoRecord = NoRecord
    Commands = 2
    MaxShifts = 1
    MaxForged = 1
  
PROPERTIES FloorHolds MainGuarded SignedForThis QualificationSound
CHECK_DEADLOCK FALSE
