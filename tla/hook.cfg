CONSTANTS
  Path = {p, q}
  Content = {strong, weak, opaque}
  Unread = {opaque}
  Weak = {weak, opaque}
  Absent = Absent
  Unlisted = {q}
  Call = {k1, k2}
  None = None
  MayHide = TRUE
  MaxMoves = 3
  WideMoves = 2
  MaxFaults = 1
  Fault = {"hook", "sweep", "ptree"}
SPECIFICATION SpecEither
CONSTRAINT FaultsLaterWhenWide
INVARIANTS VisibleSweepSound AloneSound WideSound
PROPERTIES BaselineMovesAtCleanStop
SYMMETRY CallSymmetry
