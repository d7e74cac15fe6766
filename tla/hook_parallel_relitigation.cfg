CONSTANTS
  Path = {p}
  Content = {strong, other, weak}
  Unread = {}
  Weak = {weak}
  Absent = Absent
  Unlisted = {}
  Call = {k1, k2}
  None = None
  MayHide = TRUE
  MaxMoves = 2
  MaxFaults = 0
  Fault = {}
SPECIFICATION Spec
INVARIANTS NoRelitigation
