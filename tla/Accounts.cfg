SPECIFICATION Spec
CONSTANTS
  Slots = {p1, p2}
  Passwords = {w1, w2}
  Names = {n1, n2}
  Tokens = {t1, t2}
  None = None
  MaxEvents = 4
SYMMETRY Symmetry
CHECK_DEADLOCK FALSE
INVARIANTS
  NothingLost
PROPERTIES
  LoginKnows
  ProvenChange
  ForcedIsOver
