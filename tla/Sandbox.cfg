SPECIFICATION Spec
CONSTANTS
  Slots = {p1, p2}
  Sites = {s1, s2}
  Keys = {k1, k2, k3}
  None = None
  MaxEvents = 4
  MaxAlone = 6
SYMMETRY Symmetry
INVARIANTS
  TypeOK OneRow SshWorks RunningIsReachable ConnectionIsReal FlagMeansDamage DamageMeansFlag
  StateNamesRow
PROPERTIES DeletedIsGone
CHECK_DEADLOCK FALSE
