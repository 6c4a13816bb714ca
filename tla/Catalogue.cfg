SPECIFICATION Spec
CONSTANTS
  own = own
  h1 = h1
  h2 = h2
  Snapshots = {s1, s2}
  Sites = {a, b}
  Repos = {Home, own}
  Home = Home
  NoRepo = NoRepo
  NoSnapshot = NoSnapshot
  NoSite = NoSite
  Choices <- FewChoices
  Handlers = {h1, h2}
  MaxFaults = 1
  MaxCrashes = 1
  MaxUpdates = 1
INVARIANTS
  RecordsAreBacked
  SnapshotsAreRecorded
PROPERTY DeletedIsGone
SYMMETRY Symmetry
CHECK_DEADLOCK FALSE
