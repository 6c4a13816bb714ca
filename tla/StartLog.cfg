SPECIFICATION LiveSpec
CONSTANTS
  Starts = {s1, s2}
  Readers = {r1}
  Lines = 3
  Capacity = 4
  Looks = 2
  NoStart = NoStart
  Open = Open
  Success = Success
  Failure = Failure
INVARIANTS
  NothingDropped
PROPERTIES
  Implements
  ReadersAreAnswered
CHECK_DEADLOCK FALSE
