SPECIFICATION LiveSpec
CONSTANTS
  Sites = {s1}
  Configured = "configured"
  Generated <- TwoKeys
  None = "none"
  MaxEvents = 1
CHECK_DEADLOCK FALSE
INVARIANT SitesReadable
