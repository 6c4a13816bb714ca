SPECIFICATION LiveSpec
CONSTANTS
  Sites = {s1, s2}
  Configured = "configured"
  Generated <- TwoKeys
  None = "none"
  MaxEvents = 3
CHECK_DEADLOCK FALSE
INVARIANTS
  SecretsReadable
  SecretsSealed
  SecretsKept
PROPERTY EventuallyServes
