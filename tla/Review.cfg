SPECIFICATION Spec
CONSTANTS
  Rehearsals = {"rehearsal"}
  Scans = {"scan"}
  Wordpress <- TwoComponents
  Packages <- OnePackage
  Php = "php"
  Installed <- Versions
  Flaws <- TwoFlaws
  Cap = 1
  Truncated = Truncated
  Attempts = 2
  Budget = 1
  Ttl = 1
  MaxClock = 2
  MaxFlaws = 1
  MaxTrouble = 1
  None = None
PROPERTIES FlawsAreTold VerdictIsEarned QuotaKept
CHECK_DEADLOCK FALSE
