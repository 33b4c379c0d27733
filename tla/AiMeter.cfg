CONSTANTS
  Limit = 2
  HardStop = TRUE
  Preflight <- OneToken
  MaxTokens = 2
  None = None
  Keys = {k1}
  Reqs = {r1, r2}
  Months = 2
  MaxLog = 2
SPECIFICATION Spec
SYMMETRY Symmetric
INVARIANTS
  OvershootIsBounded
  MeterCoversLog
  ChargedOncePerKey
CHECK_DEADLOCK FALSE
