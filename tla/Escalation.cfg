CONSTANTS
  Ids = {e1, e2, e3}
  Targets = {trade, org}
  TenantTargets = {trade}
  NoParent = NoParent
SPECIFICATION Spec
SYMMETRY IdSymmetry
INVARIANTS
  TypeOK
  ChainWellFormed
PROPERTIES
  ThawedByAdminOnly
  ImplementsFreezeRegister
CHECK_DEADLOCK FALSE
