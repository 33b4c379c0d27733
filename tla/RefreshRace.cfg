CONSTANTS
  None = None
  Accounts = {admin}
  Admins = {admin}
  Tokens = {t1, t2, t3, t4}
  Reqs = {r1, r2, r3}
SPECIFICATION Spec
SYMMETRY Symmetric
INVARIANTS
  TypeOK
  SingleUse
  ReplayEndsFamily
PROPERTIES
  ImplementsTokenFamilies
CHECK_DEADLOCK FALSE
