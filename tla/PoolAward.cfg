CONSTANTS
  States <- SeedStates
  Terminal <- SeedTerminal
  Edges <- SeedEdges
  None = None
  Suppliers = {s1, s2, s3}
  Users = {u1, u2}
  ApprovalIds = {a1, a2}
  Reqs = {r1, r2}
  MaxOverlaps = 2
SPECIFICATION Spec
SYMMETRY Symmetric
INVARIANTS
  AwardedByTwo
  AwardIsCoherent
PROPERTIES
  ImplementsTender
  PoolFollowsRegistry
CHECK_DEADLOCK FALSE
