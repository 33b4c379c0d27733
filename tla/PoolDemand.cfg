CONSTANTS
  States <- SeedStates
  Terminal <- SeedTerminal
  Edges <- SeedEdges
  None = None
  Lines = {l1, l2, l3}
  Orgs = {o1}
  Quantities = {q1, q2}
  Reqs = {r1, r2, r3}
  MaxOverlaps = 3
SPECIFICATION Spec
SYMMETRY Symmetric
INVARIANTS
  LockedOnce
  SnapshotIsFaithful
CHECK_DEADLOCK FALSE
