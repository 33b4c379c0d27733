CONSTANTS
  States <- SeedStates
  Terminal <- SeedTerminal
  Edges <- SeedEdges
  None = None
  i1 = i1
  i2 = i2
  Items = {i1, i2}
  Moq <- MinimumOf
  MaxQty = 2
  Carts = {c1, c2}
  Orders = {o1, o2}
  Reqs = {r1, r2, r3}
  MaxOverlaps = 2
SPECIFICATION Spec
SYMMETRY Symmetric
INVARIANTS
  TypeOK
  CartIsSoldOnce
  LedgersAgree
  OrderIsItsLog
CHECK_DEADLOCK FALSE
