CONSTANTS
  States <- EscrowStates
  Terminal <- EscrowTerminal
  Edges <- SignedEdges
  None = None
  Entities = {x1}
  Users = {u1}
  Admins = {adm}
  ApprovalIds = {a1}
  Sessions = {s1, s2}
  SigningAs <- UserAndAdmin
SPECIFICATION SigningSpec
SYMMETRY Symmetric
INVARIANTS
  SigningTypeOK
  ReplayIsCountersigned
  DecisionHasSignature
  BlockedThroughoutIsNotReplayed
CHECK_DEADLOCK FALSE
