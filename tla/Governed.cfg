CONSTANTS
  States <- EscrowStates
  Terminal <- EscrowTerminal
  Edges <- EscrowEdges
  InitialState = "INITIATED"
  None = None
  Entities = {x1}
  Reqs = {r1}
  Users = {u1}
  Admins = {adm}
  Targets <- RoadToRelease
  AiChoices = {"NO"}
  ApprovalIds = {a1, a2}
  MaxLog = 2
  Sessions = {s1}
  SigningAs <- UserOnly
SPECIFICATION GovernedSpec
SYMMETRY Symmetric
INVARIANTS
  TwoPersonRule
  RowKeepsToPipeline
PROPERTIES
  ImplementsApprovalRegister
CHECK_DEADLOCK FALSE
