CONSTANTS
  States <- EscrowStates
  Terminal <- EscrowTerminal
  Edges <- EscrowEdges
  InitialState = "INITIATED"
  None = None
  Entities = {x1}
  Reqs = {r1, r2}
  Users = {u1}
  Admins = {adm}
  Targets <- RoadToRelease
  AiChoices = {"NO"}
  ApprovalIds = {a1}
  MaxLog = 2
SPECIFICATION FairSpec
PROPERTIES
  EveryRequestEnds
CHECK_DEADLOCK FALSE
