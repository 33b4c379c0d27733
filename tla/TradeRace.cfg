CONSTANTS
  States <- TradeStates
  Terminal <- TradeTerminal
  Edges <- TradeEdges
  InitialState = "DRAFT"
  None = None
  Entities = {t1}
  Reqs = {r1, r2}
  Users = {u1}
  Admins = {adm1, adm2}
  Targets <- RoadToCompliance
  AiChoices = {"NO"}
  ApprovalIds = {a1, a2}
  MaxLog = 4
SPECIFICATION Spec
SYMMETRY Symmetric
INVARIANTS
  LogStateAgree
  AnswersAreDurable
  BlockedThroughoutHasNoEffect
CHECK_DEADLOCK FALSE
