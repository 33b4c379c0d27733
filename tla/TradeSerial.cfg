CONSTANTS
  States <- TradeStates
  Terminal <- TradeTerminal
  Edges <- TradeEdges
  InitialState = "DRAFT"
  None = None
  Entities = {t1}
  Reqs = {r1}
  Users = {u1}
  Admins = {adm}
  Targets <- AnyTarget
  AiChoices = {"NO", "CONFIRMED", "UNCONFIRMED"}
  ApprovalIds = {a1, a2}
  MaxLog = 6
SPECIFICATION Spec
INVARIANTS
  TypeOK
  StopsAtSecondPerson
PROPERTIES
  ImplementsLifecycleRegister
CHECK_DEADLOCK FALSE
