CONSTANTS
  StatesOfTrade <- SeedTradeStates
  TerminalOfTrade <- SeedTradeTerminal
  StatesOfEscrow <- SeedEscrowStates
  TerminalOfEscrow <- SeedEscrowTerminal
  None = None
  EdgesOfTrade <- TestTradeEdges
  EdgesOfEscrow <- TestEscrowEdges
  TradeStart = {"SETTLEMENT_PENDING"}
  EscrowStart = {"MILESTONE_PENDING", "RELEASE_PENDING"}
  References = {"ref1"}
  Reqs = {r1, r2}
  Settlers <- TenantAndChecker
  AiChoices = {"NO"}
  Amounts = {1}
  Entries <- Deposits
  Blocks = {"TRADE", "ESCROW"}
  MaxLedger = 2
SPECIFICATION MCSpec
SYMMETRY Symmetric
INVARIANTS
  ReferenceOnce
  SettlementIsCovered
  DebitRanUnblocked
  ReleasedWasPaid
PROPERTIES
  ClosesWithRelease
CHECK_DEADLOCK FALSE
