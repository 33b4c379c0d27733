--------------------------- MODULE MCSettlement ---------------------------
(* A trade and its escrow under two registries: as the tests mock them,    *)
(* with requests that overlap, and as they are seeded, with one request at *)
(* a time.                                                                 *)
EXTENDS Settlement, TLC

(* The seed, and the seed as the unit tests of settlement mock it: the two *)
(* edges of a settlement need no second person.                            *)
Seed == INSTANCE LifecycleSeed

WithoutMakerChecker(edges, to) == {[e EXCEPT !.mc = e.mc /\ e.to # to] : e \in edges}

SeedTradeStates    == Seed!TradeStates
SeedTradeTerminal  == Seed!TradeTerminal
SeedTradeEdges     == Seed!TradeEdges
SeedEscrowStates   == Seed!EscrowStates
SeedEscrowTerminal == Seed!EscrowTerminal
SeedEscrowEdges    == Seed!EscrowEdges
TestTradeEdges     == WithoutMakerChecker(Seed!TradeEdges, "SETTLEMENT_ACKNOWLEDGED")
TestEscrowEdges    == WithoutMakerChecker(Seed!EscrowEdges, "RELEASED")

Tenants == [route: {"TENANT"}, actor: {"TENANT_USER", "TENANT_ADMIN"}]
Control == [route: {"CONTROL"}, actor: {"PLATFORM_ADMIN", "MAKER", "CHECKER"}]

Everyone == Tenants \cup Control

TenantAndChecker == [route: {"TENANT"}, actor: {"TENANT_ADMIN"}] \cup
                    [route: {"CONTROL"}, actor: {"CHECKER"}]

LOCAL Manual(entry, dir, amount, ref) ==
  [entry |-> entry, dir |-> dir, amount |-> amount, ref |-> ref, settled |-> FALSE]

(* A deposit, a refund, a release by hand under a reference of its own.    *)
AnyEntry == {Manual("HOLD", "CREDIT", 2, None), Manual("REFUND", "DEBIT", 1, None),
             Manual("RELEASE", "DEBIT", 1, "ref1")}
Deposits == {Manual("HOLD", "CREDIT", 2, None), Manual("HOLD", "CREDIT", 2, "ref1")}

-----------------------------------------------------------------------------
VARIABLE registry   \* which of the two this behaviour runs under

MCvars == <<vars, registry>>

Deployed == INSTANCE Settlement
              WITH EdgesOfTrade <- SeedTradeEdges, EdgesOfEscrow <- SeedEscrowEdges,
                   TradeStart <- {"PENDING_COMPLIANCE", "SETTLEMENT_PENDING"},
                   EscrowStart <- {"INITIATED", "RELEASE_PENDING"},
                   References <- {"ref1", "ref2"}, Settlers <- Everyone,
                   AiChoices <- {"NO", "UNCONFIRMED", "CONFIRMED"}, Amounts <- {1, 2},
                   Entries <- AnyEntry, Blocks <- {"SANCTION"}, MaxLedger <- 3

ASSUME BothRegistries == SettledOnlyHere /\ Deployed!SettledOnlyHere

MCInit ==
  \/ registry = "mock" /\ Init
  \/ registry = "seed" /\ Deployed!Init

MCNext ==
  /\ UNCHANGED registry
  /\ \/ registry = "mock" /\ Next
     \/ registry = "seed" /\ Deployed!Next /\ Cardinality(DOMAIN tx') <= 1

MCSpec == MCInit /\ [][MCNext]_MCvars

Symmetric == Permutations(Reqs)
=============================================================================
