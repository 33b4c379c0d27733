------------------------------ MODULE MCTrade ------------------------------
(* Trades: the seeded registry bound to the pipeline of EntityLifecycle.   *)
EXTENDS EntityLifecycle, LifecycleSeed, TLC

(* The targets of the racing runs: the road to compliance and two exits.   *)
RoadToCompliance == {"RFQ_SENT", "NEGOTIATION", "PENDING_COMPLIANCE", "APPROVED", "CANCELLED"}

(* Every registered state, and one that is not.                            *)
AnyTarget == TradeStates \cup {"SHIPPED"}

Symmetric == Permutations(ApprovalIds) \cup Permutations(Reqs) \cup Permutations(Admins)

(* What StopsAtSecondPerson says of a trade under the seed: it never gets  *)
(* past the compliance gate.                                               *)
ASSUME ComplianceGate ==
  WithinReach = {"DRAFT", "RFQ_SENT", "NEGOTIATION", "PENDING_COMPLIANCE", "REJECTED", "CANCELLED"}
=============================================================================
