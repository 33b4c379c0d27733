--------------------------- MODULE LifecycleSeed ---------------------------
(***************************************************************************)
(* The rows of lifecycle_states and allowed_transitions: trades, escrows   *)
(* and orders from src/server/scripts/seed_state_machine.ts, pools from    *)
(* the migration nc_pool_lifecycle_seed.                                   *)
(***************************************************************************)
LOCAL Row(from, to, actors, mc, esc) ==
  [from |-> from, to |-> to, actors |-> actors, mc |-> mc, esc |-> esc]

LOCAL TU == "TENANT_USER"
LOCAL TA == "TENANT_ADMIN"
LOCAL PA == "PLATFORM_ADMIN"
LOCAL SA == "SYSTEM_AUTOMATION"
LOCAL MK == "MAKER"
LOCAL CK == "CHECKER"

TradeTerminal == {"REJECTED", "CLOSED", "CANCELLED"}
TradeStates   == TradeTerminal \cup
  {"DRAFT", "RFQ_SENT", "NEGOTIATION", "PENDING_COMPLIANCE", "APPROVED", "ORDER_CONFIRMED",
   "FULFILLMENT", "SETTLEMENT_PENDING", "SETTLEMENT_ACKNOWLEDGED", "DISPUTED", "ESCALATED"}

TradeNegotiationEdges ==
  { Row("DRAFT", "RFQ_SENT", {TU, TA, MK}, FALSE, FALSE),
    Row("DRAFT", "CANCELLED", {TU, TA}, FALSE, FALSE),
    Row("RFQ_SENT", "NEGOTIATION", {TU, TA, MK, CK}, FALSE, FALSE),
    Row("RFQ_SENT", "REJECTED", {TA, PA, CK}, FALSE, FALSE),
    Row("RFQ_SENT", "CANCELLED", {TU, TA}, FALSE, FALSE),
    Row("NEGOTIATION", "PENDING_COMPLIANCE", {TA, MK, CK}, FALSE, FALSE),
    Row("NEGOTIATION", "REJECTED", {TA, PA}, FALSE, FALSE),
    Row("NEGOTIATION", "CANCELLED", {TU, TA}, FALSE, FALSE),
    Row("PENDING_COMPLIANCE", "APPROVED", {CK, PA}, TRUE, FALSE),
    Row("PENDING_COMPLIANCE", "REJECTED", {CK, PA}, TRUE, FALSE),
    Row("PENDING_COMPLIANCE", "ESCALATED", {PA, SA}, FALSE, TRUE),
    Row("APPROVED", "ORDER_CONFIRMED", {MK, CK}, TRUE, FALSE),
    Row("APPROVED", "CANCELLED", {MK, CK, PA}, TRUE, FALSE) }

TradeFulfilmentEdges ==
  { Row("ORDER_CONFIRMED", "FULFILLMENT", {TA, MK, PA}, FALSE, FALSE),
    Row("ORDER_CONFIRMED", "DISPUTED", {TU, TA}, FALSE, FALSE),
    Row("ORDER_CONFIRMED", "CANCELLED", {MK, CK, PA}, TRUE, FALSE),
    Row("FULFILLMENT", "SETTLEMENT_PENDING", {TA, MK, PA}, FALSE, FALSE),
    Row("FULFILLMENT", "DISPUTED", {TU, TA}, FALSE, FALSE),
    Row("FULFILLMENT", "ESCALATED", {PA, SA}, FALSE, TRUE),
    Row("SETTLEMENT_PENDING", "SETTLEMENT_ACKNOWLEDGED", {MK, CK}, TRUE, FALSE),
    Row("SETTLEMENT_PENDING", "DISPUTED", {TU, TA}, FALSE, FALSE),
    Row("SETTLEMENT_PENDING", "ESCALATED", {PA, SA}, FALSE, TRUE),
    Row("SETTLEMENT_ACKNOWLEDGED", "CLOSED", {TA, PA, CK}, FALSE, FALSE),
    Row("DISPUTED", "NEGOTIATION", {TU, TA, PA}, FALSE, FALSE),
    Row("DISPUTED", "ESCALATED", {TA, PA, SA}, FALSE, TRUE),
    Row("DISPUTED", "CANCELLED", {MK, CK, PA}, TRUE, FALSE),
    Row("ESCALATED", "CLOSED", {PA}, FALSE, FALSE),
    Row("ESCALATED", "CANCELLED", {PA, CK}, TRUE, FALSE),
    Row("ESCALATED", "REJECTED", {PA, CK}, TRUE, FALSE) }

TradeEdges == TradeNegotiationEdges \cup TradeFulfilmentEdges

(* NOT_APPLICABLE is seeded terminal, and has an outbound edge all the same. *)
EscrowTerminal == {"NOT_APPLICABLE", "RELEASED", "REFUNDED", "VOIDED"}
EscrowStates   == EscrowTerminal \cup {"INITIATED", "MILESTONE_PENDING", "RELEASE_PENDING"}

EscrowEdges ==
  { Row("NOT_APPLICABLE", "INITIATED", {TA, PA, MK, CK}, TRUE, FALSE),
    Row("INITIATED", "MILESTONE_PENDING", {TA, MK}, FALSE, FALSE),
    Row("INITIATED", "VOIDED", {PA, CK}, TRUE, TRUE),
    Row("MILESTONE_PENDING", "RELEASE_PENDING", {TA, MK, CK}, TRUE, FALSE),
    Row("MILESTONE_PENDING", "REFUNDED", {MK, CK, PA}, TRUE, FALSE),
    Row("RELEASE_PENDING", "RELEASED", {MK, CK}, TRUE, FALSE),
    Row("RELEASE_PENDING", "REFUNDED", {MK, CK, PA}, TRUE, FALSE),
    Row("RELEASE_PENDING", "VOIDED", {PA}, FALSE, TRUE) }

OrderTerminal == {"FULFILLED", "CANCELLED"}
OrderStates   == OrderTerminal \cup {"PAYMENT_PENDING", "CONFIRMED"}

OrderEdges ==
  { Row("PAYMENT_PENDING", "CONFIRMED", {SA, TA}, FALSE, FALSE),
    Row("CONFIRMED", "FULFILLED", {SA, TA, PA}, FALSE, FALSE),
    Row("CONFIRMED", "CANCELLED", {TU, TA, PA}, FALSE, FALSE),
    Row("PAYMENT_PENDING", "CANCELLED", {TU, TA, PA}, FALSE, FALSE) }

PoolTerminal == {"SETTLED", "REJECTED", "WITHDRAWN", "CANCELLED"}
PoolStates   == PoolTerminal \cup
  {"DRAFT", "OPEN", "AGGREGATING", "CLOSED_FOR_BIDS", "QUOTED", "ACCEPTED", "ALLOCATING",
   "ALLOCATED", "ORDERED", "IN_FULFILMENT", "PARTIALLY_DELIVERED", "DELIVERED",
   "SETTLEMENT_PENDING"}

PoolEdges ==
  { Row("DRAFT", "OPEN", {TA, PA}, FALSE, FALSE),
    Row("OPEN", "AGGREGATING", {TA, SA}, FALSE, FALSE),
    Row("AGGREGATING", "CLOSED_FOR_BIDS", {TA, PA}, FALSE, FALSE),
    Row("CLOSED_FOR_BIDS", "QUOTED", {TA, PA}, FALSE, FALSE),
    Row("QUOTED", "ACCEPTED", {TA, PA, CK}, TRUE, FALSE),
    Row("QUOTED", "REJECTED", {TA, PA}, FALSE, FALSE),
    Row("ACCEPTED", "ALLOCATING", {TA, SA}, FALSE, FALSE),
    Row("ALLOCATING", "ALLOCATED", {TA, SA}, FALSE, FALSE),
    Row("ALLOCATED", "ORDERED", {TA, PA}, FALSE, FALSE),
    Row("ORDERED", "IN_FULFILMENT", {TA, SA}, FALSE, FALSE),
    Row("IN_FULFILMENT", "PARTIALLY_DELIVERED", {TA, PA}, FALSE, FALSE),
    Row("IN_FULFILMENT", "DELIVERED", {TA, PA}, FALSE, FALSE),
    Row("PARTIALLY_DELIVERED", "DELIVERED", {TA, PA}, FALSE, FALSE),
    Row("PARTIALLY_DELIVERED", "SETTLEMENT_PENDING", {TA, PA}, FALSE, FALSE),
    Row("DELIVERED", "SETTLEMENT_PENDING", {TA, SA}, FALSE, FALSE),
    Row("SETTLEMENT_PENDING", "SETTLED", {PA, CK}, TRUE, FALSE),
    Row("DRAFT", "CANCELLED", {TA, PA}, FALSE, FALSE),
    Row("OPEN", "CANCELLED", {TA, PA}, FALSE, FALSE),
    Row("AGGREGATING", "WITHDRAWN", {TA, PA}, FALSE, FALSE),
    Row("CLOSED_FOR_BIDS", "WITHDRAWN", {TA, PA}, FALSE, FALSE),
    Row("QUOTED", "WITHDRAWN", {TA, PA}, FALSE, FALSE),
    Row("ACCEPTED", "CANCELLED", {PA}, FALSE, TRUE),
    Row("ALLOCATING", "CANCELLED", {PA}, FALSE, TRUE),
    Row("ALLOCATED", "CANCELLED", {PA}, FALSE, TRUE) }
=============================================================================
