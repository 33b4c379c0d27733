---------------------------- MODULE StateMachine ----------------------------
(***************************************************************************)
(* StateMachineService.transition (src/server/src/services/                *)
(* stateMachine.service.ts) with its guardrails: given the two registry    *)
(* tables lifecycle_states and allowed_transitions, what is the answer to  *)
(* one transition request?  The decision is a pure function of the request *)
(* and the tables once the sanction and freeze checks have passed, and the *)
(* tables are only written by the seed script, so it is an operator here.  *)
(***************************************************************************)
EXTENDS Naturals, FiniteSets

CONSTANTS States,     \* lifecycle_states: the registered state keys
          Terminal,   \* those with is_terminal
          Edges,      \* allowed_transitions rows
          None        \* SQL NULL

ActorTypes == {"TENANT_USER", "TENANT_ADMIN", "PLATFORM_ADMIN", "SYSTEM_AUTOMATION",
               "MAKER", "CHECKER"}

Edge == [from: States, to: States, actors: SUBSET ActorTypes, mc: BOOLEAN, esc: BOOLEAN]

ASSUME RegistryAssumption ==
  /\ Terminal \subseteq States
  /\ Edges \subseteq Edge
  /\ \A e, f \in Edges : e.from = f.from /\ e.to = f.to => e = f
  /\ \A e \in Edges : e.from # e.to

AutomationForbidden == {"APPROVED", "ORDER_CONFIRMED", "SETTLEMENT_ACKNOWLEDGED", "RELEASED",
                        "CLOSED", "CANCELLED", "REFUNDED", "VOIDED"}
AutomationTerminals == {"ESCALATED", "EXPIRED", "PENDING_REVIEW", "FULFILLED"}
HumanActors         == {"TENANT_USER", "TENANT_ADMIN", "MAKER", "CHECKER"}

(* Whether the request was triggered by an AI suggestion, and if so whether *)
(* its reason carries the HUMAN_CONFIRMED: marker.                          *)
AiFlags == {"NO", "CONFIRMED", "UNCONFIRMED"}

(* Guardrail A: exactly one principal; automation may also have none.       *)
PrincipalExclusive(q) ==
  \/ (q.user # None) # (q.admin # None)
  \/ q.actor = "SYSTEM_AUTOMATION" /\ q.user = None /\ q.admin = None

(* Guardrail B, with the target's is_terminal column.                       *)
AutomationWithinBoundary(q) ==
  q.actor = "SYSTEM_AUTOMATION" =>
    /\ q.to \notin AutomationForbidden
    /\ q.to \in Terminal => q.to \in AutomationTerminals

(* Guardrail C: an AI-triggered request needs a human actor and the marker. *)
AiConfirmed(q) == q.ai # "NO" => q.actor \in HumanActors /\ q.ai = "CONFIRMED"

(* runPreDbGuardrails: what is refused before any query.                    *)
PassesGuardrails(q) ==
  /\ PrincipalExclusive(q)
  /\ AiConfirmed(q)
  /\ q.actor = "SYSTEM_AUTOMATION" => q.to \notin AutomationForbidden

(* Steps 5 to 11: the source state is registered and not terminal, the edge *)
(* is declared, and the actor type is one the edge allows.                  *)
Declared(q) ==
  /\ q.from \in States \ Terminal
  /\ \E e \in Edges : /\ e.from = q.from
                      /\ e.to = q.to
                      /\ q.actor \in e.actors
  /\ AutomationWithinBoundary(q)

EdgeOf(q) == CHOOSE e \in Edges : e.from = q.from /\ e.to = q.to

(* A CHECKER completing what a maker with a user id requested.              *)
Completes(q) == q.actor = "CHECKER" /\ q.maker # None

VerdictOfOneActor(q) ==
  IF ~(PassesGuardrails(q) /\ Declared(q)) THEN "DENIED"
  ELSE IF EdgeOf(q).esc /\ q.level = 0 THEN "ESCALATION_REQUIRED"
  ELSE "APPLIED"

(* The status of the TransitionResult; APPLIED is the only one that writes. *)
Verdict(q) ==
  IF ~(PassesGuardrails(q) /\ Declared(q)) THEN "DENIED"
  ELSE IF EdgeOf(q).esc /\ q.level = 0 THEN "ESCALATION_REQUIRED"
  ELSE IF EdgeOf(q).mc /\ ~Completes(q) THEN "PENDING_APPROVAL"
  ELSE "APPLIED"
=============================================================================
