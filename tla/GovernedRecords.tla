-------------------------- MODULE GovernedRecords --------------------------
(***************************************************************************)
(* The tables that the lifecycle pipeline and the maker-checker service    *)
(* share: lifecycle logs, pending_approvals, what blocks an entity; and    *)
(* who acts on them.                                                       *)
(***************************************************************************)
EXTENDS StateMachine, Sequences

CONSTANTS Entities,        \* trades, or escrow accounts
          Users, Admins,   \* who is behind a tenant or a control-plane token
          ApprovalIds      \* bound: pending_approvals keys

ASSUME RecordsAssumption == None \notin States \cup Users \cup Admins \cup ApprovalIds

VARIABLES log,        \* entity -> its lifecycle log rows, in commit order
          approvals,  \* pending_approvals: id -> row
          stop        \* entity -> what blocks it now: sanctions and freezes

(* What blocks an entity: a sanction of severity 2 or more on it or its     *)
(* organisation, a freeze on it or its organisation.                        *)
StopKinds == {"SANCTION", "FREEZE"}

(* What the two routes put in a transition input: the tenant route always   *)
(* acts as TENANT_ADMIN with a user id, the control route as PLATFORM_ADMIN *)
(* with an admin id.                                                        *)
Callers == [actor: {"TENANT_ADMIN"}, user: Users, admin: {None}] \cup
           [actor: {"PLATFORM_ADMIN"}, user: {None}, admin: Admins]

(* via is the approval named in the APPROVAL_ID: marker of the reason.      *)
LogRow   == [from: States, to: States, actor: ActorTypes, via: ApprovalIds \cup {None}]
Statuses == {"REQUESTED", "APPROVED", "REJECTED", "EXPIRED", "CANCELLED", "ESCALATED"}
Approval == [entity: Entities, from: States, to: States, maker: Callers, status: Statuses]
Active   == {"REQUESTED", "ESCALATED"}

(* pending_approvals_active_unique: one active row per entity and edge.     *)
SameSlot(a, b) == a.entity = b.entity /\ a.from = b.from /\ a.to = b.to
=============================================================================
