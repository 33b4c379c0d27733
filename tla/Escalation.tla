----------------------------- MODULE Escalation -----------------------------
(***************************************************************************)
(* The governance escalation ledger, src/server/src/services/              *)
(* escalation.service.ts, with its table and triggers (migration g022) and *)
(* the two route modules that call it.  The table escalation_events is     *)
(* append-only: a severity upgrade, a resolution and an override are each  *)
(* a NEW row whose parent is the row they act on, so the status of a row   *)
(* never changes and "is this target frozen?" is a query over the rows.    *)
(*                                                                         *)
(* Every operation reads one row and then inserts one, inside one database *)
(* transaction.  Rows are immutable and never deleted, so what was read    *)
(* still holds at the insert: each operation is one atomic action here.    *)
(***************************************************************************)
EXTENDS Naturals

CONSTANTS Ids,        \* primary keys that can be drawn
          Targets,    \* (entity_type, entity_id) pairs; an ORG pair is the org freeze
          TenantTargets, \* the pairs a tenant may name: no ORG, GLOBAL or CERTIFICATION
          NoParent    \* a NULL parent_escalation_id

ASSUME EscalationAssumption == NoParent \notin Ids /\ TenantTargets \subseteq Targets

VARIABLE rows         \* escalation_events: id -> row

Severities == 0..4
Statuses   == {"OPEN", "RESOLVED", "OVERRIDDEN"}
Closing    == {"RESOLVED", "OVERRIDDEN"}
ActorTypes == {"PLATFORM_ADMIN", "TENANT_ADMIN", "SYSTEM_AUTOMATION", "SERVICE_LAYER"}
Realms     == {"TENANT", "ADMIN"}      \* which route wrote the row

Row == [target: Targets, severity: Severities, parent: Ids \cup {NoParent},
        status: Statuses, actor: ActorTypes, realm: Realms]

FreezeLevel == 3

TypeOK == DOMAIN rows \subseteq Ids /\ rows \in [DOMAIN rows -> Row]

Init == rows = << >>

(* Trigger escalation_severity_upgrade_check, fired BEFORE INSERT: a       *)
(* closing row needs a parent; an OPEN row with a parent needs that parent *)
(* OPEN and strictly less severe.                                          *)
TriggerAccepts(row) ==
  IF row.status \in Closing
  THEN row.parent # NoParent
  ELSE row.parent # NoParent =>
         /\ rows[row.parent].status = "OPEN"
         /\ row.severity > rows[row.parent].severity

Insert(id, row) ==
  /\ id \notin DOMAIN rows
  /\ TriggerAccepts(row)
  /\ rows' = [i \in DOMAIN rows \cup {id} |-> IF i = id THEN row ELSE rows[i]]

(* createEscalation: automation may open levels 0 and 1 only.              *)
CreateEscalation(id, target, severity, actor, realm) ==
  /\ ~(actor = "SYSTEM_AUTOMATION" /\ severity >= 2)
  /\ Insert(id, [target |-> target, severity |-> severity, parent |-> NoParent,
                 status |-> "OPEN", actor |-> actor, realm |-> realm])

UpgradeBySeverityDelta(id, parent, severity, actor) ==
  /\ parent \in DOMAIN rows
  /\ rows[parent].status = "OPEN"
  /\ Insert(id, [target |-> rows[parent].target,
                 severity |-> rows[parent].severity + severity, parent |-> parent,
                 status |-> "OPEN", actor |-> actor, realm |-> "ADMIN"])

(* upgradeEscalation: the parent's own status column must be OPEN, and the *)
(* new severity strictly greater.                                          *)
UpgradeEscalation(id, parent, severity, actor) ==
  /\ parent \in DOMAIN rows
  /\ rows[parent].status = "OPEN"
  /\ severity > rows[parent].severity
  /\ Insert(id, [target |-> rows[parent].target, severity |-> severity, parent |-> parent,
                 status |-> "OPEN", actor |-> actor, realm |-> "ADMIN"])

(* The companion row of resolveEscalation and overrideEscalation.          *)
ClosingRow(original, status, realm) ==
  [target |-> rows[original].target, severity |-> rows[original].severity, parent |-> original,
   status |-> status, actor |-> rows[original].actor, realm |-> realm]

ResolveAnyStatus(id, original, realm) ==
  original \in DOMAIN rows /\ Insert(id, ClosingRow(original, "RESOLVED", realm))

ResolveInPlace(id, original, realm) ==
  /\ original \in DOMAIN rows
  /\ rows[original].status = "OPEN"
  /\ rows' = [rows EXCEPT ![original].status = "RESOLVED", ![original].realm = realm]

(* resolveEscalation and overrideEscalation: the row acted on must be OPEN *)
(* by its own status column; an override needs severity 2 or more.         *)
ResolveEscalation(id, original, realm) ==
  /\ original \in DOMAIN rows
  /\ rows[original].status = "OPEN"
  /\ Insert(id, ClosingRow(original, "RESOLVED", realm))

OverrideEscalation(id, original) ==
  /\ original \in DOMAIN rows
  /\ rows[original].status = "OPEN"
  /\ rows[original].severity >= 2
  /\ Insert(id, ClosingRow(original, "OVERRIDDEN", "ADMIN"))

(* POST /tenant/escalations and POST /tenant/escalations/:id/resolve: the  *)
(* tenant opens levels 0 and 1 and may resolve nothing above level 1.      *)
TenantCreate(id, target, severity) ==
  severity \in {0, 1} /\ CreateEscalation(id, target, severity, "TENANT_ADMIN", "TENANT")

TenantResolveAnyLevel(id, original) == ResolveEscalation(id, original, "TENANT")

TenantResolve(id, original) ==
  /\ original \in DOMAIN rows
  /\ rows[original].severity <= 1
  /\ ResolveEscalation(id, original, "TENANT")

(* The SUPER_ADMIN routes under /control/escalations: the body names the   *)
(* actor type, of a create and of an upgrade.                              *)
AdminCreate(id, target, severity, actor) == CreateEscalation(id, target, severity, actor, "ADMIN")
AdminUpgrade(id, parent, severity, actor) == UpgradeEscalation(id, parent, severity, actor)
AdminResolve(id, original) == ResolveEscalation(id, original, "ADMIN")
AdminOverride(id, original) == OverrideEscalation(id, original)

Next ==
  \E id \in Ids :
    \/ \E t \in TenantTargets, s \in Severities : TenantCreate(id, t, s)
    \/ \E o \in Ids : TenantResolve(id, o)
    \/ \E t \in Targets, s \in Severities, a \in ActorTypes : AdminCreate(id, t, s, a)
    \/ \E p \in Ids, s \in Severities, a \in ActorTypes : AdminUpgrade(id, p, s, a)
    \/ \E o \in Ids : AdminResolve(id, o)
    \/ \E o \in Ids : AdminOverride(id, o)

Spec == Init /\ [][Next]_rows

-----------------------------------------------------------------------------
(* checkEntityFreeze and checkOrgFreeze: an OPEN row of severity 3 or more *)
(* that has no RESOLVED or OVERRIDDEN child.                               *)
ClosedRow(i) == \E c \in DOMAIN rows : rows[c].parent = i /\ rows[c].status \in Closing

Holding(i) == /\ rows[i].status = "OPEN"
              /\ rows[i].severity >= FreezeLevel
              /\ ~ClosedRow(i)

Frozen(t) == \E i \in DOMAIN rows : rows[i].target = t /\ Holding(i)

(* Lineage: a row that has a parent speaks about the parent's target, its  *)
(* parent is an OPEN row, an upgrade is strictly more severe and a closing *)
(* row exactly as severe as the row it closes.  The service enforces this  *)
(* per operation; the trigger enforces only part of it.                    *)
Lineal(row) ==
  row.parent # NoParent =>
    /\ row.parent \in DOMAIN rows
    /\ rows[row.parent].status = "OPEN"
    /\ row.target = rows[row.parent].target
    /\ IF row.status = "OPEN"
       THEN row.severity > rows[row.parent].severity
       ELSE row.severity = rows[row.parent].severity

ChainWellFormed == \A i \in DOMAIN rows : Lineal(rows[i])

(* A target stops being frozen only by an admin's closing row on a row     *)
(* that was holding it: no tenant call, no upgrade and no resolution of    *)
(* another row of the chain thaws it (tenant resolve is limited to levels  *)
(* 0 and 1, override and high resolve are SUPER_ADMIN routes).             *)
ThawedByAdminOnly ==
  [][\A t \in Targets :
       Frozen(t) /\ ~Frozen(t)' =>
         \E i \in DOMAIN rows, c \in DOMAIN rows' :
            /\ rows[i].target = t /\ Holding(i)
            /\ c \notin DOMAIN rows
            /\ rows'[c].parent = i /\ rows'[c].status \in Closing
            /\ rows'[c].realm = "ADMIN"]_rows

(* The ledger implements the register of holds: every OPEN row of freeze   *)
(* severity is a hold, lifted once a closing child exists.                 *)
HoldIds == {i \in DOMAIN rows : rows[i].status = "OPEN" /\ rows[i].severity >= FreezeLevel}

Register == INSTANCE FreezeRegister
              WITH Holds  <- Ids,
                   held   <- [i \in HoldIds |-> rows[i].target],
                   lifted <- {i \in HoldIds : ClosedRow(i)}

(* Once the freeze query has stopped counting a row it never counts it     *)
(* again, and a counted row keeps its target (checkEntityFreeze against    *)
(* every operation of the service).                                        *)
ImplementsFreezeRegister == Register!Spec
=============================================================================
