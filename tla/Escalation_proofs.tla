------------------------- MODULE Escalation_proofs -------------------------
EXTENDS Escalation, TLAPS

(* Every operation of the ledger inserts one well-typed row whose parent,  *)
(* if it has one, is a row of the ledger it may legally follow.            *)
LEMMA StepInserts ==
  ASSUME TypeOK, Next
  PROVE  \E id \in Ids, row \in Row :
            /\ Insert(id, row)
            /\ Lineal(row)
            /\ row.status \in Closing /\ row.severity >= 2 => row.realm = "ADMIN"
            /\ row.status \in Closing => row.parent # NoParent
<1> USE EscalationAssumption
<1> DEFINE Good(row) == /\ row \in Row
                        /\ Lineal(row)
                        /\ row.status \in Closing /\ row.severity >= 2 => row.realm = "ADMIN"
                        /\ row.status \in Closing => row.parent # NoParent
<1>1. SUFFICES ASSUME NEW id \in Ids,
                      \/ \E t \in TenantTargets, s \in Severities : TenantCreate(id, t, s)
                      \/ \E o \in Ids : TenantResolve(id, o)
                      \/ \E t \in Targets, s \in Severities, a \in ActorTypes : AdminCreate(id, t, s, a)
                      \/ \E p \in Ids, s \in Severities, a \in ActorTypes : AdminUpgrade(id, p, s, a)
                      \/ \E o \in Ids : AdminResolve(id, o)
                      \/ \E o \in Ids : AdminOverride(id, o)
               PROVE  \E row : Insert(id, row) /\ Good(row)
  BY DEF Next
<1>2. ASSUME NEW t \in Targets, NEW s \in Severities, NEW a \in ActorTypes, NEW r \in Realms,
             CreateEscalation(id, t, s, a, r)
      PROVE  \E row : Insert(id, row) /\ Good(row)
  <2> DEFINE row == [target |-> t, severity |-> s, parent |-> NoParent,
                     status |-> "OPEN", actor |-> a, realm |-> r]
  <2>1. Insert(id, row)
    BY <1>2 DEF CreateEscalation
  <2>2. Good(row)
    BY DEF Row, Statuses, Closing, Lineal
  <2> QED BY <2>1, <2>2
<1>3. ASSUME NEW p \in Ids, NEW s \in Severities, NEW a \in ActorTypes, UpgradeEscalation(id, p, s, a)
      PROVE  \E row : Insert(id, row) /\ Good(row)
  <2> DEFINE row == [target |-> rows[p].target, severity |-> s, parent |-> p,
                     status |-> "OPEN", actor |-> a, realm |-> "ADMIN"]
  <2>1. Insert(id, row) /\ p \in DOMAIN rows /\ rows[p].status = "OPEN" /\ s > rows[p].severity
    BY <1>3 DEF UpgradeEscalation
  <2>2. rows[p] \in Row
    BY <2>1 DEF TypeOK
  <2>3. Good(row)
    BY <2>1, <2>2 DEF Row, Statuses, Closing, Realms, Lineal
  <2> QED BY <2>1, <2>3
<1>4. ASSUME NEW o \in Ids, NEW status \in Closing, NEW r \in Realms,
             o \in DOMAIN rows, rows[o].status = "OPEN",
             rows[o].severity >= 2 => r = "ADMIN",
             Insert(id, ClosingRow(o, status, r))
      PROVE  \E row : Insert(id, row) /\ Good(row)
  <2>1. rows[o] \in Row
    BY <1>4 DEF TypeOK
  <2>2. /\ ClosingRow(o, status, r) \in Row
        /\ ClosingRow(o, status, r).parent = o
        /\ ClosingRow(o, status, r).status = status
        /\ ClosingRow(o, status, r).realm = r
        /\ ClosingRow(o, status, r).severity = rows[o].severity
        /\ ClosingRow(o, status, r).target = rows[o].target
    BY <2>1, <1>4 DEF ClosingRow, Row, Statuses, Closing, Realms
  <2>3. Good(ClosingRow(o, status, r))
    BY <2>1, <2>2, <1>4 DEF Closing, Lineal, Row, Severities
  <2> QED BY <2>3, <1>4
<1>5. CASE \E t \in TenantTargets, s \in Severities : TenantCreate(id, t, s)
  BY <1>5, <1>2 DEF TenantCreate, ActorTypes, Realms
<1>6. CASE \E o \in Ids : TenantResolve(id, o)
  <2> PICK o \in Ids : TenantResolve(id, o)
    BY <1>6
  <2>1. o \in DOMAIN rows /\ rows[o] \in Row /\ rows[o].severity <= 1 /\ rows[o].status = "OPEN"
        /\ Insert(id, ClosingRow(o, "RESOLVED", "TENANT"))
    BY DEF TenantResolve, ResolveEscalation, TypeOK
  <2> QED BY <2>1, <1>4 DEF Closing, Realms, Row, Severities
<1>7. CASE \E t \in Targets, s \in Severities, a \in ActorTypes : AdminCreate(id, t, s, a)
  BY <1>7, <1>2 DEF AdminCreate, Realms
<1>8. CASE \E p \in Ids, s \in Severities, a \in ActorTypes : AdminUpgrade(id, p, s, a)
  BY <1>8, <1>3 DEF AdminUpgrade
<1>9. CASE \E o \in Ids : AdminResolve(id, o)
  BY <1>9, <1>4 DEF AdminResolve, ResolveEscalation, Closing, Realms
<1>10. CASE \E o \in Ids : AdminOverride(id, o)
  BY <1>10, <1>4 DEF AdminOverride, OverrideEscalation, Closing, Realms
<1> QED BY <1>1, <1>5, <1>6, <1>7, <1>8, <1>9, <1>10

(* The ledger's column types, for every number of rows and targets.        *)
THEOREM TypeCorrect == Spec => []TypeOK
<1>1. Init => TypeOK
  BY DEF Init, TypeOK
<1>2. TypeOK /\ [Next]_rows => TypeOK'
  <2> SUFFICES ASSUME TypeOK, [Next]_rows PROVE TypeOK'
    OBVIOUS
  <2>1. CASE Next
    <3> PICK id \in Ids, row \in Row : Insert(id, row)
      BY <2>1, StepInserts
    <3> QED BY DEF TypeOK, Insert
  <2>2. CASE UNCHANGED rows
    BY <2>2 DEF TypeOK
  <2> QED BY <2>1, <2>2
<1> QED BY <1>1, <1>2, PTL DEF Spec
(* Rows survive every step unchanged; the step adds at most one.           *)
LEMMA RowsOnlyGrow ==
  ASSUME NEW id, NEW row, Insert(id, row)
  PROVE  /\ DOMAIN rows' = DOMAIN rows \cup {id}
         /\ rows'[id] = row
         /\ id \notin DOMAIN rows
         /\ \A i \in DOMAIN rows : rows'[i] = rows[i]
BY DEF Insert

(* Lineage is an invariant: a closing row never becomes a parent, a chain  *)
(* never changes target and its severities only rise.                      *)
THEOREM LineageInvariant == Spec => []ChainWellFormed
<1>1. Init => ChainWellFormed
  BY DEF Init, ChainWellFormed
<1>2. TypeOK /\ ChainWellFormed /\ [Next]_rows => ChainWellFormed'
  <2> SUFFICES ASSUME TypeOK, ChainWellFormed, [Next]_rows PROVE ChainWellFormed'
    OBVIOUS
  <2>1. CASE Next
    <3> PICK id \in Ids, row \in Row : Insert(id, row) /\ Lineal(row)
      BY <2>1, StepInserts
    <3>1. /\ DOMAIN rows' = DOMAIN rows \cup {id}
          /\ rows'[id] = row
          /\ \A i \in DOMAIN rows : rows'[i] = rows[i]
      BY RowsOnlyGrow
    <3>2. ASSUME NEW r, Lineal(r) PROVE Lineal(r)'
      BY <3>1, <3>2 DEF Lineal
    <3>3. \A i \in DOMAIN rows' : Lineal(rows'[i])
      BY <3>1, <3>2 DEF ChainWellFormed, Lineal
    <3> QED BY <3>3, <3>1 DEF ChainWellFormed, Lineal
  <2>2. CASE UNCHANGED rows
    BY <2>2 DEF ChainWellFormed, Lineal
  <2> QED BY <2>1, <2>2
<1> QED BY <1>1, <1>2, TypeCorrect, PTL DEF Spec

(* A freeze ends only through an admin's closing row on a holding row.     *)
THEOREM ThawIsAdmins == Spec => ThawedByAdminOnly
<1> DEFINE Thaw(t, i, c) == /\ rows[i].target = t /\ Holding(i)
                            /\ c \notin DOMAIN rows
                            /\ rows'[c].parent = i /\ rows'[c].status \in Closing
                            /\ rows'[c].realm = "ADMIN"
<1>1. ASSUME TypeOK, Next, NEW t \in Targets, Frozen(t), ~Frozen(t)'
      PROVE  \E i \in DOMAIN rows, c \in DOMAIN rows' : Thaw(t, i, c)
  <2> PICK id \in Ids, row \in Row :
        /\ Insert(id, row)
        /\ Lineal(row)
        /\ row.status \in Closing /\ row.severity >= 2 => row.realm = "ADMIN"
        /\ row.status \in Closing => row.parent # NoParent
    BY <1>1, StepInserts
  <2>1. /\ DOMAIN rows' = DOMAIN rows \cup {id}
        /\ rows'[id] = row
        /\ id \notin DOMAIN rows
        /\ \A i \in DOMAIN rows : rows'[i] = rows[i]
    BY RowsOnlyGrow
  <2> PICK i \in DOMAIN rows : rows[i].target = t /\ Holding(i)
    BY <1>1 DEF Frozen
  <2>2. i \in DOMAIN rows' /\ rows'[i] = rows[i]
    BY <2>1
  <2>3. ~Holding(i)'
    BY <1>1, <2>2 DEF Frozen
  <2>4. ClosedRow(i)'
    BY <2>3, <2>2 DEF Holding
  <2>5. row.parent = i /\ row.status \in Closing
    BY <2>4, <2>1 DEF ClosedRow, Holding
  <2>6. row.severity = rows[i].severity
    BY <2>5 DEF Lineal, Closing
  <2>7. row.realm = "ADMIN"
    BY <2>5, <2>6, <1>1 DEF Holding, FreezeLevel, TypeOK, Row, Severities
  <2>8. Thaw(t, i, id)
    BY <2>1, <2>5, <2>7
  <2> QED BY <2>8, <2>1
<1>2. TypeOK /\ [Next]_rows =>
        [\A t \in Targets :
           Frozen(t) /\ ~Frozen(t)' =>
             \E i \in DOMAIN rows, c \in DOMAIN rows' :
                /\ rows[i].target = t /\ Holding(i)
                /\ c \notin DOMAIN rows
                /\ rows'[c].parent = i /\ rows'[c].status \in Closing
                /\ rows'[c].realm = "ADMIN"]_rows
  BY <1>1
<1> QED BY <1>2, TypeCorrect, PTL DEF Spec, ThawedByAdminOnly

(* The append-only ledger with its freeze query is a register of holds.    *)
THEOREM LedgerImplementsRegister == Spec => ImplementsFreezeRegister
<1> DEFINE held == [i \in HoldIds |-> rows[i].target]
           lifted == {i \in HoldIds : ClosedRow(i)}
<1>1. Init => Register!Init
  BY DEF Init, Register!Init, HoldIds, ClosedRow
<1>2. TypeOK /\ ChainWellFormed /\ [Next]_rows => [Register!Next]_<<held, lifted>>
  <2> SUFFICES ASSUME TypeOK, ChainWellFormed, [Next]_rows
               PROVE  [Register!Next]_<<held, lifted>>
    OBVIOUS
  <2>1. CASE UNCHANGED rows
    BY <2>1 DEF HoldIds, ClosedRow
  <2>2. CASE Next
    <3> PICK id \in Ids, row \in Row :
          /\ Insert(id, row)
          /\ Lineal(row)
          /\ row.status \in Closing => row.parent # NoParent
      BY <2>2, StepInserts
    <3>1. /\ DOMAIN rows' = DOMAIN rows \cup {id}
          /\ rows'[id] = row
          /\ id \notin DOMAIN rows
          /\ \A i \in DOMAIN rows : rows'[i] = rows[i]
      BY RowsOnlyGrow
    <3>2. \A i \in DOMAIN rows : rows[i].parent # id
      BY <3>1, EscalationAssumption DEF ChainWellFormed, Lineal
    <3>3. row.parent # id
      BY <3>1, EscalationAssumption DEF Lineal
    <3>4. ~ClosedRow(id)'
      BY <3>1, <3>2, <3>3 DEF ClosedRow
    <3>5. CASE row.status = "OPEN"
      <4>1. \A i \in DOMAIN rows : ClosedRow(i)' <=> ClosedRow(i)
        BY <3>1, <3>5 DEF ClosedRow, Closing
      <4>2. lifted' = lifted
        BY <3>1, <3>4, <4>1 DEF HoldIds
      <4>3. CASE row.severity >= FreezeLevel
        <5>1. HoldIds' = HoldIds \cup {id} /\ id \notin HoldIds
          BY <3>1, <3>5, <4>3 DEF HoldIds
        <5>2. held' = [g \in DOMAIN held \cup {id} |-> IF g = id THEN row.target ELSE held[g]]
          BY <3>1, <5>1 DEF HoldIds
        <5>3. Register!Place(id, row.target)
          BY <4>2, <5>1, <5>2 DEF Register!Place
        <5> QED BY <5>3 DEF Register!Next, Row
      <4>4. CASE ~(row.severity >= FreezeLevel)
        <5>1. HoldIds' = HoldIds
          BY <3>1, <4>4 DEF HoldIds
        <5>2. held' = held
          BY <3>1, <5>1 DEF HoldIds
        <5> QED BY <4>2, <5>2
      <4> QED BY <4>3, <4>4
    <3>6. CASE row.status \in Closing
      <4>1. HoldIds' = HoldIds
        BY <3>1, <3>6 DEF HoldIds, Closing
      <4>2. held' = held
        BY <3>1, <4>1 DEF HoldIds
      <4>3. \A i \in DOMAIN rows : ClosedRow(i)' <=> (ClosedRow(i) \/ row.parent = i)
        BY <3>1, <3>6 DEF ClosedRow
      <4>4. lifted' = IF row.parent \in HoldIds THEN lifted \cup {row.parent} ELSE lifted
        BY <4>1, <4>3 DEF HoldIds
      <4>5. CASE row.parent \in HoldIds \ lifted
        <5>1. Register!Lift(row.parent)
          BY <4>2, <4>4, <4>5 DEF Register!Lift
        <5>2. row.parent \in Ids
          BY <4>5 DEF HoldIds, TypeOK
        <5> QED BY <5>1, <5>2 DEF Register!Next
      <4>6. CASE row.parent \notin HoldIds \ lifted
        BY <4>2, <4>4, <4>6
      <4> QED BY <4>5, <4>6
    <3> QED BY <3>5, <3>6 DEF Row, Statuses, Closing
  <2> QED BY <2>1, <2>2
<1> QED BY <1>1, <1>2, TypeCorrect, LineageInvariant, PTL DEF Spec, ImplementsFreezeRegister, Register!Spec
=============================================================================
