-------------------------- MODULE PoolDemand_proofs --------------------------
(***************************************************************************)
(* No demand line is captured by two snapshots, whatever requests overlap. *)
(***************************************************************************)
EXTENDS PoolDemand, TLAPS

(* What the reads and checks of a request leave true until it writes.        *)
Promise(q) ==
  /\ q.op = "join" => q.of \in Orgs
  /\ q.op \in {"createLine", "updateLine", "cancelLine"} => q.of \in Lines
  /\ q.op \in {"createLine", "updateLine"} => q.qty \in Quantities
  /\ q.op \in {"updateLine", "cancelLine"} => line[q.of].status # "NONE"

Promises == \A r \in DOMAIN tx : Promise(tx[r])

(* A line has a quantity, and one that was captured never is ACTIVE again.   *)
Filled == \A l \in Lines : line[l].status # "NONE" => line[l].qty \in Quantities

Retired ==
  \A i \in 1..Len(snaps) : \A l \in DOMAIN snaps[i] :
    line[l].status \in {"LOCKED_FOR_RFQ", "CANCELLED"}

IInv == TypeOK /\ Promises /\ Filled /\ Retired /\ LockedOnce

-----------------------------------------------------------------------------
LEMMA EndEffect ==
  ASSUME TypeOK, NEW r \in DOMAIN tx, End(r)
  PROVE  /\ DOMAIN tx' = DOMAIN tx \ {r} /\ \A x \in DOMAIN tx' : tx'[x] = tx[x]
         /\ DOMAIN tx' \subseteq Reqs /\ tx' \in [DOMAIN tx' -> Request]
         /\ overlaps' \in 0..MaxOverlaps
  BY DEF End, TypeOK

LEMMA CapturedParts ==
  ASSUME NEW c \in Captured
  PROVE  DOMAIN c \subseteq Lines /\ \A l \in DOMAIN c : c[l] \in Quantities
  BY DEF Captured

LEMMA BeginKeeps ==
  ASSUME IInv, NEW r \in Reqs, NEW q \in Request, Begin(r, q), Promise(q)
  PROVE  IInv'
<1>1. /\ r \notin DOMAIN tx /\ DOMAIN tx' = DOMAIN tx \cup {r} /\ tx'[r] = q
      /\ \A x \in DOMAIN tx : tx'[x] = tx[x]
      /\ UNCHANGED <<pool, members, line, snaps, rfq>>
  BY DEF Begin, db
<1>2. tx' \in [DOMAIN tx' -> Request] /\ DOMAIN tx' \subseteq Reqs
  BY <1>1 DEF Begin, IInv, TypeOK
<1>3. overlaps' \in 0..MaxOverlaps
  BY PoolDemandAssumption DEF Begin, IInv, TypeOK
<1>4. TypeOK'
  BY <1>1, <1>2, <1>3 DEF IInv, TypeOK
<1>5. Promises'
  BY <1>1 DEF IInv, Promises, Promise
<1> QED BY <1>1, <1>4, <1>5 DEF IInv, Filled, Retired, LockedOnce

(* The requests that begin, with what they promise.                          *)
LEMMA BeginsPromise ==
  ASSUME IInv, NEW r \in Reqs,
         \/ \E actor \in {"TENANT_ADMIN", "TENANT_USER"} : BeginOpen(r, actor)
         \/ \E org \in Orgs : BeginJoin(r, org)
         \/ \E l \in Lines, n \in Quantities : BeginCreateLine(r, l, n) \/ BeginUpdateLine(r, l, n)
         \/ \E l \in Lines : BeginCancelLine(r, l)
         \/ LockRead(r) \/ BeginIssueRfq(r)
  PROVE  \E q \in Request : Begin(r, q) /\ Promise(q)
<1>0. << >> \in Captured
  <2>1. << >> \in [{} -> Quantities]
    OBVIOUS
  <2> QED BY <2>1 DEF Captured
<1>1. ASSUME NEW actor \in {"TENANT_ADMIN", "TENANT_USER"}, BeginOpen(r, actor)
      PROVE  \E q \in Request : Begin(r, q) /\ Promise(q)
  <2>1. Call("open", actor, None) \in Request
    BY <1>0 DEF Call, Request, Ops, Registry!ActorTypes
  <2> QED BY <1>1, <2>1 DEF BeginOpen, Call, Promise
<1>2. ASSUME NEW org \in Orgs, BeginJoin(r, org)
      PROVE  \E q \in Request : Begin(r, q) /\ Promise(q)
  <2>1. Call("join", org, None) \in Request
    BY <1>0 DEF Call, Request, Ops
  <2> QED BY <1>2, <2>1 DEF BeginJoin, Call, Promise
<1>3. ASSUME NEW l \in Lines, NEW n \in Quantities, BeginCreateLine(r, l, n)
      PROVE  \E q \in Request : Begin(r, q) /\ Promise(q)
  <2>1. Call("createLine", l, n) \in Request
    BY <1>0 DEF Call, Request, Ops
  <2> QED BY <1>3, <2>1 DEF BeginCreateLine, Call, Promise
<1>4. ASSUME NEW l \in Lines, NEW n \in Quantities, BeginUpdateLine(r, l, n)
      PROVE  \E q \in Request : Begin(r, q) /\ Promise(q)
  <2>1. Call("updateLine", l, n) \in Request
    BY <1>0 DEF Call, Request, Ops
  <2> QED BY <1>4, <2>1 DEF BeginUpdateLine, Editable, Call, Promise
<1>5. ASSUME NEW l \in Lines, BeginCancelLine(r, l)
      PROVE  \E q \in Request : Begin(r, q) /\ Promise(q)
  <2>1. Call("cancelLine", l, None) \in Request
    BY <1>0 DEF Call, Request, Ops
  <2> QED BY <1>5, <2>1 DEF BeginCancelLine, Editable, Call, Promise
<1>6. ASSUME LockRead(r) PROVE \E q \in Request : Begin(r, q) /\ Promise(q)
  <2> DEFINE read == [l \in Active |-> line[l].qty]
             q == [op |-> "lockVersion", of |-> None, qty |-> None, read |-> read, version |-> 0]
  <2>1. Begin(r, q)
    BY <1>6 DEF LockRead, Call
  <2>2. Active \subseteq Lines /\ read \in [Active -> Quantities]
    BY DEF IInv, Filled, Active
  <2>3. read \in Captured
    BY <2>2 DEF Captured
  <2>4. q \in Request
    BY <2>3 DEF Request, Ops
  <2> QED BY <2>1, <2>4 DEF Promise
<1>7. ASSUME BeginIssueRfq(r) PROVE \E q \in Request : Begin(r, q) /\ Promise(q)
  <2> DEFINE q == [op |-> "issue", of |-> None, qty |-> None, read |-> snaps[Len(snaps)], version |-> 0]
  <2>1. Begin(r, q) /\ snaps # << >>
    BY <1>7 DEF BeginIssueRfq, Call
  <2>2. snaps[Len(snaps)] \in Captured
    BY <2>1 DEF IInv, TypeOK
  <2>3. q \in Request
    BY <2>2 DEF Request, Ops
  <2> QED BY <2>1, <2>3 DEF Promise
<1> QED BY <1>1, <1>2, <1>3, <1>4, <1>5, <1>6, <1>7

-----------------------------------------------------------------------------
(* Steps that leave lines and snapshots alone, and the tables well typed.    *)
LEMMA OthersKeep ==
  ASSUME IInv, UNCHANGED <<line, snaps>>,
         pool' \in States \cup {None}, members' \subseteq Orgs, rfq' \in Captured \cup {None},
         \/ UNCHANGED <<tx, overlaps>>
         \/ \E r \in DOMAIN tx : End(r)
  PROVE  IInv'
<1>1. /\ \A x \in DOMAIN tx' : x \in DOMAIN tx /\ tx'[x] = tx[x]
      /\ DOMAIN tx' \subseteq Reqs /\ tx' \in [DOMAIN tx' -> Request]
      /\ overlaps' \in 0..MaxOverlaps
  BY EndEffect DEF IInv, TypeOK
<1>2. TypeOK'
  BY <1>1 DEF IInv, TypeOK
<1>3. Promises'
  BY <1>1 DEF IInv, Promises, Promise
<1> QED BY <1>2, <1>3 DEF IInv, Filled, Retired, LockedOnce

(* Steps that change one line and no snapshot: a line that was captured is   *)
(* never made ACTIVE, and none is made LOCKED_FOR_RFQ.                       *)
LEMMA LineKeeps ==
  ASSUME IInv, UNCHANGED <<pool, members, snaps, rfq>>, NEW l \in Lines,
         NEW status \in LineStatus \ {"NONE"}, NEW qty \in Quantities,
         line' = [line EXCEPT ![l] = [status |-> status, qty |-> qty]],
         line[l].status \in {"LOCKED_FOR_RFQ", "CANCELLED"} => status \in {line[l].status, "CANCELLED"},
         status = "LOCKED_FOR_RFQ" => line[l].status = "LOCKED_FOR_RFQ",
         \/ UNCHANGED <<tx, overlaps>>
         \/ \E r \in DOMAIN tx : End(r)
  PROVE  IInv'
<1>1. /\ \A x \in DOMAIN tx' : x \in DOMAIN tx /\ tx'[x] = tx[x]
      /\ DOMAIN tx' \subseteq Reqs /\ tx' \in [DOMAIN tx' -> Request]
      /\ overlaps' \in 0..MaxOverlaps
  BY EndEffect DEF IInv, TypeOK
<1>2. /\ line'[l].status = status /\ line'[l].qty = qty
      /\ \A x \in Lines \ {l} : line'[x] = line[x]
      /\ line' \in [Lines -> Line]
  BY DEF IInv, TypeOK, Line
<1>3. TypeOK'
  BY <1>1, <1>2 DEF IInv, TypeOK
<1>4. Promises'
  BY <1>1, <1>2 DEF IInv, Promises, Promise
<1>5. Filled'
  BY <1>2 DEF IInv, Filled
<1>6. Retired'
  BY <1>2 DEF IInv, Retired
<1>7. LockedOnce'
  BY <1>2 DEF IInv, LockedOnce
<1> QED BY <1>3, <1>4, <1>5, <1>6, <1>7 DEF IInv

LEMMA LockVersionKeeps ==
  ASSUME IInv, NEW r \in Reqs, LockVersion(r)
  PROVE  IInv'
<1> DEFINE q == [op |-> "lock", of |-> tx[r].of, qty |-> tx[r].qty, read |-> tx[r].read,
                 version |-> Len(snaps) + 1]
<1>1. /\ r \in DOMAIN tx /\ tx' = [tx EXCEPT ![r] = q]
      /\ UNCHANGED <<pool, members, line, snaps, rfq, overlaps>>
  BY DEF LockVersion, Open, db
<1>2. q \in Request
  BY <1>1 DEF IInv, TypeOK, Request, Ops
<1>3. /\ DOMAIN tx' = DOMAIN tx /\ tx'[r] = q /\ \A x \in DOMAIN tx \ {r} : tx'[x] = tx[x]
      /\ tx' \in [DOMAIN tx' -> Request]
  BY <1>1, <1>2 DEF IInv, TypeOK
<1>4. TypeOK'
  BY <1>1, <1>3 DEF IInv, TypeOK
<1>5. Promises'
  BY <1>1, <1>3 DEF IInv, Promises, Promise
<1> QED BY <1>1, <1>4, <1>5 DEF IInv, Filled, Retired, LockedOnce

(* The lines captured now are ACTIVE, those of earlier snapshots are not.    *)
LEMMA LockKeeps ==
  ASSUME IInv, NEW r \in Reqs, LockDemandLines(r)
  PROVE  IInv'
<1>1. PICK read \in Captured :
        /\ r \in DOMAIN tx /\ read = tx[r].read /\ DOMAIN read \subseteq Active
        /\ snaps' = Append(snaps, read)
        /\ line' = [l \in Lines |-> IF l \in DOMAIN read
                                    THEN [status |-> "LOCKED_FOR_RFQ", qty |-> line[l].qty] ELSE line[l]]
        /\ End(r) /\ UNCHANGED <<pool, members, rfq>>
  BY DEF LockDemandLines, Open, IInv, TypeOK, Request
<1>2. /\ \A x \in DOMAIN tx' : x \in DOMAIN tx /\ tx'[x] = tx[x]
      /\ DOMAIN tx' \subseteq Reqs /\ tx' \in [DOMAIN tx' -> Request]
      /\ overlaps' \in 0..MaxOverlaps
  BY <1>1, EndEffect DEF IInv
<1>3. /\ \A l \in DOMAIN read : /\ l \in Lines /\ line[l].status = "ACTIVE"
                                /\ line'[l].status = "LOCKED_FOR_RFQ" /\ line'[l].qty = line[l].qty
      /\ \A l \in Lines \ DOMAIN read : line'[l] = line[l]
      /\ line' \in [Lines -> Line]
  BY <1>1 DEF Active, IInv, TypeOK, Line, LineStatus
<1>4. /\ Len(snaps') = Len(snaps) + 1 /\ Len(snaps) \in Nat
      /\ snaps'[Len(snaps) + 1] = read /\ \A i \in 1..Len(snaps) : snaps'[i] = snaps[i]
      /\ snaps' \in Seq(Captured)
  BY <1>1 DEF IInv, TypeOK
<1>5. TypeOK'
  BY <1>1, <1>2, <1>3, <1>4 DEF IInv, TypeOK
<1>6. Promises'
  BY <1>2, <1>3 DEF IInv, Promises, Promise
<1>7. Filled'
  BY <1>3 DEF IInv, Filled
<1>8. ASSUME NEW i \in 1..Len(snaps), NEW l \in DOMAIN snaps[i]
      PROVE  l \in Lines /\ line[l].status \in {"LOCKED_FOR_RFQ", "CANCELLED"} /\ l \notin DOMAIN read
  <2>1. snaps[i] \in Captured
    BY DEF IInv, TypeOK
  <2> QED BY <1>3, <2>1, CapturedParts DEF IInv, Retired
<1>9. Retired'
  <2> SUFFICES ASSUME NEW i \in 1..Len(snaps'), NEW l \in DOMAIN snaps'[i]
               PROVE  line'[l].status \in {"LOCKED_FOR_RFQ", "CANCELLED"}
    BY DEF Retired
  <2>1. CASE i = Len(snaps) + 1
    BY <1>3, <1>4, <2>1
  <2>2. CASE i \in 1..Len(snaps)
    BY <1>3, <1>4, <1>8, <2>2
  <2> QED BY <1>4, <2>1, <2>2
<1>10. LockedOnce'
  <2>1. ASSUME NEW i \in 1..Len(snaps'), NEW j \in 1..Len(snaps'), i # j,
               NEW l \in DOMAIN snaps'[i], l \in DOMAIN snaps'[j]
        PROVE  FALSE
    <3>1. CASE i \in 1..Len(snaps) /\ j \in 1..Len(snaps)
      BY <1>4, <2>1, <3>1 DEF IInv, LockedOnce
    <3>2. CASE i = Len(snaps) + 1 /\ j \in 1..Len(snaps)
      BY <1>4, <1>8, <2>1, <3>2
    <3>3. CASE i \in 1..Len(snaps) /\ j = Len(snaps) + 1
      BY <1>4, <1>8, <2>1, <3>3
    <3> QED BY <1>4, <2>1, <3>1, <3>2, <3>3
  <2>2. ASSUME NEW l \in Lines, line'[l].status = "LOCKED_FOR_RFQ"
        PROVE  \E i \in 1..Len(snaps') : l \in DOMAIN snaps'[i]
    <3>1. CASE l \in DOMAIN read
      <4>1. Len(snaps) + 1 \in 1..Len(snaps') /\ l \in DOMAIN snaps'[Len(snaps) + 1]
        BY <1>4, <3>1
      <4> QED BY <4>1
    <3>2. CASE l \notin DOMAIN read
      <4>1. line[l].status = "LOCKED_FOR_RFQ"
        BY <1>3, <2>2, <3>2
      <4>2. PICK i \in 1..Len(snaps) : l \in DOMAIN snaps[i]
        BY <4>1 DEF IInv, LockedOnce
      <4>3. i \in 1..Len(snaps') /\ l \in DOMAIN snaps'[i]
        BY <1>4, <4>2
      <4> QED BY <4>3
    <3> QED BY <3>1, <3>2
  <2> QED BY <2>1, <2>2 DEF LockedOnce
<1> QED BY <1>5, <1>6, <1>7, <1>9, <1>10 DEF IInv

-----------------------------------------------------------------------------
LEMMA PoolingKeeps ==
  ASSUME IInv, Pooling
  PROVE  IInv'
<1>1. CASE CreateNetworkPool \/ StartAggregating
  <2>1. pool' \in States
    BY <1>1, PoolDemandAssumption DEF CreateNetworkPool, StartAggregating
  <2>2. UNCHANGED <<members, line, snaps, rfq, tx, overlaps>>
    BY <1>1 DEF CreateNetworkPool, StartAggregating
  <2> QED BY <2>1, <2>2, OthersKeep DEF IInv, TypeOK
<1>2. ASSUME NEW r \in Reqs, OpenNetworkPool(r) PROVE IInv'
  <2>1. /\ r \in DOMAIN tx /\ End(r) /\ pool' \in States
        /\ UNCHANGED <<members, line, snaps, rfq>>
    BY <1>2, PoolDemandAssumption DEF OpenNetworkPool, Open
  <2> QED BY <2>1, OthersKeep DEF IInv, TypeOK
<1>3. ASSUME NEW r \in Reqs, JoinNetworkPool(r) PROVE IInv'
  <2>1. /\ r \in DOMAIN tx /\ tx[r].op = "join" /\ End(r) /\ members' = members \cup {tx[r].of}
        /\ UNCHANGED <<pool, line, snaps, rfq>>
    BY <1>3 DEF JoinNetworkPool, Open
  <2>2. members' \subseteq Orgs
    BY <2>1 DEF IInv, TypeOK, Promises, Promise
  <2> QED BY <2>1, <2>2, OthersKeep DEF IInv, TypeOK
<1>4. ASSUME NEW r \in Reqs, \/ \E actor \in {"TENANT_ADMIN", "TENANT_USER"} : BeginOpen(r, actor)
                             \/ \E org \in Orgs : BeginJoin(r, org)
      PROVE  IInv'
  <2>1. PICK q \in Request : Begin(r, q) /\ Promise(q)
    BY <1>4, BeginsPromise
  <2> QED BY <2>1, BeginKeeps
<1> QED BY <1>1, <1>2, <1>3, <1>4 DEF Pooling

LEMMA DemandingKeeps ==
  ASSUME IInv, Demanding
  PROVE  IInv'
<1>1. ASSUME NEW l \in Lines, ActivateLine(l) PROVE IInv'
  <2>0. line[l] \in Line
    BY DEF IInv, TypeOK
  <2>1. /\ line[l].status = "DRAFT" /\ line[l].qty \in Quantities
        /\ line' = [line EXCEPT ![l] = [status |-> "ACTIVE", qty |-> line[l].qty]]
        /\ UNCHANGED <<pool, members, snaps, rfq, tx, overlaps>>
    <3>1. line[l].status = "DRAFT" /\ line[l].qty \in Quantities
      BY <1>1 DEF ActivateLine, IInv, Filled
    <3>2. [line[l] EXCEPT !.status = "ACTIVE"] = [status |-> "ACTIVE", qty |-> line[l].qty]
      BY <2>0 DEF Line
    <3>3. line' = [line EXCEPT ![l] = [line[l] EXCEPT !.status = "ACTIVE"]]
      BY <1>1 DEF ActivateLine
    <3> QED BY <1>1, <3>1, <3>2, <3>3 DEF ActivateLine
  <2>2. "ACTIVE" \in LineStatus \ {"NONE"}
    BY DEF LineStatus
  <2> QED BY <2>1, <2>2, LineKeeps
<1>2. ASSUME NEW r \in Reqs,
             \/ \E l \in Lines, n \in Quantities : BeginCreateLine(r, l, n) \/ BeginUpdateLine(r, l, n)
             \/ \E l \in Lines : BeginCancelLine(r, l)
      PROVE  IInv'
  <2>1. PICK q \in Request : Begin(r, q) /\ Promise(q)
    BY <1>2, BeginsPromise
  <2> QED BY <2>1, BeginKeeps
<1>3. ASSUME NEW r \in Reqs, CreateDemandLine(r) PROVE IInv'
  <2>1. PICK l \in Lines, n \in Quantities :
          /\ r \in DOMAIN tx /\ line[l].status = "NONE" /\ End(r)
          /\ line' = [line EXCEPT ![l] = [status |-> "DRAFT", qty |-> n]]
          /\ UNCHANGED <<pool, members, snaps, rfq>>
    BY <1>3 DEF CreateDemandLine, Open, IInv, Promises, Promise
  <2>2. "DRAFT" \in LineStatus \ {"NONE"}
    BY DEF LineStatus
  <2> QED BY <2>1, <2>2, LineKeeps
<1>4. ASSUME NEW r \in Reqs, UpdateDemandLine(r) PROVE IInv'
  <2>1. PICK l \in Lines, n \in Quantities :
          /\ r \in DOMAIN tx /\ line[l].status # "NONE" /\ End(r)
          /\ line' = [line EXCEPT ![l] = [status |-> line[l].status, qty |-> n]]
          /\ UNCHANGED <<pool, members, snaps, rfq>>
    BY <1>4 DEF UpdateDemandLine, Open, IInv, Promises, Promise
  <2>2. line[l].status \in LineStatus \ {"NONE"}
    BY <2>1 DEF IInv, TypeOK, Line
  <2> QED BY <2>1, <2>2, LineKeeps
<1>5. ASSUME NEW r \in Reqs, CancelDemandLine(r) PROVE IInv'
  <2>1. PICK l \in Lines :
          /\ r \in DOMAIN tx /\ line[l].qty \in Quantities /\ End(r)
          /\ line' = [line EXCEPT ![l] = [status |-> "CANCELLED", qty |-> line[l].qty]]
          /\ UNCHANGED <<pool, members, snaps, rfq>>
    BY <1>5 DEF CancelDemandLine, Open, IInv, Promises, Promise, Filled
  <2>2. "CANCELLED" \in LineStatus \ {"NONE"}
    BY DEF LineStatus
  <2> QED BY <2>1, <2>2, LineKeeps
<1> QED BY <1>1, <1>2, <1>3, <1>4, <1>5 DEF Demanding

LEMMA IInvInductive == IInv /\ [Next]_vars => IInv'
<1> SUFFICES ASSUME IInv, [Next]_vars PROVE IInv'
  OBVIOUS
<1>1. ASSUME NEW r \in Reqs, LockRead(r) \/ BeginIssueRfq(r) PROVE IInv'
  <2>1. PICK q \in Request : Begin(r, q) /\ Promise(q)
    BY <1>1, BeginsPromise
  <2> QED BY <2>1, BeginKeeps
<1>2. ASSUME NEW r \in Reqs, IssueRfq(r) PROVE IInv'
  <2>1. /\ r \in DOMAIN tx /\ End(r) /\ rfq' = tx[r].read /\ pool' \in States
        /\ UNCHANGED <<members, line, snaps>>
    BY <1>2, PoolDemandAssumption DEF IssueRfq, Open
  <2>2. rfq' \in Captured
    BY <2>1 DEF IInv, TypeOK, Request
  <2> QED BY <2>1, <2>2, OthersKeep DEF IInv, TypeOK
<1>3. CASE Locking
  BY <1>1, <1>2, <1>3, LockVersionKeeps, LockKeeps DEF Locking
<1>4. ASSUME NEW r \in Reqs, Abort(r) PROVE IInv'
  BY <1>4, OthersKeep DEF Abort, db, IInv, TypeOK
<1>5. CASE UNCHANGED vars
  BY <1>5, OthersKeep DEF vars, IInv, TypeOK
<1> QED BY <1>3, <1>4, <1>5, PoolingKeeps, DemandingKeeps DEF Next

LEMMA IInvInitially == Init => IInv
<1> SUFFICES ASSUME Init PROVE IInv
  OBVIOUS
<1>1. /\ DOMAIN tx = {} /\ tx \in [DOMAIN tx -> Request] /\ snaps = << >> /\ Len(snaps) = 0
      /\ overlaps \in 0..MaxOverlaps
  BY PoolDemandAssumption DEF Init
<1>2. \A l \in Lines : line[l].status = "NONE"
  BY DEF Init
<1>3. line \in [Lines -> Line]
  BY DEF Init, Line, LineStatus
<1>4. TypeOK
  BY <1>1, <1>3 DEF Init, TypeOK
<1> QED BY <1>1, <1>2, <1>4 DEF IInv, Promises, Filled, Retired, LockedOnce

(* Every table and every open request keep their type.                       *)
THEOREM TypeCorrect == Spec => []TypeOK
<1> QED BY IInvInitially, IInvInductive, PTL DEF Spec, IInv

(* Two snapshots never share a demand line and a locked line is in one,      *)
(* whatever locks, edits, cancellations and lost requests overlap.           *)
THEOREM LineIsCapturedOnce == Spec => []LockedOnce
<1> QED BY IInvInitially, IInvInductive, PTL DEF Spec, IInv

-----------------------------------------------------------------------------
(* As long as no two requests overlap, what a request has read still holds   *)
(* when it writes.                                                           *)
Read(q) ==
  /\ q.op = "open" => pool = "DRAFT"
  /\ q.op \in {"updateLine", "cancelLine"} => line[q.of].status \in {"DRAFT", "ACTIVE"}
  /\ q.op \in {"lockVersion", "lock"} =>
       /\ pool = "AGGREGATING"
       /\ \A l \in DOMAIN q.read : line[l].status = "ACTIVE" /\ line[l].qty = q.read[l]
  /\ q.op = "issue" => pool = "AGGREGATING" /\ snaps # << >> /\ q.read = snaps[Len(snaps)]

(* There is one open request at most, its reads hold, the snapshots are      *)
(* faithful, and an RFQ has closed the pool to further locks.                *)
Serial ==
  /\ \A x, y \in DOMAIN tx : x = y
  /\ \A r \in DOMAIN tx : Read(tx[r])
  /\ Faithful
  /\ rfq # None => pool = "CLOSED_FOR_BIDS"

SerialWhileAlone == overlaps = 0 => Serial

(* The end of the only request leaves none.                                  *)
LEMMA EndsAlone ==
  ASSUME Serial, NEW r \in DOMAIN tx, End(r)
  PROVE  DOMAIN tx' = {}
BY DEF Serial, End

LEMMA BeginIsSerial ==
  ASSUME Serial, overlaps = 0, overlaps' = 0, NEW r, NEW q, Begin(r, q), Read(q)
  PROVE  Serial'
<1>1. /\ DOMAIN tx' = {r} /\ tx'[r] = q
      /\ UNCHANGED <<pool, members, line, snaps, rfq>>
  BY DEF Begin, db
<1> QED BY <1>1 DEF Serial, Read, Faithful

LEMMA BeginsAreSerial ==
  ASSUME IInv, Serial, overlaps = 0, overlaps' = 0, NEW r \in Reqs,
         \/ \E actor \in {"TENANT_ADMIN", "TENANT_USER"} : BeginOpen(r, actor)
         \/ \E org \in Orgs : BeginJoin(r, org)
         \/ \E l \in Lines, n \in Quantities : BeginCreateLine(r, l, n) \/ BeginUpdateLine(r, l, n)
         \/ \E l \in Lines : BeginCancelLine(r, l)
         \/ LockRead(r) \/ BeginIssueRfq(r)
  PROVE  Serial'
<1>1. ASSUME NEW x, BeginOpen(r, x) \/ BeginJoin(r, x)
      PROVE  \E q : Begin(r, q) /\ Read(q)
  BY <1>1 DEF BeginOpen, BeginJoin, Call, Read
<1>2. ASSUME NEW l, NEW n, BeginCreateLine(r, l, n)
      PROVE  \E q : Begin(r, q) /\ Read(q)
  BY <1>2 DEF BeginCreateLine, Call, Read
<1>3. ASSUME NEW l, NEW n, BeginUpdateLine(r, l, n) \/ BeginCancelLine(r, l)
      PROVE  \E q : Begin(r, q) /\ Read(q)
  BY <1>3 DEF BeginUpdateLine, BeginCancelLine, Editable, Call, Read
<1>4. ASSUME LockRead(r) PROVE \E q : Begin(r, q) /\ Read(q)
  <2> DEFINE read == [l \in Active |-> line[l].qty]
             q == [op |-> "lockVersion", of |-> None, qty |-> None, read |-> read, version |-> 0]
  <2>1. Begin(r, q) /\ pool = "AGGREGATING"
    BY <1>4 DEF LockRead, Call
  <2>2. \A l \in DOMAIN read : line[l].status = "ACTIVE" /\ line[l].qty = read[l]
    BY DEF Active
  <2> HIDE DEF read
  <2>3. Read(q)
    BY <2>1, <2>2 DEF Read
  <2> QED BY <2>1, <2>3
<1>5. ASSUME BeginIssueRfq(r) PROVE \E q : Begin(r, q) /\ Read(q)
  <2> DEFINE q == [op |-> "issue", of |-> None, qty |-> None, read |-> snaps[Len(snaps)], version |-> 0]
  <2>1. Begin(r, q) /\ pool = "AGGREGATING" /\ snaps # << >>
    BY <1>5 DEF BeginIssueRfq, Call
  <2>2. Read(q)
    BY <2>1 DEF Read
  <2> QED BY <2>1, <2>2
<1>6. \E q : Begin(r, q) /\ Read(q)
  BY <1>1, <1>2, <1>3, <1>4, <1>5
<1> QED BY <1>6, BeginIsSerial

LEMMA PoolingIsSerial ==
  ASSUME IInv, Serial, overlaps = 0, overlaps' = 0, Pooling
  PROVE  Serial'
<1>1. CASE CreateNetworkPool \/ StartAggregating
  <2>1. /\ UNCHANGED <<line, snaps, rfq, tx>> /\ pool \in {None, "OPEN"}
        /\ pool = None => \A r \in DOMAIN tx : tx[r].op \notin {"open", "lockVersion", "lock", "issue"}
    BY <1>1, PoolDemandAssumption DEF CreateNetworkPool, StartAggregating, Serial, Read
  <2>2. Faithful'
    BY <2>1 DEF Serial, Faithful
  <2> QED BY <1>1, <2>1, <2>2, PoolDemandAssumption DEF Serial, Read, CreateNetworkPool, StartAggregating
<1>2. ASSUME NEW r \in Reqs, OpenNetworkPool(r) \/ JoinNetworkPool(r) PROVE Serial'
  <2>1. /\ r \in DOMAIN tx /\ End(r) /\ UNCHANGED <<line, snaps, rfq>>
        /\ pool' = pool \/ pool = "DRAFT"
    BY <1>2 DEF OpenNetworkPool, JoinNetworkPool, Open, Serial, Read
  <2>2. DOMAIN tx' = {}
    BY <2>1, EndsAlone
  <2> QED BY <2>1, <2>2 DEF Serial, Faithful
<1> QED BY <1>1, <1>2, BeginsAreSerial DEF Pooling

(* A line that no snapshot has captured changes.                             *)
LEMMA LineIsSerial ==
  ASSUME IInv, Serial, NEW l \in Lines, line[l].status # "LOCKED_FOR_RFQ",
         \A x \in Lines \ {l} : line'[x] = line[x],
         UNCHANGED <<pool, snaps, rfq>>
  PROVE  Faithful' /\ (rfq' # None => pool' = "CLOSED_FOR_BIDS")
<1>1. \A i \in 1..Len(snaps) : DOMAIN snaps[i] \subseteq Lines
  BY CapturedParts DEF IInv, TypeOK
<1>2. ASSUME NEW i \in 1..Len(snaps), l \in DOMAIN snaps[i] PROVE FALSE
  <2>1. line[l] = [status |-> "LOCKED_FOR_RFQ", qty |-> snaps[i][l]]
    BY <1>2 DEF Serial, Faithful
  <2>2. line[l].status = "LOCKED_FOR_RFQ"
    BY <2>1
  <2> QED BY <2>2
<1>3. \A i \in 1..Len(snaps) : \A x \in DOMAIN snaps[i] : line'[x] = line[x]
  BY <1>1, <1>2
<1> QED BY <1>3 DEF Serial, Faithful

LEMMA DemandingIsSerial ==
  ASSUME IInv, Serial, overlaps = 0, overlaps' = 0, Demanding
  PROVE  Serial'
<1>1. ASSUME NEW l \in Lines, ActivateLine(l) PROVE Serial'
  <2>1. /\ UNCHANGED <<pool, snaps, rfq, tx>> /\ line[l].status = "DRAFT"
        /\ line'[l].status = "ACTIVE" /\ line'[l].qty = line[l].qty
        /\ \A x \in Lines \ {l} : line'[x] = line[x]
    BY <1>1 DEF ActivateLine, IInv, TypeOK, Line
  <2>2. Faithful' /\ (rfq' # None => pool' = "CLOSED_FOR_BIDS")
    BY <2>1, LineIsSerial
  <2>3. ASSUME NEW r \in DOMAIN tx PROVE Read(tx[r])'
    <3>1. /\ Read(tx[r]) /\ DOMAIN tx[r].read \subseteq Lines
          /\ tx[r].op \in {"updateLine", "cancelLine"} => tx[r].of \in Lines
      BY CapturedParts DEF Serial, IInv, TypeOK, Promises, Promise, Request
    <3> QED BY <2>1, <3>1 DEF Read
  <2> QED BY <2>1, <2>2, <2>3 DEF Serial
<1>2. ASSUME NEW r \in Reqs,
             CreateDemandLine(r) \/ UpdateDemandLine(r) \/ CancelDemandLine(r)
      PROVE  Serial'
  <2>1. /\ r \in DOMAIN tx /\ End(r) /\ UNCHANGED <<pool, snaps, rfq>>
        /\ tx[r].of \in Lines /\ line[tx[r].of].status # "LOCKED_FOR_RFQ"
        /\ \A x \in Lines \ {tx[r].of} : line'[x] = line[x]
    BY <1>2 DEF CreateDemandLine, UpdateDemandLine, CancelDemandLine, Open, Serial, Read,
                IInv, TypeOK, Promises, Promise
  <2>2. DOMAIN tx' = {}
    BY <2>1, EndsAlone
  <2>3. Faithful' /\ (rfq' # None => pool' = "CLOSED_FOR_BIDS")
    BY <2>1, LineIsSerial
  <2> QED BY <2>2, <2>3 DEF Serial
<1> QED BY <1>1, <1>2, BeginsAreSerial DEF Demanding

LEMMA LockIsSerial ==
  ASSUME IInv, Serial, NEW r \in Reqs, LockDemandLines(r)
  PROVE  Serial'
<1>1. PICK read \in Captured :
        /\ r \in DOMAIN tx /\ read = tx[r].read /\ DOMAIN read \subseteq Active
        /\ snaps' = Append(snaps, read)
        /\ line' = [l \in Lines |-> IF l \in DOMAIN read
                                    THEN [status |-> "LOCKED_FOR_RFQ", qty |-> line[l].qty] ELSE line[l]]
        /\ End(r) /\ UNCHANGED <<pool, rfq>>
  BY DEF LockDemandLines, Open, IInv, TypeOK, Request
<1>2. /\ pool = "AGGREGATING" /\ \A l \in DOMAIN read : l \in Lines /\ line[l].qty = read[l]
  BY <1>1, CapturedParts DEF LockDemandLines, Open, Serial, Read
<1>3. rfq = None
  BY <1>2 DEF Serial
<1>4. DOMAIN tx' = {}
  BY <1>1, EndsAlone
<1>5. /\ Len(snaps') = Len(snaps) + 1 /\ Len(snaps) \in Nat
      /\ snaps'[Len(snaps) + 1] = read /\ \A i \in 1..Len(snaps) : snaps'[i] = snaps[i]
  BY <1>1 DEF IInv, TypeOK
<1>6. ASSUME NEW i \in 1..Len(snaps'), NEW l \in DOMAIN snaps'[i]
      PROVE  line'[l] = [status |-> "LOCKED_FOR_RFQ", qty |-> snaps'[i][l]]
  <2>1. CASE i = Len(snaps) + 1
    BY <1>1, <1>2, <1>5, <1>6, <2>1
  <2>2. CASE i \in 1..Len(snaps)
    <3>1. snaps'[i] = snaps[i] /\ snaps[i] \in Captured
      BY <1>5, <2>2 DEF IInv, TypeOK
    <3>2. l \in Lines /\ line[l] = [status |-> "LOCKED_FOR_RFQ", qty |-> snaps[i][l]]
      BY <1>6, <2>2, <3>1, CapturedParts DEF Serial, Faithful
    <3>3. l \notin DOMAIN read
      BY <1>1, <3>2 DEF Active
    <3> QED BY <1>1, <3>1, <3>2, <3>3
  <2> QED BY <1>5, <1>6, <2>1, <2>2
<1> QED BY <1>1, <1>3, <1>4, <1>6 DEF Serial, Faithful

LEMMA LockingIsSerial ==
  ASSUME IInv, Serial, overlaps = 0, overlaps' = 0, Locking
  PROVE  Serial'
<1>1. ASSUME NEW r \in Reqs, LockVersion(r) PROVE Serial'
  <2> DEFINE q == [op |-> "lock", of |-> tx[r].of, qty |-> tx[r].qty, read |-> tx[r].read,
                   version |-> Len(snaps) + 1]
  <2>1. /\ r \in DOMAIN tx /\ tx[r].op = "lockVersion" /\ tx' = [tx EXCEPT ![r] = q]
        /\ UNCHANGED <<pool, line, snaps, rfq>>
    BY <1>1 DEF LockVersion, Open, db
  <2>2. Read(q)
    BY <2>1 DEF Serial, Read
  <2>3. DOMAIN tx' = DOMAIN tx /\ \A x \in DOMAIN tx : tx'[x] = tx[x] \/ tx'[x] = q
    BY <2>1 DEF IInv, TypeOK
  <2> HIDE DEF q
  <2> QED BY <2>1, <2>2, <2>3 DEF Serial, Read, Faithful
<1>2. ASSUME NEW r \in Reqs, IssueRfq(r) PROVE Serial'
  <2>1. /\ r \in DOMAIN tx /\ End(r) /\ UNCHANGED <<line, snaps>>
        /\ rfq' = snaps[Len(snaps)] /\ pool' = "CLOSED_FOR_BIDS"
    BY <1>2 DEF IssueRfq, Open, Serial, Read
  <2>2. DOMAIN tx' = {}
    BY <2>1, EndsAlone
  <2> QED BY <2>1, <2>2 DEF Serial, Faithful
<1> QED BY <1>1, <1>2, BeginsAreSerial, LockIsSerial DEF Locking

LEMMA OverlapsGrow == IInv /\ [Next]_vars /\ overlaps' = 0 => overlaps = 0
<1> SUFFICES ASSUME IInv, [Next]_vars, overlaps' = 0 PROVE overlaps = 0
  OBVIOUS
<1>1. ASSUME NEW r, NEW q, Begin(r, q) PROVE overlaps = 0
  BY <1>1, PoolDemandAssumption DEF Begin, IInv, TypeOK
<1>2. UNCHANGED overlaps \/ \E r, q : Begin(r, q)
  BY DEF Next, Pooling, Demanding, Locking, CreateNetworkPool, StartAggregating, BeginOpen,
         BeginJoin, OpenNetworkPool, JoinNetworkPool, ActivateLine, BeginCreateLine,
         BeginUpdateLine, BeginCancelLine, CreateDemandLine, UpdateDemandLine, CancelDemandLine,
         LockRead, LockVersion, LockDemandLines, BeginIssueRfq, IssueRfq, Abort, End, vars
<1> QED BY <1>1, <1>2

LEMMA SerialInductive ==
  /\ Init => SerialWhileAlone
  /\ IInv /\ SerialWhileAlone /\ [Next]_vars => SerialWhileAlone'
<1>1. Init => SerialWhileAlone
  BY DEF Init, SerialWhileAlone, Serial, Faithful
<1>2. ASSUME IInv, Serial, overlaps = 0, overlaps' = 0, [Next]_vars PROVE Serial'
  <2>1. ASSUME NEW r \in Reqs, Abort(r) PROVE Serial'
    <3>1. DOMAIN tx' = {} /\ UNCHANGED <<pool, line, snaps, rfq>>
      BY <1>2, <2>1, EndsAlone DEF Abort, db
    <3> QED BY <1>2, <3>1 DEF Serial, Faithful
  <2>2. CASE UNCHANGED vars
    BY <1>2, <2>2 DEF vars, Serial, Read, Faithful
  <2> QED BY <1>2, <2>1, <2>2, PoolingIsSerial, DemandingIsSerial, LockingIsSerial DEF Next
<1> QED BY <1>1, <1>2, OverlapsGrow DEF SerialWhileAlone

(* As long as no two requests overlap, a snapshot agrees with its lines and  *)
(* the RFQ is the latest snapshot.                                           *)
THEOREM SnapshotsAreFaithful == Spec => []SnapshotIsFaithful
<1>1. SerialWhileAlone => SnapshotIsFaithful
  BY DEF SerialWhileAlone, Serial, SnapshotIsFaithful
<1> QED BY <1>1, SerialInductive, IInvInitially, IInvInductive, PTL DEF Spec
=============================================================================
