----------------------------- MODULE PoolDemand -----------------------------
(***************************************************************************)
(* A network pool up to its RFQ: networkPool.service.ts (create, open,     *)
(* join), networkPoolDemandLine.service.ts (demand lines and the lock that *)
(* captures a snapshot of them) and issueRfq of networkPoolRfq.service.ts. *)
(* PoolAward goes on from the state issueRfq leaves.                       *)
(*                                                                         *)
(* As in PoolAward a handler is Begin..., its reads and checks, and a step *)
(* that writes by id what follows from them.  Only the lock and issueRfq   *)
(* are transactions; the others read and write in statements of their own. *)
(***************************************************************************)
EXTENDS Naturals, Sequences

CONSTANTS States, Terminal, Edges,   \* the registry of pools
          None,           \* SQL NULL
          Lines,          \* line references; each has one revision
          Orgs,           \* organisations that may join
          Quantities,     \* bound: quantities of a line
          Reqs,           \* slots for concurrent requests
          MaxOverlaps     \* bound: requests that begin while another is open

Registry == INSTANCE StateMachine

ASSUME PoolDemandAssumption ==
  /\ {"DRAFT", "OPEN", "AGGREGATING", "CLOSED_FOR_BIDS"} \subseteq States
  /\ MaxOverlaps \in Nat
  /\ None \notin Lines \cup Orgs \cup Quantities \cup States

VARIABLES pool,      \* lifecycle state of the pool, None before it is created
          members,   \* the organisations with a membership row
          line,      \* line reference -> its row
          snaps,     \* snapshot version -> its lines: line reference -> quantity
          rfq,       \* the lines of the issued RFQ, None before
          tx,        \* slot -> the open request
          overlaps   \* history: how many requests began while another was open

db   == <<pool, members, line, snaps, rfq>>
vars == <<pool, members, line, snaps, rfq, tx, overlaps>>

LineStatus == {"NONE", "DRAFT", "ACTIVE", "CANCELLED", "LOCKED_FOR_RFQ"}
Line       == [status: LineStatus, qty: Quantities \cup {None}]
Captured   == UNION {[part -> Quantities] : part \in SUBSET Lines}

Ops == {"open", "join", "createLine", "updateLine", "cancelLine", "lockVersion", "lock", "issue"}

(* of: the line, organisation or actor it is about; qty: the quantity asked  *)
(* for; read: the lines it read; version: the snapshot version it goes by.   *)
Request == [op: Ops, of: Lines \cup Orgs \cup Registry!ActorTypes \cup {None},
            qty: Quantities \cup {None}, read: Captured, version: Nat]

TypeOK ==
  /\ pool \in States \cup {None}
  /\ members \subseteq Orgs
  /\ line \in [Lines -> Line]
  /\ snaps \in Seq(Captured)
  /\ rfq \in Captured \cup {None}
  /\ DOMAIN tx \subseteq Reqs /\ tx \in [DOMAIN tx -> Request]
  /\ overlaps \in 0..MaxOverlaps

Init ==
  /\ pool = None /\ members = {}
  /\ line = [l \in Lines |-> [status |-> "NONE", qty |-> None]]
  /\ snaps = << >> /\ rfq = None
  /\ tx = << >> /\ overlaps = 0

Call(op, of, qty) == [op |-> op, of |-> of, qty |-> qty, read |-> << >>, version |-> 0]

Begin(r, request) ==
  /\ r \notin DOMAIN tx
  /\ tx' = [x \in DOMAIN tx \cup {r} |-> IF x = r THEN request ELSE tx[x]]
  /\ IF DOMAIN tx = {} THEN UNCHANGED overlaps
     ELSE overlaps < MaxOverlaps /\ overlaps' = overlaps + 1
  /\ UNCHANGED db

Open(r, op) == r \in DOMAIN tx /\ tx[r].op = op

End(r) == tx' = [x \in DOMAIN tx \ {r} |-> tx[x]] /\ UNCHANGED overlaps

(* Refused by a unique index, a row count or the state machine, or lost.     *)
Abort(r) == r \in DOMAIN tx /\ End(r) /\ UNCHANGED db

Applied(from, to, actor) ==
  Registry!Verdict([from |-> from, to |-> to, actor |-> actor, user |-> "user", admin |-> None,
                    ai |-> "NO", level |-> 0, maker |-> None]) = "APPLIED"

-----------------------------------------------------------------------------
CreateNetworkPool ==
  /\ pool = None
  /\ pool' = "DRAFT"
  /\ UNCHANGED <<members, line, snaps, rfq, tx, overlaps>>

(* The state is read before the transaction that sets it.                    *)
BeginOpen(r, actor) == pool = "DRAFT" /\ Begin(r, Call("open", actor, None))

OpenNetworkPool(r) ==
  /\ Open(r, "open")
  /\ Applied("DRAFT", "OPEN", tx[r].of)
  /\ pool' = "OPEN"
  /\ End(r) /\ UNCHANGED <<members, line, snaps, rfq>>

(* Nothing in the repository takes a pool from OPEN to AGGREGATING, or a     *)
(* line from DRAFT to ACTIVE: both are done from outside.                    *)
StartAggregating ==
  /\ pool = "OPEN"
  /\ pool' = "AGGREGATING"
  /\ UNCHANGED <<members, line, snaps, rfq, tx, overlaps>>

ActivateLine(l) ==
  /\ line[l].status = "DRAFT"
  /\ line' = [line EXCEPT ![l].status = "ACTIVE"]
  /\ UNCHANGED <<pool, members, snaps, rfq, tx, overlaps>>

BeginJoin(r, org) ==
  /\ pool \in {"OPEN", "AGGREGATING"} /\ org \notin members
  /\ Begin(r, Call("join", org, None))

JoinNetworkPool(r) ==
  /\ Open(r, "join")
  /\ tx[r].of \notin members       \* UNIQUE (pool_id, org_id)
  /\ members' = members \cup {tx[r].of}
  /\ End(r) /\ UNCHANGED <<pool, line, snaps, rfq>>

-----------------------------------------------------------------------------
Writable == pool \in {"DRAFT", "OPEN", "AGGREGATING"}

BeginCreateLine(r, l, qty) ==
  /\ Writable /\ line[l].status = "NONE"
  /\ Begin(r, Call("createLine", l, qty))

CreateDemandLine(r) ==
  /\ Open(r, "createLine")
  /\ line[tx[r].of].status = "NONE"    \* UNIQUE (pool_id, line_ref, revision_no)
  /\ line' = [line EXCEPT ![tx[r].of] = [status |-> "DRAFT", qty |-> tx[r].qty]]
  /\ End(r) /\ UNCHANGED <<pool, members, snaps, rfq>>

UpdateLineInAnyStatus(r, l, qty) ==
  /\ Writable /\ line[l].status # "NONE"
  /\ Begin(r, Call("updateLine", l, qty))

(* Lines are edited and cancelled while they are DRAFT or ACTIVE.            *)
Editable(l) == line[l].status \in {"DRAFT", "ACTIVE"}

BeginUpdateLine(r, l, qty) ==
  /\ Writable /\ Editable(l)
  /\ Begin(r, Call("updateLine", l, qty))

UpdateDemandLine(r) ==
  /\ Open(r, "updateLine")
  /\ line' = [line EXCEPT ![tx[r].of] = [status |-> @.status, qty |-> tx[r].qty]]
  /\ End(r) /\ UNCHANGED <<pool, members, snaps, rfq>>

BeginCancelLine(r, l) ==
  /\ Writable /\ Editable(l)
  /\ Begin(r, Call("cancelLine", l, None))

CancelDemandLine(r) ==
  /\ Open(r, "cancelLine")
  /\ line' = [line EXCEPT ![tx[r].of] = [status |-> "CANCELLED", qty |-> @.qty]]
  /\ End(r) /\ UNCHANGED <<pool, members, snaps, rfq>>

-----------------------------------------------------------------------------
Active == {l \in Lines : line[l].status = "ACTIVE"}

(* lockDemandLinesForRfq reads the ACTIVE lines ...                          *)
LockRead(r) ==
  /\ pool = "AGGREGATING" /\ Active # {}
  /\ Begin(r, [Call("lockVersion", None, None) EXCEPT !.read = [l \in Active |-> line[l].qty]])

(* ... then, in a later statement, the highest snapshot version ...          *)
LockVersion(r) ==
  /\ Open(r, "lockVersion")
  /\ tx' = [tx EXCEPT ![r] = [op |-> "lock", of |-> @.of, qty |-> @.qty, read |-> @.read,
                              version |-> Len(snaps) + 1]]
  /\ UNCHANGED db /\ UNCHANGED overlaps

LockUncounted(r) ==
  /\ Open(r, "lock")
  /\ tx[r].version = Len(snaps) + 1
  /\ snaps' = Append(snaps, tx[r].read)
  /\ line' = [l \in Lines |-> IF l \in DOMAIN tx[r].read /\ line[l].status = "ACTIVE"
                              THEN [status |-> "LOCKED_FOR_RFQ", qty |-> line[l].qty] ELSE line[l]]
  /\ End(r) /\ UNCHANGED <<pool, members, rfq>>

(* ... and commits if that version is free and the lines it updates, those   *)
(* still ACTIVE, are as many as it read.  The snapshot copies what it read.  *)
LockDemandLines(r) ==
  /\ Open(r, "lock")
  /\ tx[r].version = Len(snaps) + 1    \* UNIQUE (pool_id, snapshot_version)
  /\ DOMAIN tx[r].read \subseteq Active
  /\ snaps' = Append(snaps, tx[r].read)
  /\ line' = [l \in Lines |-> IF l \in DOMAIN tx[r].read
                              THEN [status |-> "LOCKED_FOR_RFQ", qty |-> line[l].qty] ELSE line[l]]
  /\ End(r) /\ UNCHANGED <<pool, members, rfq>>

(* The pool is AGGREGATING, has no RFQ, and the latest snapshot is the one.  *)
BeginIssueRfq(r) ==
  /\ pool = "AGGREGATING" /\ rfq = None /\ snaps # << >>
  /\ Begin(r, [Call("issue", None, None) EXCEPT !.read = snaps[Len(snaps)]])

(* The RFQ with a copy of the snapshot's lines, and the pool closed for bids.*)
IssueRfq(r) ==
  /\ Open(r, "issue")
  /\ rfq = None                        \* UNIQUE (pool_id, rfq_version)
  /\ Applied("AGGREGATING", "CLOSED_FOR_BIDS", "TENANT_ADMIN")
  /\ rfq' = tx[r].read
  /\ pool' = "CLOSED_FOR_BIDS"
  /\ End(r) /\ UNCHANGED <<members, line, snaps>>

-----------------------------------------------------------------------------
Pooling ==
  \/ CreateNetworkPool
  \/ StartAggregating
  \/ \E r \in Reqs :
       \/ \E actor \in {"TENANT_ADMIN", "TENANT_USER"} : BeginOpen(r, actor)
       \/ \E org \in Orgs : BeginJoin(r, org)
       \/ OpenNetworkPool(r) \/ JoinNetworkPool(r)

Demanding ==
  \/ \E l \in Lines : ActivateLine(l)
  \/ \E r \in Reqs :
       \/ \E l \in Lines, q \in Quantities : BeginCreateLine(r, l, q) \/ BeginUpdateLine(r, l, q)
       \/ \E l \in Lines : BeginCancelLine(r, l)
       \/ CreateDemandLine(r) \/ UpdateDemandLine(r) \/ CancelDemandLine(r)

Locking ==
  \E r \in Reqs : \/ LockRead(r) \/ LockVersion(r) \/ LockDemandLines(r)
                  \/ BeginIssueRfq(r) \/ IssueRfq(r)

Next == Pooling \/ Demanding \/ Locking \/ \E r \in Reqs : Abort(r)

Spec == Init /\ [][Next]_vars

-----------------------------------------------------------------------------
(* Over every interleaving of locks, edits and cancellations: a demand line  *)
(* is captured by one snapshot at most, so no quantity is tendered twice,    *)
(* and what is LOCKED_FOR_RFQ was captured.                                  *)
LockedOnce ==
  /\ \A i, j \in 1..Len(snaps) : i # j => DOMAIN snaps[i] \cap DOMAIN snaps[j] = {}
  /\ \A l \in Lines : line[l].status = "LOCKED_FOR_RFQ" =>
       \E i \in 1..Len(snaps) : l \in DOMAIN snaps[i]

(* A snapshot agrees with its lines, which stay locked and keep their        *)
(* quantities, and the RFQ is the latest snapshot.                           *)
Faithful ==
  /\ \A i \in 1..Len(snaps) : \A l \in DOMAIN snaps[i] :
       line[l] = [status |-> "LOCKED_FOR_RFQ", qty |-> snaps[i][l]]
  /\ rfq # None => rfq = snaps[Len(snaps)]

(* "Immutable copies": so it is as long as no two requests overlap.          *)
SnapshotIsFaithful == overlaps = 0 => Faithful
=============================================================================
