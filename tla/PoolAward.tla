----------------------------- MODULE PoolAward -----------------------------
(***************************************************************************)
(* Bidding on a network pool's RFQ and its award: invites, quotes and the  *)
(* two-person award of networkPoolRfq.service.ts, with triggerPoolOrder of *)
(* networkPool.service.ts, for one pool whose RFQ has been issued.         *)
(*                                                                         *)
(* Every handler reads and checks, then updates rows by their id alone.    *)
(* Under READ COMMITTED another request may commit in between, so each     *)
(* handler is two steps: Begin... is its reads and checks, the step named  *)
(* after the handler is what it writes, from what it read, and the commit. *)
(***************************************************************************)
EXTENDS Naturals

CONSTANTS States, Terminal, Edges,   \* the registry of pools
          None,           \* SQL NULL
          Suppliers,      \* supplier organisations; each has one invite and one quote at most
          Users,          \* the users of the pool's owner
          ApprovalIds,    \* bound: ids of award approvals
          Reqs,           \* slots for concurrent requests
          MaxOverlaps     \* bound: requests that begin while another is open

Registry == INSTANCE StateMachine

ASSUME PoolAwardAssumption ==
  /\ {"CLOSED_FOR_BIDS", "QUOTED", "ACCEPTED", "ALLOCATING", "ALLOCATED", "ORDERED"} \subseteq States
  /\ MaxOverlaps \in Nat
  /\ None \notin Suppliers \cup Users \cup ApprovalIds \cup States

VARIABLES pool,     \* lifecycle state of the pool
          rfq,      \* status of its RFQ
          invite,   \* supplier -> status of its invite
          quote,    \* supplier -> status of its quote
          award,    \* approval id -> its pending_approvals row
          sigs,     \* approval_signatures
          late,     \* the invites and approvals whose expires_at has passed
          tx,       \* slot -> the open request
          overlaps  \* history: how many requests began while another was open

db   == <<pool, rfq, invite, quote, award, sigs, late>>
vars == <<pool, rfq, invite, quote, award, sigs, late, tx, overlaps>>

RfqStatus    == {"ISSUED", "QUOTED", "ACCEPTED"}
InviteStatus == {"NONE", "PENDING", "ACCEPTED", "DECLINED", "CANCELLED"}
QuoteStatus  == {"NONE", "SUBMITTED", "ACCEPTED", "REJECTED"}
Award        == [quote: Suppliers, maker: Users, status: {"REQUESTED", "APPROVED", "REJECTED"}]
Signature    == [award: ApprovalIds, signer: Users, decision: {"APPROVE", "REJECT"}]

Ops == {"sendInvite", "answerInvite", "submitQuote", "acceptQuote", "rejectQuote", "requestAward",
        "approveAward", "rejectAward", "order"}

(* of: the supplier whose invite or quote it is about; on: the approval; by: *)
(* the user; saw: a status it read and goes by when it writes; to: what it   *)
(* was asked to write.                                                       *)
Request == [op: Ops, of: Suppliers \cup {None}, on: ApprovalIds \cup {None},
            by: Users \cup {None}, saw: States \cup RfqStatus \cup {None},
            to: InviteStatus \cup Registry!ActorTypes \cup {None}]

TypeOK ==
  /\ pool \in States /\ rfq \in RfqStatus
  /\ invite \in [Suppliers -> InviteStatus]
  /\ quote \in [Suppliers -> QuoteStatus]
  /\ DOMAIN award \subseteq ApprovalIds /\ award \in [DOMAIN award -> Award]
  /\ sigs \subseteq Signature
  /\ late \subseteq Suppliers \cup ApprovalIds
  /\ DOMAIN tx \subseteq Reqs /\ tx \in [DOMAIN tx -> Request]
  /\ overlaps \in 0..MaxOverlaps

(* As issueRfq leaves the pair.                                              *)
Init ==
  /\ pool = "CLOSED_FOR_BIDS" /\ rfq = "ISSUED"
  /\ invite = [s \in Suppliers |-> "NONE"]
  /\ quote = [s \in Suppliers |-> "NONE"]
  /\ award = << >> /\ sigs = {} /\ late = {}
  /\ tx = << >> /\ overlaps = 0

Call(op, of, on, by, saw, to) ==
  [op |-> op, of |-> of, on |-> on, by |-> by, saw |-> saw, to |-> to]

Begin(r, request) ==
  /\ r \notin DOMAIN tx
  /\ tx' = [x \in DOMAIN tx \cup {r} |-> IF x = r THEN request ELSE tx[x]]
  /\ IF DOMAIN tx = {} THEN UNCHANGED overlaps
     ELSE overlaps < MaxOverlaps /\ overlaps' = overlaps + 1
  /\ UNCHANGED db

Open(r, op) == r \in DOMAIN tx /\ tx[r].op = op

End(r) == tx' = [x \in DOMAIN tx \ {r} |-> tx[x]] /\ UNCHANGED overlaps

(* The transaction is rolled back: a key that is taken, a refusal of the     *)
(* state machine, a lost connection.                                         *)
Abort(r) == r \in DOMAIN tx /\ End(r) /\ UNCHANGED db

Verdict(from, to, actor, maker) ==
  Registry!Verdict([from |-> from, to |-> to, actor |-> actor, user |-> "user", admin |-> None,
                    ai |-> "NO", level |-> 0, maker |-> maker])

(* The registry sends an award by one person to a checker.                   *)
ASSUME AwardTakesTwo == Verdict("QUOTED", "ACCEPTED", "TENANT_ADMIN", None) # "APPLIED"

-----------------------------------------------------------------------------
(* Expiry is worked out at each read; the status column keeps PENDING.       *)
EffectivelyPending(s) == invite[s] = "PENDING" /\ s \notin late

(* One invite per supplier and RFQ, also after a cancelled one.              *)
BeginSendInvite(r, s) ==
  /\ pool = "CLOSED_FOR_BIDS" /\ invite[s] = "NONE"
  /\ Begin(r, Call("sendInvite", s, None, None, None, None))

SendInvite(r) ==
  /\ Open(r, "sendInvite")
  /\ invite[tx[r].of] = "NONE"     \* UNIQUE (rfq_id, supplier_org_id)
  /\ invite' = [invite EXCEPT ![tx[r].of] = "PENDING"]
  /\ End(r) /\ UNCHANGED <<pool, rfq, quote, award, sigs, late>>

BeginAnswer(r, s, status) ==
  /\ EffectivelyPending(s)
  /\ Begin(r, Call("answerInvite", s, None, None, None, status))

(* The owner takes it back, the supplier takes it up or turns it down.       *)
CancelInvite(r, s)  == BeginAnswer(r, s, "CANCELLED")
AcceptInvite(r, s)  == BeginAnswer(r, s, "ACCEPTED")
DeclineInvite(r, s) == BeginAnswer(r, s, "DECLINED")

AnswerInvite(r) ==
  /\ Open(r, "answerInvite")
  /\ invite' = [invite EXCEPT ![tx[r].of] = tx[r].to]
  /\ End(r) /\ UNCHANGED <<pool, rfq, quote, award, sigs, late>>

(* An accepted invite, no quote yet, and an RFQ that is still open; the pool *)
(* is not looked at.                                                         *)
BeginSubmitQuote(r, s) ==
  /\ invite[s] = "ACCEPTED" /\ quote[s] = "NONE" /\ rfq \in {"ISSUED", "QUOTED"}
  /\ Begin(r, Call("submitQuote", s, None, None, rfq, None))

(* The first quote moves the RFQ on, by what was read of it.                 *)
SubmitQuote(r) ==
  /\ Open(r, "submitQuote")
  /\ quote[tx[r].of] = "NONE"      \* UNIQUE (invite_id)
  /\ quote' = [quote EXCEPT ![tx[r].of] = "SUBMITTED"]
  /\ rfq' = IF tx[r].saw = "ISSUED" THEN "QUOTED" ELSE rfq
  /\ End(r) /\ UNCHANGED <<pool, invite, award, sigs, late>>

(* acceptQuote, rejectQuote and requestAward all start from a pool in        *)
(* CLOSED_FOR_BIDS or QUOTED, an RFQ that is QUOTED, a SUBMITTED quote.      *)
Decidable(s) ==
  pool \in {"CLOSED_FOR_BIDS", "QUOTED"} /\ rfq = "QUOTED" /\ quote[s] = "SUBMITTED"

(* The quote is ACCEPTED, and every other that is SUBMITTED at this moment   *)
(* REJECTED.                                                                 *)
AcceptOnly(s) ==
  quote' = [q \in Suppliers |->
              IF q = s THEN "ACCEPTED"
              ELSE IF quote[q] = "SUBMITTED" THEN "REJECTED" ELSE quote[q]]

BeginAcceptQuote(r, s) ==
  /\ Decidable(s)
  /\ Begin(r, Call("acceptQuote", s, None, None, pool, None))

AcceptUnlessDenied(r) ==
  /\ Open(r, "acceptQuote")
  /\ IF Verdict("QUOTED", "ACCEPTED", "TENANT_ADMIN", None) # "DENIED"
     THEN AcceptOnly(tx[r].of) /\ rfq' = "ACCEPTED" /\ pool' = "ACCEPTED"
     ELSE UNCHANGED <<pool, rfq, quote>>
  /\ End(r) /\ UNCHANGED <<invite, award, sigs, late>>

(* One person's acceptance stands if the state machine applies both moves    *)
(* of the pool; under the seeded registry the second needs a checker, and    *)
(* all of it is rolled back.                                                 *)
AcceptQuote(r) ==
  /\ Open(r, "acceptQuote")
  /\ IF /\ tx[r].saw = "CLOSED_FOR_BIDS" =>
             Verdict("CLOSED_FOR_BIDS", "QUOTED", "TENANT_ADMIN", None) = "APPLIED"
        /\ Verdict("QUOTED", "ACCEPTED", "TENANT_ADMIN", None) = "APPLIED"
     THEN AcceptOnly(tx[r].of) /\ rfq' = "ACCEPTED" /\ pool' = "ACCEPTED"
     ELSE UNCHANGED <<pool, rfq, quote>>
  /\ End(r) /\ UNCHANGED <<invite, award, sigs, late>>

BeginRejectQuote(r, s) == Decidable(s) /\ Begin(r, Call("rejectQuote", s, None, None, None, None))

RejectQuote(r) ==
  /\ Open(r, "rejectQuote")
  /\ quote' = [quote EXCEPT ![tx[r].of] = "REJECTED"]
  /\ End(r) /\ UNCHANGED <<pool, rfq, invite, award, sigs, late>>

-----------------------------------------------------------------------------
BeginRequestAward(r, s, maker) ==
  /\ Decidable(s)
  /\ Begin(r, Call("requestAward", s, None, maker, pool, None))

RequestWithoutMove(r, id) ==
  /\ Open(r, "requestAward") /\ id \notin DOMAIN award
  /\ \A i \in DOMAIN award : award[i].status # "REQUESTED"
  /\ award' = [i \in DOMAIN award \cup {id} |->
                 IF i = id THEN [quote |-> tx[r].of, maker |-> tx[r].by, status |-> "REQUESTED"]
                 ELSE award[i]]
  /\ End(r) /\ UNCHANGED <<pool, rfq, invite, quote, sigs, late>>

(* The maker's request: a pool read as CLOSED_FOR_BIDS is moved on, and an   *)
(* approval is inserted unless one is REQUESTED (partial unique index).      *)
RequestAward(r, id) ==
  /\ Open(r, "requestAward") /\ id \notin DOMAIN award
  /\ \A i \in DOMAIN award : award[i].status # "REQUESTED"
  /\ Verdict("QUOTED", "ACCEPTED", "TENANT_ADMIN", None) = "PENDING_APPROVAL"
  /\ IF tx[r].saw = "CLOSED_FOR_BIDS"
     THEN /\ Verdict("CLOSED_FOR_BIDS", "QUOTED", "TENANT_ADMIN", None) = "APPLIED"
          /\ pool' = "QUOTED"
     ELSE UNCHANGED pool
  /\ award' = [i \in DOMAIN award \cup {id} |->
                 IF i = id THEN [quote |-> tx[r].of, maker |-> tx[r].by, status |-> "REQUESTED"]
                 ELSE award[i]]
  /\ End(r) /\ UNCHANGED <<rfq, invite, quote, sigs, late>>

Undecided(id) == id \in DOMAIN award \ late /\ award[id].status = "REQUESTED"

ApproveStaleQuote(r, id, checker) ==
  /\ Undecided(id) /\ award[id].maker # checker
  /\ Begin(r, Call("approveAward", None, id, checker, None, None))

(* The checker is another user than the maker, and the quote of the frozen   *)
(* payload is still SUBMITTED.  Neither the pool nor the RFQ is read.        *)
BeginApproveAward(r, id, checker) ==
  /\ Undecided(id) /\ award[id].maker # checker /\ quote[award[id].quote] = "SUBMITTED"
  /\ Begin(r, Call("approveAward", None, id, checker, None, None))

ApproveKeepingQuotes(r) ==
  /\ Open(r, "approveAward")
  /\ LET id == tx[r].on IN
     /\ quote' = [quote EXCEPT ![award[id].quote] = "ACCEPTED"]
     /\ award' = [award EXCEPT ![id].status = "APPROVED"]
     /\ sigs' = sigs \cup {[award |-> id, signer |-> tx[r].by, decision |-> "APPROVE"]}
  /\ pool' = "ACCEPTED" /\ rfq' = "ACCEPTED"
  /\ End(r) /\ UNCHANGED <<invite, late>>

(* Pool, quotes, RFQ, approval and signature in one transaction; the state   *)
(* machine is told that the pool is QUOTED, whatever it is.                  *)
ApproveAward(r) ==
  /\ Open(r, "approveAward")
  /\ LET id == tx[r].on IN
     /\ Verdict("QUOTED", "ACCEPTED", "CHECKER", award[id].maker) = "APPLIED"
     /\ AcceptOnly(award[id].quote)
     /\ award' = [award EXCEPT ![id].status = "APPROVED"]
     /\ sigs' = sigs \cup {[award |-> id, signer |-> tx[r].by, decision |-> "APPROVE"]}
  /\ pool' = "ACCEPTED" /\ rfq' = "ACCEPTED"
  /\ End(r) /\ UNCHANGED <<invite, late>>

BeginRejectAward(r, id, checker) ==
  /\ Undecided(id) /\ award[id].maker # checker
  /\ Begin(r, Call("rejectAward", None, id, checker, None, None))

(* Only the approval is decided: pool, RFQ and quote stay as they are.       *)
RejectAward(r) ==
  /\ Open(r, "rejectAward")
  /\ award' = [award EXCEPT ![tx[r].on].status = "REJECTED"]
  /\ sigs' = sigs \cup {[award |-> tx[r].on, signer |-> tx[r].by, decision |-> "REJECT"]}
  /\ End(r) /\ UNCHANGED <<pool, rfq, invite, quote, late>>

-----------------------------------------------------------------------------
(* Allocation has edges in the registry and no code: it is done from outside.*)
ASSUME AllocationIsDeclared ==
  /\ \E e \in Edges : e.from = "ACCEPTED" /\ e.to = "ALLOCATING"
  /\ \E e \in Edges : e.from = "ALLOCATING" /\ e.to = "ALLOCATED"

Allocate ==
  /\ \/ pool = "ACCEPTED" /\ pool' = "ALLOCATING"
     \/ pool = "ALLOCATING" /\ pool' = "ALLOCATED"
  /\ UNCHANGED <<rfq, invite, quote, award, sigs, late, tx, overlaps>>

BeginOrder(r, actor) ==
  /\ pool = "ALLOCATED"
  /\ Begin(r, Call("order", None, None, None, None, actor))

TriggerPoolOrder(r) ==
  /\ Open(r, "order")
  /\ Verdict("ALLOCATED", "ORDERED", tx[r].to, None) = "APPLIED"
  /\ pool' = "ORDERED"
  /\ End(r) /\ UNCHANGED <<rfq, invite, quote, award, sigs, late>>

(* Time passes expires_at; no job changes a row for it.                      *)
Expire(x) ==
  /\ x \notin late
  /\ \/ x \in Suppliers /\ invite[x] = "PENDING"
     \/ x \in DOMAIN award /\ award[x].status = "REQUESTED"
  /\ late' = late \cup {x}
  /\ UNCHANGED <<pool, rfq, invite, quote, award, sigs, tx, overlaps>>

Bidding ==
  \E r \in Reqs :
    \/ \E s \in Suppliers : \/ BeginSendInvite(r, s) \/ CancelInvite(r, s)
                            \/ AcceptInvite(r, s) \/ DeclineInvite(r, s)
                            \/ BeginSubmitQuote(r, s) \/ BeginAcceptQuote(r, s)
                            \/ BeginRejectQuote(r, s)
    \/ SendInvite(r) \/ AnswerInvite(r) \/ SubmitQuote(r) \/ AcceptQuote(r) \/ RejectQuote(r)

Awarding ==
  \E r \in Reqs :
    \/ \E s \in Suppliers, u \in Users : BeginRequestAward(r, s, u)
    \/ \E id \in ApprovalIds, u \in Users :
         BeginApproveAward(r, id, u) \/ BeginRejectAward(r, id, u)
    \/ \E id \in ApprovalIds : RequestAward(r, id)
    \/ ApproveAward(r) \/ RejectAward(r)

Ordering ==
  \/ Allocate
  \/ \E r \in Reqs : \/ \E actor \in {"TENANT_ADMIN", "TENANT_USER"} : BeginOrder(r, actor)
                     \/ TriggerPoolOrder(r)

Next ==
  \/ Bidding
  \/ Awarding
  \/ Ordering
  \/ \E r \in Reqs : Abort(r)
  \/ \E x \in Suppliers \cup ApprovalIds : Expire(x)

Spec == Init /\ [][Next]_vars

-----------------------------------------------------------------------------
Awarded == {"ACCEPTED", "ALLOCATING", "ALLOCATED", "ORDERED"}

(* The award approvals that a user other than their maker signed for.       *)
Countersigned ==
  {id \in DOMAIN award : \E sig \in sigs : /\ sig.award = id /\ sig.decision = "APPROVE"
                                          /\ sig.signer # award[id].maker}

(* G-021 over every interleaving: no quote is accepted, no RFQ closed and no *)
(* pool taken to ACCEPTED or beyond on one person's word.                    *)
AwardedByTwo ==
  /\ \A s \in Suppliers : quote[s] = "ACCEPTED" => \E id \in Countersigned : award[id].quote = s
  /\ rfq = "ACCEPTED" \/ pool \in Awarded => Countersigned # {}

(* The pool, the RFQ and the quotes agree on whether there is an award; with *)
(* one, exactly one quote is accepted and none is left open.                 *)
Coherent ==
  /\ rfq = "ACCEPTED" <=> pool \in Awarded
  /\ IF rfq = "ACCEPTED"
     THEN /\ \E s \in Suppliers : \A q \in Suppliers : quote[q] = "ACCEPTED" <=> q = s
          /\ \A s \in Suppliers : quote[s] # "SUBMITTED"
     ELSE \A s \in Suppliers : quote[s] # "ACCEPTED"

(* AD-1 and QD-8: as long as no two requests overlap, pool, RFQ and quotes   *)
(* tell of the same award.                                                   *)
AwardIsCoherent == overlaps = 0 => Coherent

(* The tables of a tender, read off the rows.                                *)
QuotesThat(status) == {s \in Suppliers : quote[s] = status}
Motions == [id \in DOMAIN award |-> <<award[id].quote, award[id].maker>>]
Pending == {id \in DOMAIN award : award[id].status = "REQUESTED"}
Votes   == {<<sig.award, sig.signer, sig.decision>> : sig \in sigs}

Promised == INSTANCE Tender
              WITH Ids <- ApprovalIds, open <- QuotesThat("SUBMITTED"),
                   refused <- QuotesThat("REJECTED"), won <- QuotesThat("ACCEPTED"),
                   closed <- (rfq = "ACCEPTED"), motion <- Motions, pending <- Pending,
                   votes <- Votes

(* As long as no two requests overlap, the award goes as a tender does: an   *)
(* offer is decided once, one motion is pending at a time and decided by     *)
(* another than its maker, and the motion that is carried names the winner,  *)
(* turns the others down and closes the RFQ in one step.                     *)
ImplementsTender ==
  Promised!Init /\ [][overlaps' = 0 => Promised!Next]_(Promised!tables)

(* The from-state in the log is a literal of the handler, not what the row   *)
(* held.  As long as no two requests overlap the two agree: the row follows  *)
(* an edge of the registry at every step.                                    *)
PoolFollowsRegistry ==
  [][overlaps' = 0 /\ pool' # pool =>
       \E e \in Edges : e.from = pool /\ e.to = pool']_vars
=============================================================================
