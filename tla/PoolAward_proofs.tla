--------------------------- MODULE PoolAward_proofs ---------------------------
(***************************************************************************)
(* No pool is awarded on one person's word, whatever requests overlap.     *)
(***************************************************************************)
EXTENDS PoolAward, TLAPS

SupplierOps == {"sendInvite", "answerInvite", "submitQuote", "acceptQuote", "rejectQuote",
                "requestAward"}
DecisionOps == {"approveAward", "rejectAward"}

(* What the reads and checks of a request leave true until it writes.  An    *)
(* order starts from a pool that was awarded.                                *)
Promise(q) ==
  /\ q.op \in SupplierOps => q.of \in Suppliers
  /\ q.op = "answerInvite" => q.to \in InviteStatus
  /\ q.op = "requestAward" => q.by \in Users
  /\ q.op \in DecisionOps => q.on \in DOMAIN award /\ q.by \in Users
  /\ q.op \in DecisionOps => award[q.on].maker # q.by
  /\ q.op = "order" => Countersigned # {}

Promises == \A r \in DOMAIN tx : Promise(tx[r])

IInv == TypeOK /\ Promises /\ AwardedByTwo

-----------------------------------------------------------------------------
LEMMA EndEffect ==
  ASSUME TypeOK, NEW r \in DOMAIN tx, End(r)
  PROVE  /\ DOMAIN tx' = DOMAIN tx \ {r} /\ \A x \in DOMAIN tx' : tx'[x] = tx[x]
         /\ DOMAIN tx' \subseteq Reqs /\ tx' \in [DOMAIN tx' -> Request]
         /\ overlaps' \in 0..MaxOverlaps
  BY DEF End, TypeOK

LEMMA BeginKeeps ==
  ASSUME IInv, NEW r \in Reqs, NEW q \in Request, Begin(r, q), Promise(q)
  PROVE  IInv'
<1>1. /\ r \notin DOMAIN tx /\ DOMAIN tx' = DOMAIN tx \cup {r} /\ tx'[r] = q
      /\ \A x \in DOMAIN tx : tx'[x] = tx[x]
      /\ UNCHANGED <<pool, rfq, invite, quote, award, sigs, late>>
  BY DEF Begin, db
<1>2. tx' \in [DOMAIN tx' -> Request] /\ DOMAIN tx' \subseteq Reqs
  BY <1>1 DEF Begin, IInv, TypeOK
<1>3. overlaps' \in 0..MaxOverlaps
  BY PoolAwardAssumption DEF Begin, IInv, TypeOK
<1>4. TypeOK'
  BY <1>1, <1>2, <1>3 DEF IInv, TypeOK
<1>5. UNCHANGED Countersigned
  BY <1>1 DEF Countersigned
<1>6. Promises'
  BY <1>1, <1>5 DEF IInv, Promises, Promise
<1> QED BY <1>1, <1>4, <1>5, <1>6 DEF IInv, AwardedByTwo, Awarded

(* The requests that begin, with what they promise.                          *)
LEMMA BidsPromise ==
  ASSUME IInv, NEW r \in Reqs, NEW s \in Suppliers,
         \/ BeginSendInvite(r, s) \/ CancelInvite(r, s) \/ AcceptInvite(r, s) \/ DeclineInvite(r, s)
         \/ BeginSubmitQuote(r, s) \/ BeginAcceptQuote(r, s) \/ BeginRejectQuote(r, s)
  PROVE  \E q \in Request : Begin(r, q) /\ Promise(q)
<1>1. CASE BeginSendInvite(r, s)
  <2> DEFINE q == [op |-> "sendInvite", of |-> s, on |-> None, by |-> None, saw |-> None, to |-> None]
  <2>1. Begin(r, q) /\ q \in Request
    <3>1. q \in Request
      BY DEF Request, Ops
    <3>2. Begin(r, q)
      BY <1>1 DEF BeginSendInvite, Call
    <3> QED BY <3>1, <3>2
  <2> QED BY <2>1 DEF Promise, DecisionOps
<1>2. ASSUME NEW status \in InviteStatus, BeginAnswer(r, s, status)
      PROVE  \E q \in Request : Begin(r, q) /\ Promise(q)
  <2> DEFINE q == [op |-> "answerInvite", of |-> s, on |-> None, by |-> None, saw |-> None,
                   to |-> status]
  <2>1. Begin(r, q) /\ q \in Request
    <3>1. q \in Request
      BY DEF Request, Ops
    <3>2. Begin(r, q)
      BY <1>2 DEF BeginAnswer, Call
    <3> QED BY <3>1, <3>2
  <2> QED BY <2>1 DEF Promise, DecisionOps
<1>3. CASE BeginSubmitQuote(r, s)
  <2> DEFINE q == [op |-> "submitQuote", of |-> s, on |-> None, by |-> None, saw |-> rfq, to |-> None]
  <2>1. Begin(r, q) /\ q \in Request
    <3>1. q \in Request
      BY DEF Request, Ops, IInv, TypeOK
    <3>2. Begin(r, q)
      BY <1>3 DEF BeginSubmitQuote, Call
    <3> QED BY <3>1, <3>2
  <2> QED BY <2>1 DEF Promise, DecisionOps
<1>4. CASE BeginAcceptQuote(r, s)
  <2> DEFINE q == [op |-> "acceptQuote", of |-> s, on |-> None, by |-> None, saw |-> pool, to |-> None]
  <2>1. Begin(r, q) /\ q \in Request
    <3>1. q \in Request
      BY DEF Request, Ops, IInv, TypeOK
    <3>2. Begin(r, q)
      BY <1>4 DEF BeginAcceptQuote, Call
    <3> QED BY <3>1, <3>2
  <2> QED BY <2>1 DEF Promise, DecisionOps
<1>5. CASE BeginRejectQuote(r, s)
  <2> DEFINE q == [op |-> "rejectQuote", of |-> s, on |-> None, by |-> None, saw |-> None, to |-> None]
  <2>1. Begin(r, q) /\ q \in Request
    <3>1. q \in Request
      BY DEF Request, Ops
    <3>2. Begin(r, q)
      BY <1>5 DEF BeginRejectQuote, Call
    <3> QED BY <3>1, <3>2
  <2> QED BY <2>1 DEF Promise, DecisionOps
<1>6. CASE CancelInvite(r, s) \/ AcceptInvite(r, s) \/ DeclineInvite(r, s)
  BY <1>2, <1>6 DEF CancelInvite, AcceptInvite, DeclineInvite, InviteStatus
<1> QED BY <1>1, <1>3, <1>4, <1>5, <1>6

LEMMA AwardsPromise ==
  ASSUME IInv, NEW r \in Reqs,
         \/ \E s \in Suppliers, u \in Users : BeginRequestAward(r, s, u)
         \/ \E id \in ApprovalIds, u \in Users :
              BeginApproveAward(r, id, u) \/ BeginRejectAward(r, id, u)
         \/ \E actor \in {"TENANT_ADMIN", "TENANT_USER"} : BeginOrder(r, actor)
  PROVE  \E q \in Request : Begin(r, q) /\ Promise(q)
<1>1. ASSUME NEW s \in Suppliers, NEW u \in Users, BeginRequestAward(r, s, u)
      PROVE  \E q \in Request : Begin(r, q) /\ Promise(q)
  <2> DEFINE q == [op |-> "requestAward", of |-> s, on |-> None, by |-> u, saw |-> pool, to |-> None]
  <2>1. Begin(r, q) /\ q \in Request
    <3>1. q \in Request
      BY DEF Request, Ops, IInv, TypeOK
    <3>2. Begin(r, q)
      BY <1>1 DEF BeginRequestAward, Call
    <3> QED BY <3>1, <3>2
  <2> QED BY <2>1 DEF Promise, DecisionOps
<1>2. ASSUME NEW id \in ApprovalIds, NEW u \in Users, BeginApproveAward(r, id, u)
      PROVE  \E q \in Request : Begin(r, q) /\ Promise(q)
  <2> DEFINE q == [op |-> "approveAward", of |-> None, on |-> id, by |-> u, saw |-> None, to |-> None]
  <2>1. Begin(r, q) /\ q \in Request
    <3>1. q \in Request
      BY DEF Request, Ops
    <3>2. Begin(r, q)
      BY <1>2 DEF BeginApproveAward, Call
    <3> QED BY <3>1, <3>2
  <2>2. id \in DOMAIN award /\ award[id].maker # u
    BY <1>2 DEF BeginApproveAward, Undecided
  <2> QED BY <2>1, <2>2 DEF Promise, SupplierOps
<1>3. ASSUME NEW id \in ApprovalIds, NEW u \in Users, BeginRejectAward(r, id, u)
      PROVE  \E q \in Request : Begin(r, q) /\ Promise(q)
  <2> DEFINE q == [op |-> "rejectAward", of |-> None, on |-> id, by |-> u, saw |-> None, to |-> None]
  <2>1. Begin(r, q) /\ q \in Request
    <3>1. q \in Request
      BY DEF Request, Ops
    <3>2. Begin(r, q)
      BY <1>3 DEF BeginRejectAward, Call
    <3> QED BY <3>1, <3>2
  <2>2. id \in DOMAIN award /\ award[id].maker # u
    BY <1>3 DEF BeginRejectAward, Undecided
  <2> QED BY <2>1, <2>2 DEF Promise, SupplierOps
<1>4. ASSUME NEW actor \in {"TENANT_ADMIN", "TENANT_USER"}, BeginOrder(r, actor)
      PROVE  \E q \in Request : Begin(r, q) /\ Promise(q)
  <2> DEFINE q == [op |-> "order", of |-> None, on |-> None, by |-> None, saw |-> None, to |-> actor]
  <2>1. Begin(r, q) /\ q \in Request
    <3>1. q \in Request
      BY DEF Request, Ops, Registry!ActorTypes
    <3>2. Begin(r, q)
      BY <1>4 DEF BeginOrder, Call
    <3> QED BY <3>1, <3>2
  <2>2. Countersigned # {}
    BY <1>4 DEF BeginOrder, IInv, AwardedByTwo, Awarded
  <2> QED BY <2>1, <2>2 DEF Promise, SupplierOps, DecisionOps
<1> QED BY <1>1, <1>2, <1>3, <1>4

-----------------------------------------------------------------------------
(* Approvals keep their maker and their quote, signatures are never removed: *)
(* what was countersigned stays so, and an open request's promise holds.     *)
LEMMA WritesKeep ==
  ASSUME IInv,
         pool' \in States, rfq' \in RfqStatus, invite' \in [Suppliers -> InviteStatus],
         quote' \in [Suppliers -> QuoteStatus], sigs \subseteq sigs', sigs' \subseteq Signature,
         late' \subseteq Suppliers \cup ApprovalIds,
         DOMAIN award \subseteq DOMAIN award', DOMAIN award' \subseteq ApprovalIds,
         award' \in [DOMAIN award' -> Award],
         \A id \in DOMAIN award : award'[id].maker = award[id].maker /\ award'[id].quote = award[id].quote,
         \/ UNCHANGED <<tx, overlaps>>
         \/ \E r \in DOMAIN tx : End(r)
  PROVE  TypeOK' /\ Promises' /\ Countersigned \subseteq Countersigned'
<1>1. /\ \A x \in DOMAIN tx' : x \in DOMAIN tx /\ tx'[x] = tx[x]
      /\ DOMAIN tx' \subseteq Reqs /\ tx' \in [DOMAIN tx' -> Request]
      /\ overlaps' \in 0..MaxOverlaps
  BY EndEffect DEF IInv, TypeOK
<1>2. TypeOK'
  BY <1>1 DEF TypeOK
<1>3. Countersigned \subseteq Countersigned'
  BY DEF Countersigned
<1>4. Promises'
  <2> SUFFICES ASSUME NEW x \in DOMAIN tx' PROVE Promise(tx[x])'
    BY DEF Promises
  <2>1. tx'[x] = tx[x] /\ Promise(tx[x])
    BY <1>1 DEF IInv, Promises
  <2>2. tx[x].op \in DecisionOps => tx[x].on \in DOMAIN award' /\ tx[x].by \in Users
    BY <2>1 DEF Promise
  <2>3. tx[x].op \in DecisionOps => award'[tx[x].on].maker # tx[x].by
    BY <2>1 DEF Promise, DecisionOps
  <2>4. tx[x].op = "order" => Countersigned' # {}
    BY <2>1, <1>3 DEF Promise
  <2> QED BY <2>1, <2>2, <2>3, <2>4 DEF Promise
<1> QED BY <1>2, <1>3, <1>4

(* A step that accepts no quote and takes neither RFQ nor pool to an award.  *)
LEMMA OthersKeep ==
  ASSUME IInv, UNCHANGED award, TypeOK', Promises', Countersigned \subseteq Countersigned',
         \A s \in Suppliers : quote'[s] = "ACCEPTED" => quote[s] = "ACCEPTED",
         rfq' = "ACCEPTED" => rfq = "ACCEPTED",
         pool' \in Awarded => pool \in Awarded \/ Countersigned # {}
  PROVE  IInv'
<1>1. AwardedByTwo'
  BY DEF IInv, AwardedByTwo, Awarded
<1> QED BY <1>1 DEF IInv

LEMMA BidKeeps ==
  ASSUME IInv, NEW r \in Reqs,
         SendInvite(r) \/ AnswerInvite(r) \/ SubmitQuote(r) \/ AcceptQuote(r) \/ RejectQuote(r)
  PROVE  IInv'
<1>1. r \in DOMAIN tx /\ End(r) /\ UNCHANGED <<award, sigs, late>>
  BY DEF SendInvite, AnswerInvite, SubmitQuote, AcceptQuote, RejectQuote, Open
<1>2. tx[r].op \in SupplierOps => tx[r].of \in Suppliers
  BY <1>1 DEF IInv, Promises, Promise
<1>3. CASE SendInvite(r) \/ AnswerInvite(r)
  <2>1. UNCHANGED <<pool, rfq, quote>>
    BY <1>3 DEF SendInvite, AnswerInvite
  <2>2. invite' \in [Suppliers -> InviteStatus]
    <3>1. CASE SendInvite(r)
      BY <3>1 DEF SendInvite, IInv, TypeOK, InviteStatus
    <3>2. CASE AnswerInvite(r)
      <4>1. tx[r].to \in InviteStatus
        BY <3>2 DEF AnswerInvite, Open, IInv, Promises, Promise
      <4> QED BY <3>2, <4>1 DEF AnswerInvite, IInv, TypeOK
    <3> QED BY <1>3, <3>1, <3>2
  <2>3. TypeOK' /\ Promises' /\ Countersigned \subseteq Countersigned'
    BY <1>1, <2>1, <2>2, WritesKeep DEF IInv, TypeOK
  <2> QED BY <1>1, <2>1, <2>3, OthersKeep
<1>4. CASE SubmitQuote(r)
  <2>1. /\ UNCHANGED <<pool, invite>> /\ quote' = [quote EXCEPT ![tx[r].of] = "SUBMITTED"]
        /\ rfq' \in {rfq, "QUOTED"}
    BY <1>4 DEF SubmitQuote
  <2>2. quote' \in [Suppliers -> QuoteStatus] /\ rfq' \in RfqStatus
    BY <2>1 DEF IInv, TypeOK, QuoteStatus, RfqStatus
  <2>3. \A s \in Suppliers : quote'[s] = "ACCEPTED" => quote[s] = "ACCEPTED"
    BY <2>1 DEF IInv, TypeOK
  <2>4. TypeOK' /\ Promises' /\ Countersigned \subseteq Countersigned'
    BY <1>1, <2>1, <2>2, WritesKeep DEF IInv, TypeOK
  <2> QED BY <1>1, <2>1, <2>3, <2>4, OthersKeep
<1>5. CASE AcceptQuote(r)
  <2>1. UNCHANGED <<pool, rfq, quote, invite>>
    BY <1>5, AwardTakesTwo DEF AcceptQuote
  <2>2. TypeOK' /\ Promises' /\ Countersigned \subseteq Countersigned'
    BY <1>1, <2>1, WritesKeep DEF IInv, TypeOK
  <2> QED BY <1>1, <2>1, <2>2, OthersKeep
<1>6. CASE RejectQuote(r)
  <2>1. UNCHANGED <<pool, rfq, invite>> /\ quote' = [quote EXCEPT ![tx[r].of] = "REJECTED"]
    BY <1>6 DEF RejectQuote
  <2>2. quote' \in [Suppliers -> QuoteStatus]
    BY <2>1 DEF IInv, TypeOK, QuoteStatus
  <2>3. \A s \in Suppliers : quote'[s] = "ACCEPTED" => quote[s] = "ACCEPTED"
    BY <2>1 DEF IInv, TypeOK
  <2>4. TypeOK' /\ Promises' /\ Countersigned \subseteq Countersigned'
    BY <1>1, <2>1, <2>2, WritesKeep DEF IInv, TypeOK
  <2> QED BY <1>1, <2>1, <2>3, <2>4, OthersKeep
<1> QED BY <1>3, <1>4, <1>5, <1>6

LEMMA RequestKeeps ==
  ASSUME IInv, NEW r \in Reqs, NEW id \in ApprovalIds, RequestAward(r, id)
  PROVE  IInv'
<1> DEFINE row == [quote |-> tx[r].of, maker |-> tx[r].by, status |-> "REQUESTED"]
<1>1. /\ r \in DOMAIN tx /\ tx[r].op = "requestAward" /\ id \notin DOMAIN award
      /\ pool' \in {pool, "QUOTED"}
      /\ award' = [i \in DOMAIN award \cup {id} |-> IF i = id THEN row ELSE award[i]]
      /\ End(r) /\ UNCHANGED <<rfq, invite, quote, sigs, late>>
  BY DEF RequestAward, Open
<1>2. row \in Award
  BY <1>1 DEF IInv, Promises, Promise, SupplierOps, Award
<1>3. /\ DOMAIN award' = DOMAIN award \cup {id} /\ \A i \in DOMAIN award : award'[i] = award[i]
      /\ award' \in [DOMAIN award' -> Award]
  BY <1>1, <1>2 DEF IInv, TypeOK
<1>4. pool' \in States
  BY <1>1, PoolAwardAssumption DEF IInv, TypeOK
<1>5. TypeOK' /\ Promises' /\ Countersigned \subseteq Countersigned'
  BY <1>1, <1>3, <1>4, WritesKeep DEF IInv, TypeOK
<1>6. AwardedByTwo'
  <2>1. \A i \in Countersigned : i \in DOMAIN award /\ award'[i].quote = award[i].quote
    BY <1>3 DEF Countersigned
  <2> QED BY <1>1, <1>5, <2>1 DEF IInv, AwardedByTwo, Awarded
<1> QED BY <1>5, <1>6 DEF IInv

(* The checker signs for the one quote that is accepted.                     *)
LEMMA ApproveKeeps ==
  ASSUME IInv, NEW r \in Reqs, ApproveAward(r)
  PROVE  IInv'
<1>1. PICK id \in DOMAIN award, checker \in Users :
        /\ r \in DOMAIN tx /\ award[id].maker # checker
        /\ AcceptOnly(award[id].quote)
        /\ award' = [award EXCEPT ![id].status = "APPROVED"]
        /\ sigs' = sigs \cup {[award |-> id, signer |-> checker, decision |-> "APPROVE"]}
        /\ pool' = "ACCEPTED" /\ rfq' = "ACCEPTED" /\ End(r) /\ UNCHANGED <<invite, late>>
  BY DEF ApproveAward, Open, IInv, Promises, Promise, DecisionOps
<1>2. award[id] \in Award /\ id \in ApprovalIds
  BY DEF IInv, TypeOK
<1>3. /\ DOMAIN award' = DOMAIN award /\ award' \in [DOMAIN award' -> Award]
      /\ \A i \in DOMAIN award : award'[i].maker = award[i].maker /\ award'[i].quote = award[i].quote
  BY <1>1, <1>2 DEF IInv, TypeOK, Award
<1>4. /\ quote' \in [Suppliers -> QuoteStatus]
      /\ \A s \in Suppliers : quote'[s] = "ACCEPTED" => s = award[id].quote \/ quote[s] = "ACCEPTED"
  BY <1>1 DEF AcceptOnly, IInv, TypeOK, QuoteStatus
<1>5. [award |-> id, signer |-> checker, decision |-> "APPROVE"] \in Signature
  BY <1>2 DEF Signature
<1>6. sigs \subseteq sigs' /\ sigs' \subseteq Signature
  BY <1>1, <1>5 DEF IInv, TypeOK
<1>7. pool' \in States /\ rfq' \in RfqStatus
  BY <1>1, PoolAwardAssumption DEF RfqStatus
<1>8. TypeOK' /\ Promises' /\ Countersigned \subseteq Countersigned'
  BY <1>1, <1>3, <1>4, <1>6, <1>7, WritesKeep DEF IInv, TypeOK
<1>9. id \in Countersigned'
  <2> DEFINE sig == [award |-> id, signer |-> checker, decision |-> "APPROVE"]
  <2>1. sig \in sigs' /\ sig.award = id /\ sig.decision = "APPROVE" /\ sig.signer # award'[id].maker
    BY <1>1, <1>3
  <2> QED BY <1>3, <2>1 DEF Countersigned
<1>10. AwardedByTwo'
  <2>1. \A i \in Countersigned : award'[i].quote = award[i].quote
    BY <1>3 DEF Countersigned
  <2>2. ASSUME NEW s \in Suppliers, quote'[s] = "ACCEPTED"
        PROVE  \E i \in Countersigned' : award'[i].quote = s
    <3>1. CASE s = award[id].quote
      BY <1>3, <1>9, <3>1
    <3>2. CASE quote[s] = "ACCEPTED"
      <4>1. PICK i \in Countersigned : award[i].quote = s
        BY <3>2 DEF IInv, AwardedByTwo
      <4> QED BY <1>8, <2>1, <4>1
    <3> QED BY <1>4, <2>2, <3>1, <3>2
  <2> QED BY <1>9, <2>2 DEF AwardedByTwo
<1> QED BY <1>8, <1>10 DEF IInv

LEMMA RejectKeeps ==
  ASSUME IInv, NEW r \in Reqs, RejectAward(r)
  PROVE  IInv'
<1>1. PICK id \in DOMAIN award, checker \in Users :
        /\ r \in DOMAIN tx /\ award' = [award EXCEPT ![id].status = "REJECTED"]
        /\ sigs' = sigs \cup {[award |-> id, signer |-> checker, decision |-> "REJECT"]}
        /\ End(r) /\ UNCHANGED <<pool, rfq, invite, quote, late>>
  BY DEF RejectAward, Open, IInv, Promises, Promise, DecisionOps
<1>2. award[id] \in Award /\ id \in ApprovalIds
  BY DEF IInv, TypeOK
<1>3. /\ DOMAIN award' = DOMAIN award /\ award' \in [DOMAIN award' -> Award]
      /\ \A i \in DOMAIN award : award'[i].maker = award[i].maker /\ award'[i].quote = award[i].quote
  BY <1>1, <1>2 DEF IInv, TypeOK, Award
<1>4. [award |-> id, signer |-> checker, decision |-> "REJECT"] \in Signature
  BY <1>2 DEF Signature
<1>5. sigs \subseteq sigs' /\ sigs' \subseteq Signature
  BY <1>1, <1>4 DEF IInv, TypeOK
<1>6. TypeOK' /\ Promises' /\ Countersigned \subseteq Countersigned'
  BY <1>1, <1>3, <1>5, WritesKeep DEF IInv, TypeOK
<1>7. AwardedByTwo'
  <2>1. \A i \in Countersigned : award'[i].quote = award[i].quote
    BY <1>3 DEF Countersigned
  <2> QED BY <1>1, <1>6, <2>1 DEF IInv, AwardedByTwo, Awarded
<1> QED BY <1>6, <1>7 DEF IInv

LEMMA OrderKeeps ==
  ASSUME IInv, Allocate \/ (\E r \in Reqs : TriggerPoolOrder(r))
  PROVE  IInv'
<1>1. /\ UNCHANGED <<rfq, invite, quote, award, sigs, late>>
      /\ \/ UNCHANGED <<tx, overlaps>>
         \/ \E r \in DOMAIN tx : End(r)
  BY DEF Allocate, TriggerPoolOrder, Open
<1>2. pool' \in States
  BY PoolAwardAssumption DEF Allocate, TriggerPoolOrder
<1>3. pool \in Awarded \/ Countersigned # {}
  <2>1. CASE Allocate
    BY <2>1 DEF Allocate, Awarded
  <2>2. CASE \E r \in Reqs : TriggerPoolOrder(r)
    BY <2>2 DEF TriggerPoolOrder, Open, IInv, Promises, Promise
  <2> QED BY <2>1, <2>2
<1>4. TypeOK' /\ Promises' /\ Countersigned \subseteq Countersigned'
  BY <1>1, <1>2, WritesKeep DEF IInv, TypeOK
<1> QED BY <1>1, <1>3, <1>4, OthersKeep

LEMMA RestKeeps ==
  ASSUME IInv, UNCHANGED <<pool, rfq, invite, quote, award, sigs>>,
         late' \subseteq Suppliers \cup ApprovalIds,
         \/ UNCHANGED <<tx, overlaps>>
         \/ \E r \in DOMAIN tx : End(r)
  PROVE  IInv'
<1>1. TypeOK' /\ Promises' /\ Countersigned \subseteq Countersigned'
  BY WritesKeep DEF IInv, TypeOK
<1> QED BY <1>1, OthersKeep

LEMMA IInvInductive == IInv /\ [Next]_vars => IInv'
<1> SUFFICES ASSUME IInv, [Next]_vars PROVE IInv'
  OBVIOUS
<1>1. CASE Bidding
  <2>1. ASSUME NEW r \in Reqs, NEW s \in Suppliers,
               \/ BeginSendInvite(r, s) \/ CancelInvite(r, s) \/ AcceptInvite(r, s)
               \/ DeclineInvite(r, s) \/ BeginSubmitQuote(r, s) \/ BeginAcceptQuote(r, s)
               \/ BeginRejectQuote(r, s)
        PROVE  IInv'
    <3>1. PICK q \in Request : Begin(r, q) /\ Promise(q)
      BY <2>1, BidsPromise
    <3> QED BY <3>1, BeginKeeps
  <2> QED BY <1>1, <2>1, BidKeeps DEF Bidding
<1>2. ASSUME NEW r \in Reqs,
             \/ \E s \in Suppliers, u \in Users : BeginRequestAward(r, s, u)
             \/ \E id \in ApprovalIds, u \in Users :
                  BeginApproveAward(r, id, u) \/ BeginRejectAward(r, id, u)
             \/ \E actor \in {"TENANT_ADMIN", "TENANT_USER"} : BeginOrder(r, actor)
      PROVE  IInv'
  <2>1. PICK q \in Request : Begin(r, q) /\ Promise(q)
    BY <1>2, AwardsPromise
  <2> QED BY <2>1, BeginKeeps
<1>3. CASE Awarding
  BY <1>2, <1>3, RequestKeeps, ApproveKeeps, RejectKeeps DEF Awarding
<1>4. CASE Ordering
  BY <1>2, <1>4, OrderKeeps DEF Ordering
<1>5. ASSUME NEW r \in Reqs, Abort(r) PROVE IInv'
  BY <1>5, RestKeeps DEF Abort, db, IInv, TypeOK
<1>6. ASSUME NEW x \in Suppliers \cup ApprovalIds, Expire(x) PROVE IInv'
  BY <1>6, RestKeeps DEF Expire, IInv, TypeOK
<1>7. CASE UNCHANGED vars
  BY <1>7, RestKeeps DEF vars, IInv, TypeOK
<1> QED BY <1>1, <1>3, <1>4, <1>5, <1>6, <1>7 DEF Next

LEMMA IInvInitially == Init => IInv
<1> SUFFICES ASSUME Init PROVE IInv
  OBVIOUS
<1>1. /\ DOMAIN tx = {} /\ tx \in [DOMAIN tx -> Request]
      /\ DOMAIN award = {} /\ award \in [DOMAIN award -> Award]
      /\ overlaps \in 0..MaxOverlaps
  BY PoolAwardAssumption DEF Init
<1>2. TypeOK
  BY <1>1, PoolAwardAssumption DEF Init, TypeOK, RfqStatus, InviteStatus, QuoteStatus
<1> QED BY <1>1, <1>2 DEF Init, IInv, Promises, AwardedByTwo, Awarded

(* Every table and every open request keep their type.                       *)
THEOREM TypeCorrect == Spec => []TypeOK
<1> QED BY IInvInitially, IInvInductive, PTL DEF Spec, IInv

(* Without a signature by a second person there is no accepted quote, no     *)
(* closed RFQ and no awarded pool, whatever requests overlap.                *)
THEOREM AwardTakesTwoPersons == Spec => []AwardedByTwo
<1> QED BY IInvInitially, IInvInductive, PTL DEF Spec, IInv

-----------------------------------------------------------------------------
(* As long as no two requests overlap, what a request has read still holds   *)
(* when it writes.                                                           *)
Read(q) ==
  /\ q.op = "submitQuote" => rfq # "ACCEPTED"
  /\ q.op = "rejectQuote" => quote[q.of] = "SUBMITTED"
  /\ q.op = "requestAward" => /\ pool \in {"CLOSED_FOR_BIDS", "QUOTED"} /\ q.saw = pool
                             /\ quote[q.of] = "SUBMITTED"
  /\ q.op \in DecisionOps => award[q.on].status = "REQUESTED"
  /\ q.op = "approveAward" => quote[award[q.on].quote] = "SUBMITTED"
  /\ q.op = "order" => pool = "ALLOCATED"

(* There is one open request at most, its reads hold, the tables are         *)
(* coherent, and the first award request has moved the pool on.              *)
Serial ==
  /\ \A x, y \in DOMAIN tx : x = y
  /\ \A r \in DOMAIN tx : Read(tx[r])
  /\ Coherent
  /\ pool \in {"CLOSED_FOR_BIDS", "QUOTED"} \cup Awarded
  /\ DOMAIN award # {} => pool # "CLOSED_FOR_BIDS"

SerialWhileAlone == overlaps = 0 => Serial

(* What ImplementsTender and PoolFollowsRegistry ask of a step.              *)
TenderStep == [Promised!Next]_(Promised!tables)

FollowsEdge == pool' # pool => \E e \in Edges : e.from = pool /\ e.to = pool'

GoodStep == Serial' /\ TenderStep /\ FollowsEdge

LEMMA AppliedIsDeclared ==
  ASSUME NEW from, NEW to, NEW actor, NEW maker, Verdict(from, to, actor, maker) = "APPLIED"
  PROVE  \E e \in Edges : e.from = from /\ e.to = to
BY DEF Verdict, Registry!Verdict, Registry!Declared

(* The end of the only request leaves none.                                  *)
LEMMA EndsAlone ==
  ASSUME Serial, NEW r \in DOMAIN tx, End(r)
  PROVE  DOMAIN tx' = {}
BY DEF Serial, End

(* The tables of the tender are read off four of the pool's.                 *)
LEMMA TenderStands ==
  ASSUME UNCHANGED <<rfq, quote, award, sigs>>
  PROVE  TenderStep
<1>1. QuotesThat("SUBMITTED")' = QuotesThat("SUBMITTED")
  BY DEF QuotesThat
<1>2. QuotesThat("REJECTED")' = QuotesThat("REJECTED")
  BY DEF QuotesThat
<1>3. QuotesThat("ACCEPTED")' = QuotesThat("ACCEPTED")
  BY DEF QuotesThat
<1>4. UNCHANGED <<Motions, Pending, Votes>>
  BY DEF Motions, Pending, Votes
<1> QED BY <1>1, <1>2, <1>3, <1>4 DEF TenderStep, Promised!tables

LEMMA BeginIsGood ==
  ASSUME Serial, overlaps = 0, overlaps' = 0, NEW r, NEW q, Begin(r, q), Read(q)
  PROVE  GoodStep
<1>1. /\ DOMAIN tx' = {r} /\ tx'[r] = q
      /\ UNCHANGED <<pool, rfq, invite, quote, award, sigs, late>>
  BY DEF Begin, db
<1>2. Serial'
  BY <1>1 DEF Serial, Read, Coherent
<1> QED BY <1>1, <1>2, TenderStands DEF GoodStep, FollowsEdge

(* A step that leaves the tables of the award and the requests alone, or     *)
(* ends the request.                                                         *)
LEMMA IdleIsGood ==
  ASSUME Serial, UNCHANGED <<pool, rfq, quote, award, sigs>>,
         UNCHANGED tx \/ \E r \in DOMAIN tx : End(r)
  PROVE  GoodStep
<1>1. \A r \in DOMAIN tx' : r \in DOMAIN tx /\ tx'[r] = tx[r]
  BY DEF End
<1>2. Serial'
  BY <1>1 DEF Serial, Read, Coherent
<1> QED BY <1>2, TenderStands DEF GoodStep, FollowsEdge

LEMMA BeginsAreGood ==
  ASSUME IInv, Serial, overlaps = 0, overlaps' = 0, NEW r \in Reqs,
         \/ \E s \in Suppliers : \/ BeginSendInvite(r, s) \/ CancelInvite(r, s)
                                 \/ AcceptInvite(r, s) \/ DeclineInvite(r, s)
                                 \/ BeginSubmitQuote(r, s) \/ BeginAcceptQuote(r, s)
                                 \/ BeginRejectQuote(r, s)
         \/ \E s \in Suppliers, u \in Users : BeginRequestAward(r, s, u)
         \/ \E id \in ApprovalIds, u \in Users :
              BeginApproveAward(r, id, u) \/ BeginRejectAward(r, id, u)
         \/ \E actor \in {"TENANT_ADMIN", "TENANT_USER"} : BeginOrder(r, actor)
  PROVE  GoodStep
<1>1. ASSUME NEW s \in Suppliers, NEW status, BeginSendInvite(r, s) \/ BeginAnswer(r, s, status)
      PROVE  \E q : Begin(r, q) /\ Read(q)
  BY <1>1 DEF BeginSendInvite, BeginAnswer, Call, Read, DecisionOps
<1>2. ASSUME NEW s \in Suppliers, BeginSubmitQuote(r, s) \/ BeginAcceptQuote(r, s)
      PROVE  \E q : Begin(r, q) /\ Read(q)
  BY <1>2 DEF BeginSubmitQuote, BeginAcceptQuote, Call, Read, DecisionOps
<1>3. ASSUME NEW s \in Suppliers, BeginRejectQuote(r, s)
      PROVE  \E q : Begin(r, q) /\ Read(q)
  BY <1>3 DEF BeginRejectQuote, Decidable, Call, Read, DecisionOps
<1>4. ASSUME NEW s \in Suppliers, NEW u \in Users, BeginRequestAward(r, s, u)
      PROVE  \E q : Begin(r, q) /\ Read(q)
  BY <1>4 DEF BeginRequestAward, Decidable, Call, Read, DecisionOps
<1>5. ASSUME NEW id \in ApprovalIds, NEW u \in Users,
             BeginApproveAward(r, id, u) \/ BeginRejectAward(r, id, u)
      PROVE  \E q : Begin(r, q) /\ Read(q)
  BY <1>5 DEF BeginApproveAward, BeginRejectAward, Undecided, Call, Read, DecisionOps
<1>6. ASSUME NEW actor, BeginOrder(r, actor)
      PROVE  \E q : Begin(r, q) /\ Read(q)
  BY <1>6 DEF BeginOrder, Call, Read, DecisionOps
<1>7. \E q : Begin(r, q) /\ Read(q)
  BY <1>1, <1>2, <1>3, <1>4, <1>5, <1>6 DEF CancelInvite, AcceptInvite, DeclineInvite
<1> QED BY <1>7, BeginIsGood

(* Each write of a request that has the pool to itself is a step of the      *)
(* tender.                                                                   *)
LEMMA OffersAreMade ==
  ASSUME IInv, Serial, NEW r \in Reqs, SubmitQuote(r)
  PROVE  TenderStep
<1> DEFINE s == tx[r].of
<1>1. /\ s \in Suppliers /\ rfq # "ACCEPTED" /\ rfq' # "ACCEPTED" /\ quote[s] = "NONE"
      /\ quote' = [quote EXCEPT ![s] = "SUBMITTED"] /\ UNCHANGED <<award, sigs>>
      /\ quote \in [Suppliers -> QuoteStatus]
  BY DEF SubmitQuote, Open, Serial, Read, IInv, TypeOK, Promises, Promise, SupplierOps
<1> HIDE DEF s
<1>2. QuotesThat("SUBMITTED")' = QuotesThat("SUBMITTED") \cup {s}
  BY <1>1 DEF QuotesThat
<1>3. QuotesThat("REJECTED")' = QuotesThat("REJECTED")
  BY <1>1 DEF QuotesThat
<1>4. QuotesThat("ACCEPTED")' = QuotesThat("ACCEPTED")
  BY <1>1 DEF QuotesThat
<1>5. UNCHANGED <<Motions, Pending, Votes>>
  BY <1>1 DEF Motions, Pending, Votes
<1>6. s \notin QuotesThat("SUBMITTED") \cup QuotesThat("REJECTED") \cup QuotesThat("ACCEPTED")
  BY <1>1 DEF QuotesThat
<1>7. Promised!Offer(s)
  BY <1>1, <1>2, <1>3, <1>4, <1>5, <1>6 DEF Promised!Offer
<1> QED BY <1>1, <1>7 DEF TenderStep, Promised!Next

LEMMA OffersAreTurnedDown ==
  ASSUME IInv, Serial, NEW r \in Reqs, RejectQuote(r)
  PROVE  TenderStep
<1> DEFINE s == tx[r].of
<1>1. /\ s \in Suppliers /\ quote[s] = "SUBMITTED"
      /\ quote' = [quote EXCEPT ![s] = "REJECTED"] /\ UNCHANGED <<rfq, award, sigs>>
      /\ quote \in [Suppliers -> QuoteStatus]
  BY DEF RejectQuote, Open, Serial, Read, IInv, TypeOK, Promises, Promise, SupplierOps
<1> HIDE DEF s
<1>2. rfq # "ACCEPTED"
  BY <1>1 DEF Serial, Coherent
<1>3. QuotesThat("SUBMITTED")' = QuotesThat("SUBMITTED") \ {s}
  BY <1>1 DEF QuotesThat
<1>4. QuotesThat("REJECTED")' = QuotesThat("REJECTED") \cup {s}
  BY <1>1 DEF QuotesThat
<1>5. QuotesThat("ACCEPTED")' = QuotesThat("ACCEPTED")
  BY <1>1 DEF QuotesThat
<1>6. UNCHANGED <<Motions, Pending, Votes>>
  BY <1>1 DEF Motions, Pending, Votes
<1>7. s \in QuotesThat("SUBMITTED")
  BY <1>1 DEF QuotesThat
<1>8. Promised!TurnDown(s)
  BY <1>1, <1>2, <1>3, <1>4, <1>5, <1>6, <1>7 DEF Promised!TurnDown
<1> QED BY <1>1, <1>8 DEF TenderStep, Promised!Next

LEMMA MotionsAreMoved ==
  ASSUME IInv, Serial, NEW r \in Reqs, NEW id \in ApprovalIds, RequestAward(r, id)
  PROVE  TenderStep
<1> DEFINE s == tx[r].of
           maker == tx[r].by
           row == [quote |-> s, maker |-> maker, status |-> "REQUESTED"]
<1>1. /\ s \in Suppliers /\ maker \in Users /\ quote[s] = "SUBMITTED"
      /\ pool \in {"CLOSED_FOR_BIDS", "QUOTED"}
      /\ id \notin DOMAIN award /\ \A i \in DOMAIN award : award[i].status # "REQUESTED"
      /\ award' = [i \in DOMAIN award \cup {id} |-> IF i = id THEN row ELSE award[i]]
      /\ UNCHANGED <<rfq, quote, sigs>>
  BY DEF RequestAward, Open, Serial, Read, IInv, Promises, Promise, SupplierOps
<1>2. row.quote = s /\ row.maker = maker /\ row.status = "REQUESTED"
  OBVIOUS
<1> HIDE DEF s, maker, row
<1>3. rfq # "ACCEPTED"
  BY <1>1 DEF Serial, Coherent, Awarded
<1>4. /\ Motions' = [i \in DOMAIN Motions \cup {id} |-> IF i = id THEN <<s, maker>> ELSE Motions[i]]
      /\ id \notin DOMAIN Motions
  BY <1>1, <1>2 DEF Motions
<1>5. Pending = {} /\ Pending' = {id}
  <2>1. \A i : i \in Pending' <=> i = id
    BY <1>1, <1>2 DEF Pending
  <2> QED BY <1>1, <2>1 DEF Pending
<1>6. QuotesThat("SUBMITTED")' = QuotesThat("SUBMITTED")
  BY <1>1 DEF QuotesThat
<1>7. QuotesThat("REJECTED")' = QuotesThat("REJECTED")
  BY <1>1 DEF QuotesThat
<1>8. QuotesThat("ACCEPTED")' = QuotesThat("ACCEPTED")
  BY <1>1 DEF QuotesThat
<1>9. UNCHANGED Votes
  BY <1>1 DEF Votes
<1>10. s \in QuotesThat("SUBMITTED")
  BY <1>1 DEF QuotesThat
<1>11. Promised!Move(id, s, maker)
  BY <1>1, <1>3, <1>4, <1>5, <1>6, <1>7, <1>8, <1>9, <1>10 DEF Promised!Move
<1> QED BY <1>1, <1>11 DEF TenderStep, Promised!Next

(* A decision of an approval is a vote on its motion.                        *)
LEMMA DecisionIsVote ==
  ASSUME IInv, NEW id \in DOMAIN award, NEW checker \in Users, NEW status, NEW decision,
         award[id].status = "REQUESTED", status # "REQUESTED", award[id].maker # checker,
         award' = [award EXCEPT ![id].status = status],
         sigs' = sigs \cup {[award |-> id, signer |-> checker, decision |-> decision]}
  PROVE  Promised!Vote(id, checker, decision)
<1>1. /\ DOMAIN award' = DOMAIN award
      /\ \A i \in DOMAIN award : /\ award'[i].quote = award[i].quote
                                 /\ award'[i].maker = award[i].maker
                                 /\ award'[i].status = IF i = id THEN status ELSE award[i].status
  BY DEF IInv, TypeOK, Award
<1>2. UNCHANGED Motions /\ Motions[id][2] = award[id].maker
  BY <1>1 DEF Motions
<1>3. Pending' = Pending \ {id} /\ id \in Pending
  BY <1>1 DEF Pending
<1>4. Votes' = Votes \cup {<<id, checker, decision>>}
  <2> DEFINE new == [award |-> id, signer |-> checker, decision |-> decision]
             vote(sig) == <<sig.award, sig.signer, sig.decision>>
  <2>1. vote(new) = <<id, checker, decision>>
    OBVIOUS
  <2>2. Votes = {vote(sig) : sig \in sigs} /\ Votes' = {vote(sig) : sig \in sigs \cup {new}}
    BY DEF Votes
  <2> HIDE DEF new, vote
  <2> QED BY <2>1, <2>2
<1> QED BY <1>2, <1>3, <1>4 DEF Promised!Vote

LEMMA MotionsAreCarried ==
  ASSUME IInv, Serial, NEW r \in Reqs, ApproveAward(r)
  PROVE  TenderStep
<1> DEFINE id == tx[r].on
           checker == tx[r].by
           s == award[id].quote
<1>1. /\ id \in DOMAIN award /\ checker \in Users /\ rfq' = "ACCEPTED"
      /\ award[id].maker # checker /\ award[id].status = "REQUESTED"
      /\ quote[s] = "SUBMITTED" /\ AcceptOnly(s)
      /\ award' = [award EXCEPT ![id].status = "APPROVED"]
      /\ sigs' = sigs \cup {[award |-> id, signer |-> checker, decision |-> "APPROVE"]}
  BY DEF ApproveAward, Open, Serial, Read, IInv, Promises, Promise, DecisionOps
<1>2. s \in Suppliers /\ id \in ApprovalIds /\ quote \in [Suppliers -> QuoteStatus]
  BY <1>1 DEF IInv, TypeOK, Award
<1> HIDE DEF id, checker
<1>3. Promised!Vote(id, checker, "APPROVE")
  BY <1>1, DecisionIsVote
<1>4. Motions[id][1] = s
  BY <1>1 DEF Motions
<1> HIDE DEF s
<1>5. rfq # "ACCEPTED" /\ \A q \in Suppliers : quote[q] # "ACCEPTED"
  BY <1>1, <1>2 DEF Serial, Coherent
<1>6. s \in QuotesThat("SUBMITTED")
  BY <1>1, <1>2 DEF QuotesThat
<1>7. QuotesThat("SUBMITTED")' = {}
  BY <1>1 DEF QuotesThat, AcceptOnly
<1>8. QuotesThat("ACCEPTED")' = {s}
  BY <1>1, <1>2, <1>5 DEF QuotesThat, AcceptOnly
<1>9. QuotesThat("REJECTED")' = QuotesThat("REJECTED") \cup (QuotesThat("SUBMITTED") \ {s})
  BY <1>1, <1>2 DEF QuotesThat, AcceptOnly
<1>10. Promised!Carry(id, checker)
  BY <1>1, <1>3, <1>4, <1>5, <1>6, <1>7, <1>8, <1>9 DEF Promised!Carry
<1> QED BY <1>1, <1>2, <1>10 DEF TenderStep, Promised!Next

LEMMA MotionsAreDismissed ==
  ASSUME IInv, Serial, NEW r \in Reqs, RejectAward(r)
  PROVE  TenderStep
<1> DEFINE id == tx[r].on
           checker == tx[r].by
<1>1. /\ id \in DOMAIN award /\ checker \in Users /\ award[id].maker # checker
      /\ award[id].status = "REQUESTED" /\ UNCHANGED <<rfq, quote>>
      /\ award' = [award EXCEPT ![id].status = "REJECTED"]
      /\ sigs' = sigs \cup {[award |-> id, signer |-> checker, decision |-> "REJECT"]}
  BY DEF RejectAward, Open, Serial, Read, IInv, Promises, Promise, DecisionOps
<1>2. id \in ApprovalIds
  BY <1>1 DEF IInv, TypeOK
<1> HIDE DEF id, checker
<1>3. Promised!Vote(id, checker, "REJECT")
  BY <1>1, DecisionIsVote
<1>4. QuotesThat("SUBMITTED")' = QuotesThat("SUBMITTED")
  BY <1>1 DEF QuotesThat
<1>5. QuotesThat("REJECTED")' = QuotesThat("REJECTED")
  BY <1>1 DEF QuotesThat
<1>6. QuotesThat("ACCEPTED")' = QuotesThat("ACCEPTED")
  BY <1>1 DEF QuotesThat
<1>7. Promised!Dismiss(id, checker)
  BY <1>1, <1>3, <1>4, <1>5, <1>6 DEF Promised!Dismiss
<1> QED BY <1>1, <1>2, <1>7 DEF TenderStep, Promised!Next

LEMMA QuotesAreGood ==
  ASSUME IInv, Serial, NEW r \in Reqs, SubmitQuote(r) \/ RejectQuote(r)
  PROVE  GoodStep
<1>1. /\ r \in DOMAIN tx /\ End(r) /\ UNCHANGED <<pool, award>> /\ Read(tx[r])
      /\ tx[r].of \in Suppliers /\ quote \in [Suppliers -> QuoteStatus]
  BY DEF SubmitQuote, RejectQuote, Open, Serial, IInv, TypeOK, Promises, Promise, SupplierOps
<1>2. DOMAIN tx' = {}
  BY <1>1, EndsAlone
<1>3. /\ rfq # "ACCEPTED" /\ rfq' # "ACCEPTED"
      /\ \A s \in Suppliers : quote[s] # "ACCEPTED" /\ quote'[s] # "ACCEPTED"
  <2>1. CASE SubmitQuote(r)
    <3>1. /\ rfq # "ACCEPTED" /\ rfq' \in {rfq, "QUOTED"} /\ quote[tx[r].of] = "NONE"
          /\ quote' = [quote EXCEPT ![tx[r].of] = "SUBMITTED"]
      BY <1>1, <2>1 DEF SubmitQuote, Open, Read
    <3> QED BY <1>1, <3>1 DEF Serial, Coherent
  <2>2. CASE RejectQuote(r)
    <3>1. /\ quote[tx[r].of] = "SUBMITTED" /\ UNCHANGED rfq
          /\ quote' = [quote EXCEPT ![tx[r].of] = "REJECTED"]
      BY <1>1, <2>2 DEF RejectQuote, Open, Read
    <3> QED BY <1>1, <3>1 DEF Serial, Coherent
  <2> QED BY <2>1, <2>2
<1>4. Serial'
  BY <1>1, <1>2, <1>3 DEF Serial, Coherent
<1>5. TenderStep
  BY OffersAreMade, OffersAreTurnedDown
<1> QED BY <1>1, <1>4, <1>5 DEF GoodStep, FollowsEdge

LEMMA RequestIsGood ==
  ASSUME IInv, Serial, NEW r \in Reqs, NEW id \in ApprovalIds, RequestAward(r, id)
  PROVE  GoodStep
<1>1. /\ r \in DOMAIN tx /\ End(r) /\ UNCHANGED <<rfq, quote>>
      /\ pool \in {"CLOSED_FOR_BIDS", "QUOTED"} /\ pool' = "QUOTED"
      /\ pool = "CLOSED_FOR_BIDS" =>
           Verdict("CLOSED_FOR_BIDS", "QUOTED", "TENANT_ADMIN", None) = "APPLIED"
  BY DEF RequestAward, Open, Serial, Read
<1>2. DOMAIN tx' = {}
  BY <1>1, EndsAlone
<1>3. TenderStep
  BY MotionsAreMoved
<1>4. Serial'
  BY <1>1, <1>2 DEF Serial, Coherent, Awarded
<1>5. FollowsEdge
  BY <1>1, AppliedIsDeclared DEF FollowsEdge
<1> QED BY <1>3, <1>4, <1>5 DEF GoodStep

LEMMA ApproveIsGood ==
  ASSUME IInv, Serial, NEW r \in Reqs, ApproveAward(r)
  PROVE  GoodStep
<1> DEFINE id == tx[r].on
           s == award[id].quote
<1>1. /\ r \in DOMAIN tx /\ End(r) /\ pool' = "ACCEPTED" /\ rfq' = "ACCEPTED"
      /\ id \in DOMAIN award /\ award[id].status = "REQUESTED" /\ quote[s] = "SUBMITTED"
      /\ award' = [award EXCEPT ![id].status = "APPROVED"] /\ AcceptOnly(s)
      /\ Verdict("QUOTED", "ACCEPTED", "CHECKER", award[id].maker) = "APPLIED"
  BY DEF ApproveAward, Open, Serial, Read, IInv, Promises, Promise, DecisionOps
<1>2. s \in Suppliers
  BY <1>1 DEF IInv, TypeOK, Award
<1>3. DOMAIN tx' = {}
  BY <1>1, EndsAlone
<1>4. rfq # "ACCEPTED" /\ pool = "QUOTED" /\ \A q \in Suppliers : quote[q] # "ACCEPTED"
  BY <1>1, <1>2 DEF Serial, Coherent
<1> HIDE DEF s, id
<1>5. \A q \in Suppliers : /\ quote'[q] = "ACCEPTED" <=> q = s
                           /\ quote'[q] # "SUBMITTED"
  BY <1>1, <1>2, <1>4 DEF AcceptOnly
<1>6. Serial'
  BY <1>1, <1>2, <1>3, <1>5 DEF Serial, Coherent, Awarded
<1>7. FollowsEdge
  BY <1>1, <1>4, AppliedIsDeclared DEF FollowsEdge
<1>8. TenderStep
  BY MotionsAreCarried
<1> QED BY <1>6, <1>7, <1>8 DEF GoodStep

LEMMA RejectIsGood ==
  ASSUME IInv, Serial, NEW r \in Reqs, RejectAward(r)
  PROVE  GoodStep
<1>1. /\ r \in DOMAIN tx /\ End(r) /\ UNCHANGED <<pool, rfq, quote>>
      /\ tx[r].on \in DOMAIN award /\ award[tx[r].on].status = "REQUESTED"
      /\ award' = [award EXCEPT ![tx[r].on].status = "REJECTED"]
  BY DEF RejectAward, Open, Serial, Read, IInv, Promises, Promise, DecisionOps
<1>2. DOMAIN tx' = {} /\ DOMAIN award' = DOMAIN award
  BY <1>1, EndsAlone
<1>3. Serial'
  BY <1>1, <1>2 DEF Serial, Coherent
<1>4. TenderStep
  BY MotionsAreDismissed
<1> QED BY <1>1, <1>3, <1>4 DEF GoodStep, FollowsEdge

LEMMA OrderIsGood ==
  ASSUME IInv, Serial, Allocate \/ (\E r \in Reqs : TriggerPoolOrder(r))
  PROVE  GoodStep
<1>1. CASE Allocate
  <2>1. /\ UNCHANGED <<rfq, quote, award, sigs, tx>> /\ pool \in Awarded /\ pool' \in Awarded
        /\ pool \notin {"CLOSED_FOR_BIDS", "QUOTED", "ALLOCATED"} /\ pool' # "CLOSED_FOR_BIDS"
    BY <1>1 DEF Allocate, Awarded
  <2>2. FollowsEdge
    BY <1>1, AllocationIsDeclared DEF Allocate, FollowsEdge
  <2>3. Serial'
    BY <2>1 DEF Serial, Read, Coherent
  <2> QED BY <2>1, <2>2, <2>3, TenderStands DEF GoodStep
<1>2. ASSUME NEW r \in Reqs, TriggerPoolOrder(r) PROVE GoodStep
  <2>1. /\ r \in DOMAIN tx /\ End(r) /\ UNCHANGED <<rfq, quote, award, sigs>>
        /\ pool = "ALLOCATED" /\ pool' = "ORDERED"
        /\ Verdict("ALLOCATED", "ORDERED", tx[r].to, None) = "APPLIED"
    BY <1>2 DEF TriggerPoolOrder, Open, Serial, Read
  <2>2. DOMAIN tx' = {}
    BY <2>1, EndsAlone
  <2>3. Serial'
    BY <2>1, <2>2 DEF Serial, Coherent, Awarded
  <2>4. FollowsEdge
    BY <2>1, AppliedIsDeclared DEF FollowsEdge
  <2> QED BY <2>1, <2>3, <2>4, TenderStands DEF GoodStep
<1> QED BY <1>1, <1>2

LEMMA OverlapsGrow == IInv /\ [Next]_vars /\ overlaps' = 0 => overlaps = 0
<1> SUFFICES ASSUME IInv, [Next]_vars, overlaps' = 0 PROVE overlaps = 0
  OBVIOUS
<1>1. ASSUME NEW r, NEW q, Begin(r, q) PROVE overlaps = 0
  BY <1>1, PoolAwardAssumption DEF Begin, IInv, TypeOK
<1>2. CASE UNCHANGED overlaps
  BY <1>2
<1>3. CASE \E r, q : Begin(r, q)
  BY <1>1, <1>3
<1>4. UNCHANGED overlaps \/ \E r, q : Begin(r, q)
  BY DEF Next, Bidding, Awarding, Ordering, BeginSendInvite, CancelInvite, AcceptInvite,
         DeclineInvite, BeginAnswer, BeginSubmitQuote, BeginAcceptQuote, BeginRejectQuote,
         SendInvite, AnswerInvite, SubmitQuote, AcceptQuote, RejectQuote, BeginRequestAward,
         BeginApproveAward, BeginRejectAward, RequestAward, ApproveAward, RejectAward, Allocate,
         BeginOrder, TriggerPoolOrder, Abort, Expire, End, vars
<1> QED BY <1>2, <1>3, <1>4

LEMMA StepIsGood ==
  ASSUME IInv, Serial, overlaps = 0, overlaps' = 0, [Next]_vars
  PROVE  GoodStep
<1>1. CASE Bidding
  <2>1. ASSUME NEW r \in Reqs, SendInvite(r) \/ AnswerInvite(r) \/ AcceptQuote(r)
        PROVE  GoodStep
    <3>1. r \in DOMAIN tx /\ End(r) /\ UNCHANGED <<pool, rfq, quote, award, sigs>>
      BY <2>1, AwardTakesTwo DEF SendInvite, AnswerInvite, AcceptQuote, Open
    <3> QED BY <3>1, IdleIsGood
  <2> QED BY <1>1, <2>1, BeginsAreGood, QuotesAreGood DEF Bidding
<1>2. CASE Awarding
  BY <1>2, BeginsAreGood, RequestIsGood, ApproveIsGood, RejectIsGood DEF Awarding
<1>3. CASE Ordering
  BY <1>3, BeginsAreGood, OrderIsGood DEF Ordering
<1>4. ASSUME NEW r \in Reqs, Abort(r) PROVE GoodStep
  BY <1>4, IdleIsGood DEF Abort, db
<1>5. ASSUME NEW x \in Suppliers \cup ApprovalIds, Expire(x) PROVE GoodStep
  BY <1>5, IdleIsGood DEF Expire
<1>6. CASE UNCHANGED vars
  BY <1>6, IdleIsGood DEF vars
<1> QED BY <1>1, <1>2, <1>3, <1>4, <1>5, <1>6 DEF Next

LEMMA SerialInductive ==
  /\ Init => SerialWhileAlone
  /\ IInv /\ SerialWhileAlone /\ [Next]_vars =>
       SerialWhileAlone' /\ (overlaps' = 0 => TenderStep /\ FollowsEdge)
<1>1. Init => SerialWhileAlone
  BY DEF Init, SerialWhileAlone, Serial, Coherent, Awarded
<1> QED BY <1>1, OverlapsGrow, StepIsGood DEF SerialWhileAlone, GoodStep

(* As long as no two requests overlap, pool, RFQ and quotes tell of the same *)
(* award: one accepted quote and none left open, or no award at all.         *)
THEOREM AwardsAreCoherent == Spec => []AwardIsCoherent
<1>1. SerialWhileAlone => AwardIsCoherent
  BY DEF SerialWhileAlone, Serial, AwardIsCoherent
<1> QED BY <1>1, SerialInductive, IInvInitially, IInvInductive, PTL DEF Spec

(* As long as no two requests overlap, offers, motions and votes are those   *)
(* of a tender: decided once, by two persons, with one winner.               *)
THEOREM AwardIsATender == Spec => ImplementsTender
<1>1. Init => Promised!Init
  BY DEF Init, Promised!Init, QuotesThat, Motions, Pending, Votes
<1>2. IInv /\ SerialWhileAlone /\ [Next]_vars => [overlaps' = 0 => Promised!Next]_(Promised!tables)
  BY SerialInductive DEF TenderStep
<1> QED BY <1>1, <1>2, SerialInductive, IInvInitially, IInvInductive, PTL DEF Spec, ImplementsTender

(* Where requests never overlap, the handlers implement the tender outright. *)
THEOREM SerialAwardIsATender ==
  ASSUME MaxOverlaps = 0 PROVE Spec => Promised!Spec
<1>1. IInv' => overlaps' = 0
  BY DEF IInv, TypeOK
<1>2. IInv' /\ [overlaps' = 0 => Promised!Next]_(Promised!tables)
        => [Promised!Next]_(Promised!tables)
  BY <1>1
<1>3. Spec => []IInv
  BY IInvInitially, IInvInductive, PTL DEF Spec
<1> QED BY <1>2, <1>3, AwardIsATender, PTL DEF ImplementsTender, Promised!Spec

(* As long as no two requests overlap, the pool's row follows an edge of the *)
(* registry at every step, although the handlers log a from-state they have  *)
(* not read.                                                                 *)
THEOREM PoolKeepsToRegistry == Spec => PoolFollowsRegistry
<1>1. IInv /\ SerialWhileAlone /\ [Next]_vars => [overlaps' = 0 => FollowsEdge]_vars
  BY SerialInductive
<1>2. Spec => [][overlaps' = 0 => FollowsEdge]_vars
  BY <1>1, SerialInductive, IInvInitially, IInvInductive, PTL DEF Spec
<1>3. (overlaps' = 0 => FollowsEdge) =>
        (overlaps' = 0 /\ pool' # pool => \E e \in Edges : e.from = pool /\ e.to = pool')
  BY DEF FollowsEdge
<1> QED BY <1>2, <1>3, PTL DEF PoolFollowsRegistry
=============================================================================
