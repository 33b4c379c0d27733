----------------------------- MODULE Settlement -----------------------------
(***************************************************************************)
(* The escrow ledger and settlement: POST /tenant/settlements and POST     *)
(* /control/settlements over SettlementService.settleTrade, and POST       *)
(* /tenant/escrows/:id/transactions over EscrowService.recordTransaction,  *)
(* for one trade and the escrow account linked to it.                      *)
(*                                                                         *)
(* A settlement is one READ COMMITTED transaction: gates, balance, ledger  *)
(* debit, trade to SETTLEMENT_ACKNOWLEDGED, escrow to RELEASED, trade to   *)
(* CLOSED.  Requests in different slots interleave between statements;     *)
(* what a transaction writes sits in its slot until it commits.  Each of   *)
(* the three transitions runs the pipeline that EntityLifecycle models     *)
(* statement by statement; here its reads are one step and its row update  *)
(* another.                                                                *)
(***************************************************************************)
EXTENDS Integers, SequencesExt

CONSTANTS StatesOfTrade, TerminalOfTrade, EdgesOfTrade,     \* the registry of trades
          StatesOfEscrow, TerminalOfEscrow, EdgesOfEscrow,  \* and of escrow accounts
          None,                \* SQL NULL
          TradeStart, EscrowStart,   \* the states the pair is found in
          References,          \* reference ids
          Reqs,                \* slots for concurrent requests
          Settlers,            \* bound: who settles, over which route
          AiChoices,           \* bound: the AI flags a settlement may carry
          Amounts,             \* bound: settled amounts, in the escrow's currency
          Entries,             \* bound: ledger rows a tenant may record
          Blocks,              \* bound: the stops that come and go
          MaxLedger            \* bound: no request begins with this many ledger rows

Trade  == INSTANCE StateMachine
            WITH States <- StatesOfTrade, Terminal <- TerminalOfTrade, Edges <- EdgesOfTrade
Escrow == INSTANCE StateMachine
            WITH States <- StatesOfEscrow, Terminal <- TerminalOfEscrow, Edges <- EdgesOfEscrow

(* The tenant route derives the actor from the role of the token, the       *)
(* control route takes it from the body; a ledger entry has no actor type.  *)
Callers == [route: {"TENANT"}, actor: {"TENANT_USER", "TENANT_ADMIN"}] \cup
           [route: {"CONTROL"}, actor: Trade!ActorTypes] \cup
           [route: {"LEDGER"}, actor: {None}]

EntryTypes == {"HOLD", "RELEASE", "REFUND", "ADJUSTMENT"}
Directions == {"CREDIT", "DEBIT"}

(* An escrow_transactions row; settled is the metadata of a settlement.     *)
LedgerRow == [entry: EntryTypes, dir: Directions, amount: Nat \ {0},
              ref: References \cup {None}, settled: BOOLEAN]

ASSUME SettlementAssumption ==
  /\ EdgesOfTrade \subseteq Trade!Edge /\ EdgesOfEscrow \subseteq Escrow!Edge
  /\ TradeStart \subseteq StatesOfTrade /\ EscrowStart \subseteq StatesOfEscrow
  /\ None \notin StatesOfTrade \cup StatesOfEscrow \cup References
  /\ Settlers \subseteq {c \in Callers : c.route # "LEDGER"}
  /\ AiChoices \subseteq Trade!AiFlags
  /\ Amounts \subseteq Nat \ {0}
  /\ Entries \subseteq {row \in LedgerRow : ~row.settled}
  /\ Blocks \subseteq {"TRADE", "ESCROW", "ORG", "SANCTION"}
  /\ MaxLedger \in Nat

VARIABLES trade, escrow,  \* committed lifecycle states of the pair
          ledger,         \* committed escrow_transactions, in commit order
          stop,           \* what blocks the pair now
          requested,      \* an active approval of the escrow's release exists
          tx              \* slot -> the open request

db == <<trade, escrow, ledger, stop, requested>>
vars == <<trade, escrow, ledger, stop, requested, tx>>

(* A freeze on the trade, on the escrow, on the tenant's organisation, and  *)
(* a sanction on the organisation.                                          *)
StopKinds == {"TRADE", "ESCROW", "ORG", "SANCTION"}

(* The stages of a request, named after the statement it runs next.         *)
Stages  == {"freezeTrade", "gates", "balance", "reference", "record", "acknowledge",
            "updateTrade", "release", "updateEscrow", "requestRelease", "close", "commit", "reply"}
Answers == {"NONE", "APPLIED", "PENDING_APPROVAL", "RECORDED", "DUPLICATE", "ERROR", "FAILED"}

(* seen is the trade state of the first read; row the ledger row it asks    *)
(* for; rows, tradeTo, escrowTo and draft what the transaction has written; *)
(* answer what it will be told if it commits.  The rest is history: clear   *)
(* the stops absent at some moment since the request began, before the      *)
(* ledger as it was when it began.                                          *)
Request == [pc: Stages, caller: Callers, ai: Trade!AiFlags, seen: StatesOfTrade, row: LedgerRow,
            rows: Seq(LedgerRow), tradeTo: StatesOfTrade \cup {None},
            escrowTo: StatesOfEscrow \cup {None}, draft: BOOLEAN, answer: Answers,
            clear: SUBSET StopKinds, before: Seq(LedgerRow)]

TypeOK ==
  /\ trade \in StatesOfTrade /\ escrow \in StatesOfEscrow
  /\ ledger \in Seq(LedgerRow)
  /\ stop \subseteq StopKinds /\ requested \in BOOLEAN
  /\ DOMAIN tx \subseteq Reqs /\ tx \in [DOMAIN tx -> Request]

Init ==
  /\ trade \in TradeStart
  /\ escrow \in EscrowStart
  /\ ledger = << >>
  /\ stop = {}
  /\ requested = FALSE
  /\ tx = << >>

(* computeDerivedBalance: credits less debits.                              *)
Balance(rows) ==
  FoldLeft(LAMBDA sum, row : IF row.dir = "CREDIT" THEN sum + row.amount ELSE sum - row.amount,
           0, rows)

Known(ref, rows) == \E i \in 1..Len(rows) : rows[i].ref = ref

Open(r, pc) == r \in DOMAIN tx /\ tx[r].pc = pc

Goto(r, pc) == tx' = [tx EXCEPT ![r].pc = pc]

(* The service returns: the callback ends and the transaction commits with  *)
(* whatever it has written.                                                 *)
Return(r, answer) == tx' = [tx EXCEPT ![r].pc = "commit", ![r].answer = answer]

(* The request is answered without a trace.                                 *)
Undo(r, answer) ==
  tx' = [tx EXCEPT ![r].pc = "reply", ![r].answer = answer, ![r].rows = << >>,
                   ![r].tradeTo = None, ![r].escrowTo = None, ![r].draft = FALSE]

Settles(t) == t.caller.route # "LEDGER"

(* The tenant settlement route builds its services without sanctions.       *)
ChecksSanctions(t) == t.caller.route # "TENANT"

Input(t, from, to, ai) ==
  [from |-> from, to |-> to, actor |-> t.caller.actor, user |-> "principal", admin |-> None,
   ai |-> ai, level |-> 0, maker |-> None]

(* What transitionTrade answers: its freeze gate and the state machine's    *)
(* checks before the verdict.  Neither route passes a maker or a level.     *)
TradeAnswer(t, from, to, ai) ==
  IF stop \cap {"TRADE", "ORG"} # {} \/ (ChecksSanctions(t) /\ "SANCTION" \in stop) THEN "DENIED"
  ELSE Trade!Verdict(Input(t, from, to, ai))

EscrowAnswer(t) ==
  IF stop \cap {"ESCROW", "ORG"} # {} \/ (ChecksSanctions(t) /\ "SANCTION" \in stop) THEN "DENIED"
  ELSE Escrow!Verdict(Input(t, escrow, "RELEASED", t.ai))

-----------------------------------------------------------------------------
Started(r, pc, caller, ai, row) ==
  [s \in DOMAIN tx \cup {r} |->
     IF s # r THEN tx[s]
     ELSE [pc |-> pc, caller |-> caller, ai |-> ai, seen |-> trade, row |-> row, rows |-> << >>,
           tradeTo |-> None, escrowTo |-> None, draft |-> FALSE, answer |-> "NONE",
           clear |-> StopKinds \ stop, before |-> ledger]]

(* A settlement loads the linked pair.                                      *)
BeginSettle(r, caller, ai, amount, ref) ==
  /\ r \notin DOMAIN tx
  /\ Len(ledger) < MaxLedger
  /\ tx' = Started(r, "freezeTrade", caller, ai,
                   [entry |-> "RELEASE", dir |-> "DEBIT", amount |-> amount, ref |-> ref, settled |-> TRUE])
  /\ UNCHANGED db

(* A tenant records a ledger entry: no gate, no balance check.              *)
BeginRecord(r, row) ==
  /\ r \notin DOMAIN tx
  /\ Len(ledger) < MaxLedger
  /\ tx' = Started(r, "reference", [route |-> "LEDGER", actor |-> None], "NO", row)
  /\ UNCHANGED db

FreezeTrade(r) ==
  /\ Open(r, "freezeTrade")
  /\ IF "TRADE" \in stop THEN Undo(r, "ERROR") ELSE Goto(r, "gates")
  /\ UNCHANGED db

(* Step 6: does the edge from the state first read need a second person?    *)
NeedsMakerChecker(t) ==
  \E e \in EdgesOfTrade : e.from = t.seen /\ e.to = "SETTLEMENT_ACKNOWLEDGED" /\ e.mc

GatesWithoutEscrowFreeze(r) ==
  /\ Open(r, "gates")
  /\ LET t == tx[r] IN
     IF t.seen = "DISPUTED" \/ t.ai = "UNCONFIRMED" THEN Undo(r, "ERROR")
     ELSE IF NeedsMakerChecker(t) /\ t.caller.actor \notin {"MAKER", "CHECKER"}
       THEN Undo(r, "PENDING_APPROVAL")
       ELSE Goto(r, "balance")
  /\ UNCHANGED db

(* Escrow freeze, dispute, AI boundary, maker-checker pre-check.            *)
Gates(r) ==
  /\ Open(r, "gates")
  /\ LET t == tx[r] IN
     IF "ESCROW" \in stop \/ t.seen = "DISPUTED" \/ t.ai = "UNCONFIRMED" THEN Undo(r, "ERROR")
     ELSE IF NeedsMakerChecker(t) /\ t.caller.actor \notin {"MAKER", "CHECKER"}
       THEN Undo(r, "PENDING_APPROVAL")
       ELSE Goto(r, "balance")
  /\ UNCHANGED db

BalanceIsPositive(r) ==
  /\ Open(r, "balance")
  /\ IF Balance(ledger) > 0 THEN Goto(r, "reference") ELSE Undo(r, "ERROR")
  /\ UNCHANGED db

(* Step 7: the derived balance covers the amount.                           *)
CheckBalance(r) ==
  /\ Open(r, "balance")
  /\ IF Balance(ledger) >= tx[r].row.amount THEN Goto(r, "reference") ELSE Undo(r, "ERROR")
  /\ UNCHANGED db

DuplicateIsSuccess(r) ==
  /\ Open(r, "reference")
  /\ LET t == tx[r] IN
     IF t.row.ref = None \/ ~Known(t.row.ref, ledger) THEN Goto(r, "record")
     ELSE IF Settles(t) THEN Goto(r, "acknowledge") ELSE Undo(r, "DUPLICATE")
  /\ UNCHANGED db

ReferenceUnchecked(r) ==
  /\ Open(r, "reference")
  /\ Goto(r, "record")
  /\ UNCHANGED db

(* recordTransaction steps 2 to 4: is the reference among the committed     *)
(* rows?  Nothing else guards it: the index on reference_id is not unique.  *)
CheckReference(r) ==
  /\ Open(r, "reference")
  /\ LET ref == tx[r].row.ref IN
     IF ref # None /\ Known(ref, ledger) THEN Undo(r, "DUPLICATE") ELSE Goto(r, "record")
  /\ UNCHANGED db

(* recordTransaction: the sanction check of a RELEASE entry, the insert.    *)
(* The ledger route then writes its audit row, a settlement goes on.        *)
Record(r) ==
  /\ Open(r, "record")
  /\ LET t == tx[r] IN
     IF ChecksSanctions(t) /\ t.row.entry = "RELEASE" /\ "SANCTION" \in stop
     THEN Undo(r, "ERROR")
     ELSE tx' = [tx EXCEPT ![r].rows = << t.row >>,
                           ![r].pc = IF Settles(t) THEN "acknowledge" ELSE "commit",
                           ![r].answer = IF Settles(t) THEN "NONE" ELSE "RECORDED"]
  /\ UNCHANGED db

(* Step 9a: transitionTrade reads the trade again and asks for              *)
(* SETTLEMENT_ACKNOWLEDGED.  It is built without maker-checker service, so  *)
(* PENDING_APPROVAL leaves no approval; the debit is kept.  A refusal is    *)
(* passed over.                                                             *)
Acknowledge(r) ==
  /\ Open(r, "acknowledge")
  /\ LET answer == TradeAnswer(tx[r], trade, "SETTLEMENT_ACKNOWLEDGED", tx[r].ai) IN
     \/ answer = "APPLIED" /\ Goto(r, "updateTrade")
     \/ answer = "PENDING_APPROVAL" /\ Return(r, "PENDING_APPROVAL")
     \/ answer \notin {"APPLIED", "PENDING_APPROVAL"} /\ Goto(r, "release")
  /\ UNCHANGED db

(* trade.update: wait for the holder of the row.                            *)
UpdateTrade(r) ==
  /\ Open(r, "updateTrade")
  /\ \A s \in DOMAIN tx : tx[s].tradeTo = None
  /\ tx' = [tx EXCEPT ![r].tradeTo = "SETTLEMENT_ACKNOWLEDGED", ![r].pc = "release"]
  /\ UNCHANGED db

ClosesWhenAcknowledged(r) ==
  /\ Open(r, "release")
  /\ LET answer == EscrowAnswer(tx[r]) IN
     \/ answer = "APPLIED" /\ Goto(r, "updateEscrow")
     \/ answer # "APPLIED" /\ tx[r].tradeTo # None /\ Goto(r, "close")
     \/ answer # "APPLIED" /\ tx[r].tradeTo = None /\ Return(r, "APPLIED")
  /\ UNCHANGED db

(* Step 9b: transitionEscrow reads the account and asks for RELEASED.       *)
Release(r) ==
  /\ Open(r, "release")
  /\ LET answer == EscrowAnswer(tx[r]) IN
     \/ answer = "APPLIED" /\ Goto(r, "updateEscrow")
     \/ answer = "PENDING_APPROVAL" /\ Goto(r, "requestRelease")
     \/ answer \notin {"APPLIED", "PENDING_APPROVAL"} /\ Return(r, "APPLIED")
  /\ UNCHANGED db

(* The account's row is updated; the trade is closed only if this           *)
(* settlement has acknowledged it.                                          *)
UpdateEscrow(r) ==
  /\ Open(r, "updateEscrow")
  /\ \A s \in DOMAIN tx : tx[s].escrowTo = None
  /\ tx' = [tx EXCEPT ![r].escrowTo = "RELEASED",
                      ![r].pc = IF tx[r].tradeTo = None THEN "commit" ELSE "close",
                      ![r].answer = "APPLIED"]
  /\ UNCHANGED db

(* createApprovalRequest for the release: an uncommitted duplicate is       *)
(* waited for, a committed one aborts the transaction, the audit insert     *)
(* fails and the route answers 500.                                         *)
RequestRelease(r) ==
  /\ Open(r, "requestRelease")
  /\ \A s \in DOMAIN tx : ~tx[s].draft
  /\ IF requested THEN Undo(r, "FAILED")
     ELSE tx' = [tx EXCEPT ![r].draft = TRUE, ![r].pc = "commit", ![r].answer = "APPLIED"]
  /\ UNCHANGED db

(* Step 9c: transitionTrade sees its own update and asks for CLOSED.  A     *)
(* refusal leaves the trade acknowledged.                                   *)
Close(r) ==
  /\ Open(r, "close")
  /\ LET t == tx[r] IN
     tx' = [tx EXCEPT ![r].pc = "commit", ![r].answer = "APPLIED",
              ![r].tradeTo = IF TradeAnswer(t, @, "CLOSED", "NO") = "APPLIED" THEN "CLOSED" ELSE @]
  /\ UNCHANGED db

(* The audit row is written, the transaction commits.                       *)
Commit(r) ==
  /\ Open(r, "commit")
  /\ LET t == tx[r] IN
     /\ ledger' = ledger \o t.rows
     /\ trade' = IF t.tradeTo = None THEN trade ELSE t.tradeTo
     /\ escrow' = IF t.escrowTo = None THEN escrow ELSE t.escrowTo
     /\ requested' = (requested \/ t.draft)
     /\ Undo(r, t.answer)
  /\ UNCHANGED stop

Forget(r) == tx' = [s \in DOMAIN tx \ {r} |-> tx[s]]

Reply(r) ==
  /\ Open(r, "reply")
  /\ Forget(r)
  /\ UNCHANGED db

(* A crash, a client that is gone, a transaction timeout.                   *)
Lose(r) ==
  /\ r \in DOMAIN tx
  /\ Forget(r)
  /\ UNCHANGED db

-----------------------------------------------------------------------------
(* Other requests of the platform, each in a transaction of its own.        *)
Block(k) ==
  /\ k \notin stop
  /\ stop' = stop \cup {k}
  /\ UNCHANGED <<trade, escrow, ledger, requested, tx>>

Unblock(k) ==
  /\ k \in stop
  /\ stop' = stop \ {k}
  /\ tx' = [s \in DOMAIN tx |-> [tx[s] EXCEPT !.clear = @ \cup {k}]]
  /\ UNCHANGED <<trade, escrow, ledger, requested>>

RouteActors == {"TENANT_ADMIN", "PLATFORM_ADMIN"}

RouteInput(actor, from, to) ==
  [from |-> from, to |-> to, actor |-> actor, user |-> "principal", admin |-> None,
   ai |-> "NO", level |-> 0, maker |-> None]

(* A transition route moves the trade or the account, when no settlement    *)
(* holds its row.                                                           *)
MoveTrade(to) ==
  /\ \A s \in DOMAIN tx : tx[s].tradeTo = None
  /\ stop \cap {"TRADE", "ORG", "SANCTION"} = {}
  /\ \E actor \in RouteActors : Trade!Verdict(RouteInput(actor, trade, to)) = "APPLIED"
  /\ trade' = to
  /\ UNCHANGED <<escrow, ledger, stop, requested, tx>>

MoveEscrow(to) ==
  /\ \A s \in DOMAIN tx : tx[s].escrowTo = None
  /\ stop \cap {"ESCROW", "ORG", "SANCTION"} = {}
  /\ \E actor \in RouteActors : Escrow!Verdict(RouteInput(actor, escrow, to)) = "APPLIED"
  /\ escrow' = to
  /\ UNCHANGED <<trade, ledger, stop, requested, tx>>

(* The approval of the release is signed or expires.                        *)
Decide ==
  /\ requested
  /\ requested' = FALSE
  /\ UNCHANGED <<trade, escrow, ledger, stop, tx>>

Progress(r) ==
  \/ FreezeTrade(r)
  \/ Gates(r)
  \/ CheckBalance(r)
  \/ CheckReference(r)
  \/ Record(r)
  \/ Acknowledge(r)
  \/ UpdateTrade(r)
  \/ Release(r)
  \/ UpdateEscrow(r)
  \/ RequestRelease(r)
  \/ Close(r)
  \/ Commit(r)
  \/ Reply(r)

Next ==
  \/ \E r \in Reqs :
       \/ \E c \in Settlers, ai \in AiChoices, amount \in Amounts, ref \in References :
            BeginSettle(r, c, ai, amount, ref)
       \/ \E row \in Entries : BeginRecord(r, row)
       \/ Progress(r)
       \/ Lose(r)
  \/ \E k \in Blocks : Block(k) \/ Unblock(k)
  \/ \E to \in StatesOfTrade : MoveTrade(to)
  \/ \E to \in StatesOfEscrow : MoveEscrow(to)
  \/ Decide

Spec == Init /\ [][Next]_vars

-----------------------------------------------------------------------------
(* What ReleasedWasPaid and ClosesWithRelease ask of the registry and of    *)
(* the start; the seed and its mocks give it.  No transition route          *)
(* acknowledges a trade or releases an account, a trade is escalated only   *)
(* at a level, which no route passes, and is closed only from               *)
(* SETTLEMENT_ACKNOWLEDGED or ESCALATED.                                    *)
SettledOnlyHere ==
  /\ TradeStart \cap {"SETTLEMENT_ACKNOWLEDGED", "ESCALATED"} = {} /\ "RELEASED" \notin EscrowStart
  /\ \A e \in EdgesOfTrade :
       /\ e.to = "SETTLEMENT_ACKNOWLEDGED" => e.actors \cap RouteActors = {}
       /\ e.to = "ESCALATED" => e.esc
       /\ e.to = "CLOSED" => e.from \in {"SETTLEMENT_ACKNOWLEDGED", "ESCALATED"}
  /\ \A e \in EdgesOfEscrow : e.to = "RELEASED" => e.actors \cap RouteActors = {}

(* A settlement that debits ran at a moment when the trade, and at one when *)
(* the escrow, was not frozen; where the route checks sanctions, a RELEASE  *)
(* was written only if the tenant was free of them at some moment.          *)
DebitRanUnblocked ==
  \A r \in DOMAIN tx : LET t == tx[r] IN
    t.rows # << >> =>
      /\ Settles(t) => {"TRADE", "ESCROW"} \subseteq t.clear
      /\ ChecksSanctions(t) /\ t.row.entry = "RELEASE" => "SANCTION" \in t.clear

(* "Idempotency check (service-layer; DB index is the backstop)": what a    *)
(* transaction has inserted carries no reference that was in the ledger     *)
(* when the request began, whichever of settlement and ledger route wrote   *)
(* it.  (Two requests that overlap may insert one reference: the index is   *)
(* not unique.)                                                             *)
ReferenceOnce ==
  \A r \in DOMAIN tx : LET t == tx[r] IN
    t.rows # << >> /\ t.row.ref # None => ~Known(t.row.ref, t.before)

(* The ledger when it had n rows.                                           *)
LedgerAt(n) == [i \in 1..n |-> ledger[i]]

(* "Block settlement if the computed balance is less than the requested     *)
(* amount" (settlement.service.ts, step 7): a settlement debits what the    *)
(* account held at some moment since it began; if no other request commits  *)
(* in that time, what it holds now.  (What is recorded between the sum and  *)
(* the insert is not seen: two overlapping debits may overdraw.)            *)
SettlementIsCovered ==
  \A r \in DOMAIN tx : LET t == tx[r] IN
    Settles(t) /\ t.rows # << >> =>
      \E n \in Len(t.before)..Len(ledger) : Balance(LedgerAt(n)) >= t.row.amount

(* Funds are not acknowledged or released without the ledger saying so: an  *)
(* account is RELEASED, a trade SETTLEMENT_ACKNOWLEDGED, only if a          *)
(* settlement's debit is in the ledger.                                     *)
ReleasedWasPaid ==
  escrow = "RELEASED" \/ trade = "SETTLEMENT_ACKNOWLEDGED"
    => \E i \in 1..Len(ledger) : ledger[i].settled

(* "ONLY if escrow is now RELEASED": a settlement that closes its trade     *)
(* releases the escrow in the same commit; any other way to CLOSED starts   *)
(* from SETTLEMENT_ACKNOWLEDGED.                                            *)
ClosesWithRelease ==
  [][trade' = "CLOSED" /\ trade # "CLOSED" =>
       trade = "SETTLEMENT_ACKNOWLEDGED" \/ escrow' = "RELEASED"]_vars
=============================================================================
