------------------------- MODULE Settlement_proofs -------------------------
(***************************************************************************)
(* The safety of settlements and of ledger entries for every registry,     *)
(* every set of callers and any number of concurrent requests.             *)
(***************************************************************************)
EXTENDS Settlement, TLAPS

(* The stages of a settlement whose debit is written.                      *)
AfterRecord ==
  {"acknowledge", "updateTrade", "release", "updateEscrow", "requestRelease", "close"}

(* What a request has written: its one row, under a reference that was not *)
(* in the ledger when it began, and the two lifecycle states of a          *)
(* settlement only beside its debit, the trade closed only beside the      *)
(* release.                                                                *)
Writes(t, pc) ==
  /\ Settles(t) => t.row.settled
  /\ t.rows # << >> => t.rows = << t.row >>
  /\ pc = "record" \/ t.rows # << >> => t.row.ref = None \/ ~Known(t.row.ref, t.before)
  /\ pc \in AfterRecord => Settles(t) /\ t.rows # << >>
  /\ t.tradeTo # None \/ t.escrowTo # None => Settles(t) /\ t.rows # << >>
  /\ t.tradeTo \in {None, "SETTLEMENT_ACKNOWLEDGED", "CLOSED"} /\ t.escrowTo \in {None, "RELEASED"}
  /\ pc = "close" \/ t.tradeTo \notin {None, "SETTLEMENT_ACKNOWLEDGED"}
       => t.escrowTo = "RELEASED" /\ "RELEASED" \in StatesOfEscrow

(* What a request at a stage has behind it: the freeze checks it has passed *)
(* left their mark in its history, ledger rows are written only after them  *)
(* and only past the sanction check, and the state it is about to write is  *)
(* one the registry knows.                                                  *)
Tracks(t, pc) ==
  /\ Writes(t, pc)
  /\ Settles(t) /\ pc \notin {"freezeTrade", "reply"} => "TRADE" \in t.clear
  /\ Settles(t) /\ pc \notin {"freezeTrade", "gates", "reply"} => "ESCROW" \in t.clear
  /\ pc \in {"freezeTrade", "gates", "reply"} => t.rows = << >>
  /\ t.rows # << >> /\ ChecksSanctions(t) /\ t.row.entry = "RELEASE" => "SANCTION" \in t.clear
  /\ pc = "updateTrade" => "SETTLEMENT_ACKNOWLEDGED" \in StatesOfTrade
  /\ pc = "updateEscrow" => "RELEASED" \in StatesOfEscrow

Tracked(t) == Tracks(t, t.pc)

(* What is not blocking now is in the history of every open request, and   *)
(* the references of its beginning are still in the ledger.                *)
HistoryHolds(t) == /\ StopKinds \ stop \subseteq t.clear
                   /\ \A ref : Known(ref, t.before) => Known(ref, ledger)

AllTracked == \A r \in DOMAIN tx : Tracked(tx[r]) /\ HistoryHolds(tx[r])

SInv == TypeOK /\ AllTracked

(* The part of the invariant that a step on one request can disturb.       *)
RequestsKept == /\ DOMAIN tx' \subseteq Reqs /\ tx' \in [DOMAIN tx' -> Request]
                /\ AllTracked'

(* An edge that is applied leads to a registered state.                    *)
LEMMA AppliedTradeIsRegistered ==
  ASSUME NEW t, NEW from, NEW to, NEW ai, TradeAnswer(t, from, to, ai) = "APPLIED"
  PROVE  to \in StatesOfTrade
BY SettlementAssumption
   DEF TradeAnswer, Input, Trade!Verdict, Trade!Declared, Trade!Edge

LEMMA AppliedEscrowIsRegistered ==
  ASSUME NEW t, EscrowAnswer(t) = "APPLIED"
  PROVE  "RELEASED" \in StatesOfEscrow
BY SettlementAssumption
   DEF EscrowAnswer, Input, Escrow!Verdict, Escrow!Declared, Escrow!Edge

LEMMA NoneIsNoState == None \notin StatesOfTrade \cup StatesOfEscrow \cup References
BY SettlementAssumption

LEMMA ReplaceRequest ==
  ASSUME SInv, UNCHANGED db, NEW r \in DOMAIN tx, NEW u \in Request, Tracked(u),
         u.clear = tx[r].clear, u.before = tx[r].before, tx' = [tx EXCEPT ![r] = u]
  PROVE  RequestsKept
<1>1. ledger' = ledger /\ stop' = stop
  BY DEF db
<1>2. \A ref : Known(ref, ledger)' <=> Known(ref, ledger)
  BY <1>1 DEF Known
<1> QED BY <1>1, <1>2 DEF SInv, TypeOK, AllTracked, HistoryHolds, RequestsKept

(* Steps that leave the requests, the ledger and the stops alone.          *)
LEMMA UntouchedStaysTracked ==
  ASSUME AllTracked, UNCHANGED <<ledger, stop, tx>>
  PROVE  AllTracked'
<1>1. \A ref : Known(ref, ledger)' <=> Known(ref, ledger)
  BY DEF Known
<1>2. tx' = tx /\ stop' = stop
  OBVIOUS
<1> QED BY <1>1, <1>2 DEF AllTracked, HistoryHolds

(* A request moves to another stage and changes nothing else.              *)
LEMMA GotoStep ==
  ASSUME SInv, UNCHANGED db, NEW r \in DOMAIN tx, NEW pc \in Stages, Goto(r, pc),
         Tracks(tx[r], pc)
  PROVE  RequestsKept
<1> DEFINE u == [tx[r] EXCEPT !.pc = pc]
<1>0. tx[r] \in Request
  BY DEF SInv, TypeOK
<1>1. /\ u \in Request /\ u.clear = tx[r].clear /\ u.before = tx[r].before /\ u.pc = pc
      /\ u.caller = tx[r].caller /\ u.row = tx[r].row /\ u.rows = tx[r].rows
      /\ u.tradeTo = tx[r].tradeTo /\ u.escrowTo = tx[r].escrowTo
  BY <1>0 DEF Request
<1>3. tx' = [tx EXCEPT ![r] = u]
  BY DEF Goto
<1> HIDE DEF u
<1>2. Tracked(u)
  BY <1>1 DEF Tracked, Tracks, Writes, Settles, ChecksSanctions
<1> QED BY <1>1, <1>2, <1>3, ReplaceRequest

(* A request that is undone keeps no row and no state to write.            *)
LEMMA UndoStep ==
  ASSUME SInv, NEW r \in DOMAIN tx, NEW answer \in Answers, Undo(r, answer), stop' = stop,
         \A ref : Known(ref, ledger) => Known(ref, ledger)'
  PROVE  RequestsKept
<1> DEFINE u == [tx[r] EXCEPT !.pc = "reply", !.answer = answer, !.rows = << >>,
                              !.tradeTo = None, !.escrowTo = None, !.draft = FALSE]
<1>1. tx[r] \in Request /\ << >> \in Seq(LedgerRow) /\ "reply" \in Stages
  BY DEF SInv, TypeOK, Stages
<1>2. /\ u \in Request /\ u.clear = tx[r].clear /\ u.pc = "reply" /\ u.rows = << >>
      /\ u.caller = tx[r].caller /\ u.row = tx[r].row /\ u.before = tx[r].before
      /\ u.tradeTo = None /\ u.escrowTo = None
  BY <1>1 DEF Request
<1>3. Tracked(u)
  <2>1. Tracked(tx[r])
    BY DEF SInv, AllTracked
  <2> HIDE DEF u
  <2> QED BY <1>2, <2>1 DEF Tracked, Tracks, Writes, AfterRecord, Settles
<1>4. tx' = [tx EXCEPT ![r] = u]
  BY DEF Undo
<1> HIDE DEF u
<1> QED BY <1>2, <1>3, <1>4 DEF SInv, TypeOK, AllTracked, HistoryHolds, RequestsKept

LEMMA ReturnStep ==
  ASSUME SInv, UNCHANGED db, NEW r \in DOMAIN tx, NEW answer \in Answers, Return(r, answer),
         Tracks(tx[r], "commit")
  PROVE  RequestsKept
<1> DEFINE u == [tx[r] EXCEPT !.pc = "commit", !.answer = answer]
<1>0. tx[r] \in Request /\ "commit" \in Stages
  BY DEF SInv, TypeOK, Stages
<1>1. /\ u \in Request /\ u.clear = tx[r].clear /\ u.before = tx[r].before /\ u.pc = "commit"
      /\ u.caller = tx[r].caller /\ u.row = tx[r].row /\ u.rows = tx[r].rows
      /\ u.tradeTo = tx[r].tradeTo /\ u.escrowTo = tx[r].escrowTo
  BY <1>0 DEF Request
<1>3. tx' = [tx EXCEPT ![r] = u]
  BY DEF Return
<1> HIDE DEF u
<1>2. Tracked(u)
  BY <1>1 DEF Tracked, Tracks, Writes, Settles, ChecksSanctions
<1> QED BY <1>1, <1>2, <1>3, ReplaceRequest

(* A request forgotten leaves the others as they are.                      *)
LEMMA ForgetStep ==
  ASSUME SInv, UNCHANGED db, NEW r \in DOMAIN tx, Forget(r)
  PROVE  RequestsKept
BY DEF SInv, TypeOK, AllTracked, HistoryHolds, RequestsKept, Forget, Known, db

-----------------------------------------------------------------------------
(* The steps of a request, one by one.                                     *)
LEMMA BeginKeeps ==
  ASSUME SInv, UNCHANGED db, NEW r \in Reqs \ DOMAIN tx, NEW pc \in {"freezeTrade", "reference"},
         NEW caller \in Callers, NEW ai \in Trade!AiFlags, NEW row \in LedgerRow,
         pc = "reference" => caller.route = "LEDGER", caller.route # "LEDGER" => row.settled,
         tx' = Started(r, pc, caller, ai, row)
  PROVE  RequestsKept
<1> DEFINE u == [pc |-> pc, caller |-> caller, ai |-> ai, seen |-> trade, row |-> row,
                 rows |-> << >>, tradeTo |-> None, escrowTo |-> None, draft |-> FALSE,
                 answer |-> "NONE", clear |-> StopKinds \ stop,
                 before |-> ledger]
<1>1. << >> \in Seq(LedgerRow) /\ trade \in StatesOfTrade /\ "NONE" \in Answers
      /\ ledger \in Seq(LedgerRow)
  BY DEF SInv, TypeOK, Answers
<1>2. u \in Request
  BY <1>1 DEF Request, Stages
<1>3. Tracked(u) /\ HistoryHolds(u)
  BY DEF Tracked, Tracks, Writes, AfterRecord, Settles, HistoryHolds
<1>4. tx' = [s \in DOMAIN tx \cup {r} |-> IF s # r THEN tx[s] ELSE u]
  BY DEF Started
<1> HIDE DEF u
<1>5. \A ref : Known(ref, ledger)' <=> Known(ref, ledger)
  BY DEF Known, db
<1> QED BY <1>2, <1>3, <1>4, <1>5 DEF SInv, TypeOK, AllTracked, HistoryHolds, RequestsKept, db

LEMMA GatesKeep ==
  ASSUME SInv, NEW r, FreezeTrade(r) \/ Gates(r)
  PROVE  RequestsKept
<1>1. /\ r \in DOMAIN tx /\ tx[r] \in Request /\ Tracked(tx[r])
      /\ StopKinds \ stop \subseteq tx[r].clear
  BY DEF FreezeTrade, Gates, Open, SInv, TypeOK, AllTracked, HistoryHolds
<1>2. {"ERROR", "PENDING_APPROVAL"} \subseteq Answers /\ {"gates", "balance"} \subseteq Stages
  BY DEF Answers, Stages
<1>3. CASE FreezeTrade(r)
  <2>1. CASE "TRADE" \in stop
    BY <1>1, <1>2, <1>3, <2>1, UndoStep DEF FreezeTrade, Known, db
  <2>2. CASE "TRADE" \notin stop
    <3>1. Tracks(tx[r], "gates")
      BY <1>1, <1>3, <2>2 DEF FreezeTrade, Open, Tracked, Tracks, Writes, AfterRecord, StopKinds
    <3> QED BY <1>1, <1>2, <1>3, <2>2, <3>1, GotoStep DEF FreezeTrade, db
  <2> QED BY <2>1, <2>2
<1>4. CASE Gates(r)
  <2>1. CASE Undo(r, "ERROR") \/ Undo(r, "PENDING_APPROVAL")
    BY <1>1, <1>2, <1>4, <2>1, UndoStep DEF Gates, Known, db
  <2>2. CASE "ESCROW" \notin stop /\ Goto(r, "balance")
    <3>1. Tracks(tx[r], "balance")
      BY <1>1, <1>4, <2>2 DEF Gates, Open, Tracked, Tracks, Writes, AfterRecord, StopKinds
    <3> QED BY <1>1, <1>2, <1>4, <2>2, <3>1, GotoStep DEF Gates, db
  <2> QED BY <1>4, <2>1, <2>2 DEF Gates
<1> QED BY <1>3, <1>4

LEMMA ChecksKeep ==
  ASSUME SInv, NEW r, CheckBalance(r) \/ CheckReference(r)
  PROVE  RequestsKept
<1>1. r \in DOMAIN tx /\ Tracked(tx[r]) /\ tx[r].pc \in {"balance", "reference"} /\ UNCHANGED db
  BY DEF CheckBalance, CheckReference, Open, SInv, AllTracked
<1>2. {"ERROR", "DUPLICATE"} \subseteq Answers /\ {"reference", "record"} \subseteq Stages
  BY DEF Answers, Stages
<1>3. Tracks(tx[r], "reference")
  BY <1>1 DEF Tracked, Tracks, Writes, AfterRecord
<1>4. CASE Undo(r, "ERROR") \/ Undo(r, "DUPLICATE")
  BY <1>1, <1>2, <1>4, UndoStep DEF Known, db
<1>5. CASE Goto(r, "reference")
  BY <1>1, <1>2, <1>3, <1>5, GotoStep
<1>6. CASE Goto(r, "record") /\ CheckReference(r)
  <2>1. tx[r].row.ref = None \/ ~Known(tx[r].row.ref, ledger)
    <3>1. Goto(r, "record") => ~Undo(r, "DUPLICATE")
      <4> SUFFICES ASSUME Goto(r, "record"), Undo(r, "DUPLICATE") PROVE FALSE
        OBVIOUS
      <4>1. tx'[r].pc = "record" /\ tx'[r].pc = "reply"
        BY <1>1 DEF Goto, Undo, SInv, TypeOK, Request
      <4> QED BY <4>1
    <3> QED BY <1>6, <3>1 DEF CheckReference
  <2>2. tx[r].row.ref = None \/ ~Known(tx[r].row.ref, tx[r].before)
    BY <1>1, <2>1 DEF SInv, AllTracked, HistoryHolds
  <2>3. Tracks(tx[r], "record")
    BY <1>1, <2>2 DEF Tracked, Tracks, Writes, AfterRecord
  <2> QED BY <1>1, <1>2, <1>6, <2>3, GotoStep
<1> QED BY <1>4, <1>5, <1>6 DEF CheckBalance, CheckReference

LEMMA RecordKeeps ==
  ASSUME SInv, NEW r, Record(r)
  PROVE  RequestsKept
<1> DEFINE t == tx[r]
           u == [t EXCEPT !.rows = << t.row >>,
                          !.pc = IF Settles(t) THEN "acknowledge" ELSE "commit",
                          !.answer = IF Settles(t) THEN "NONE" ELSE "RECORDED"]
<1>1. /\ r \in DOMAIN tx /\ t \in Request /\ Tracked(t) /\ UNCHANGED db
      /\ StopKinds \ stop \subseteq t.clear /\ t.pc = "record"
  BY DEF Record, Open, SInv, TypeOK, AllTracked, HistoryHolds
<1>2. CASE Undo(r, "ERROR")
  BY <1>1, <1>2, UndoStep DEF Answers, Known, db
<1>3. CASE /\ ~(ChecksSanctions(t) /\ t.row.entry = "RELEASE" /\ "SANCTION" \in stop)
           /\ tx' = [tx EXCEPT ![r] = u]
  <2>1. /\ << t.row >> \in Seq(LedgerRow)
        /\ {"acknowledge", "commit"} \subseteq Stages /\ {"NONE", "RECORDED"} \subseteq Answers
    BY <1>1 DEF Request, Stages, Answers
  <2>2. /\ u \in Request /\ u.clear = t.clear /\ u.before = t.before
        /\ u.pc = (IF Settles(t) THEN "acknowledge" ELSE "commit") /\ u.rows = << t.row >>
        /\ u.caller = t.caller /\ u.row = t.row
        /\ u.tradeTo = t.tradeTo /\ u.escrowTo = t.escrowTo
    BY <1>1, <2>1 DEF Request
  <2>3. Tracked(u)
    <3> HIDE DEF u
    <3>1. << t.row >> # << >>
      OBVIOUS
    <3> QED BY <1>1, <1>3, <2>2, <3>1
            DEF Tracked, Tracks, Writes, AfterRecord, Settles, ChecksSanctions, StopKinds
  <2> HIDE DEF u
  <2> QED BY <1>1, <1>3, <2>2, <2>3, ReplaceRequest
<1> QED BY <1>2, <1>3 DEF Record

LEMMA AcknowledgeKeeps ==
  ASSUME SInv, NEW r, Acknowledge(r)
  PROVE  RequestsKept
<1>1. r \in DOMAIN tx /\ Tracked(tx[r]) /\ tx[r].pc = "acknowledge" /\ UNCHANGED db
  BY DEF Acknowledge, Open, SInv, AllTracked
<1>2. "PENDING_APPROVAL" \in Answers /\ {"updateTrade", "release"} \subseteq Stages
  BY DEF Answers, Stages
<1>3. Tracks(tx[r], "commit") /\ Tracks(tx[r], "release")
  BY <1>1 DEF Tracked, Tracks, Writes, AfterRecord
<1> DEFINE answer == TradeAnswer(tx[r], trade, "SETTLEMENT_ACKNOWLEDGED", tx[r].ai)
<1>4. CASE answer = "APPLIED" /\ Goto(r, "updateTrade")
  <2>1. "SETTLEMENT_ACKNOWLEDGED" \in StatesOfTrade
    BY <1>4, AppliedTradeIsRegistered
  <2>2. Tracks(tx[r], "updateTrade")
    BY <1>1, <2>1 DEF Tracked, Tracks, Writes, AfterRecord
  <2> QED BY <1>1, <1>2, <1>4, <2>2, GotoStep
<1>5. CASE Return(r, "PENDING_APPROVAL")
  BY <1>1, <1>2, <1>3, <1>5, ReturnStep
<1>6. CASE Goto(r, "release")
  BY <1>1, <1>2, <1>3, <1>6, GotoStep
<1> QED BY <1>4, <1>5, <1>6 DEF Acknowledge

LEMMA ReleaseKeeps ==
  ASSUME SInv, NEW r, Release(r)
  PROVE  RequestsKept
<1>1. r \in DOMAIN tx /\ Tracked(tx[r]) /\ tx[r].pc = "release" /\ UNCHANGED db
  BY DEF Release, Open, SInv, AllTracked
<1>2. "APPLIED" \in Answers /\ {"updateEscrow", "requestRelease"} \subseteq Stages
  BY DEF Answers, Stages
<1>3. Tracks(tx[r], "commit") /\ Tracks(tx[r], "requestRelease")
  BY <1>1 DEF Tracked, Tracks, Writes, AfterRecord
<1>4. CASE EscrowAnswer(tx[r]) = "APPLIED" /\ Goto(r, "updateEscrow")
  <2>1. "RELEASED" \in StatesOfEscrow
    BY <1>4, AppliedEscrowIsRegistered
  <2>2. Tracks(tx[r], "updateEscrow")
    BY <1>1, <2>1 DEF Tracked, Tracks, Writes, AfterRecord
  <2> QED BY <1>1, <1>2, <1>4, <2>2, GotoStep
<1>5. CASE Return(r, "APPLIED")
  BY <1>1, <1>2, <1>3, <1>5, ReturnStep
<1>6. CASE Goto(r, "requestRelease")
  BY <1>1, <1>2, <1>3, <1>6, GotoStep
<1> QED BY <1>4, <1>5, <1>6 DEF Release

(* The row updates, the approval and the closing: the request writes more, *)
(* and its caller, ledger row and history stay.                            *)
Keeps(t, u) ==
  /\ u.caller = t.caller /\ u.row = t.row /\ u.rows = t.rows
  /\ u.clear = t.clear /\ u.before = t.before

LEMMA WriteStep ==
  ASSUME SInv, UNCHANGED db, NEW r \in DOMAIN tx, NEW u \in Request,
         tx[r].pc \in {"updateTrade", "updateEscrow", "requestRelease", "close"},
         u.pc \in {"release", "close", "commit"},
         Keeps(tx[r], u), Writes(u, u.pc), tx' = [tx EXCEPT ![r] = u]
  PROVE  RequestsKept
<1>1. Tracked(tx[r])
  BY DEF SInv, AllTracked
<1>2. Tracked(u)
  BY <1>1 DEF Keeps, Tracked, Tracks, Settles, ChecksSanctions
<1> QED BY <1>2, ReplaceRequest DEF Keeps

LEMMA UpdatesKeep ==
  ASSUME SInv, NEW r, UpdateTrade(r) \/ UpdateEscrow(r)
  PROVE  RequestsKept
<1> DEFINE t == tx[r]
<1>1. r \in DOMAIN tx /\ t \in Request /\ Tracked(t) /\ UNCHANGED db
  BY DEF UpdateTrade, UpdateEscrow, Open, SInv, TypeOK, AllTracked
<1>2. {"release", "close", "commit"} \subseteq Stages /\ "APPLIED" \in Answers
  BY DEF Stages, Answers
<1>3. CASE UpdateTrade(r)
  <2> DEFINE u == [t EXCEPT !.tradeTo = "SETTLEMENT_ACKNOWLEDGED", !.pc = "release"]
  <2>1. t.pc = "updateTrade" /\ tx' = [tx EXCEPT ![r] = u]
    BY <1>3 DEF UpdateTrade, Open
  <2>2. "SETTLEMENT_ACKNOWLEDGED" \in StatesOfTrade
    BY <1>1, <2>1 DEF Tracked, Tracks
  <2>3. /\ u \in Request /\ u.pc = "release" /\ Keeps(t, u)
        /\ u.tradeTo = "SETTLEMENT_ACKNOWLEDGED" /\ u.escrowTo = t.escrowTo
    BY <1>1, <1>2, <2>2 DEF Request, Keeps
  <2> HIDE DEF u
  <2>4. Writes(u, u.pc)
    BY <1>1, <2>1, <2>3 DEF Keeps, Tracked, Tracks, Writes, AfterRecord, Settles
  <2> QED BY <1>1, <2>1, <2>3, <2>4, WriteStep
<1>4. CASE UpdateEscrow(r)
  <2> DEFINE next == IF t.tradeTo = None THEN "commit" ELSE "close"
             u == [t EXCEPT !.escrowTo = "RELEASED", !.pc = next, !.answer = "APPLIED"]
  <2>1. t.pc = "updateEscrow" /\ tx' = [tx EXCEPT ![r] = u]
    BY <1>4 DEF UpdateEscrow, Open
  <2>2. "RELEASED" \in StatesOfEscrow
    BY <1>1, <2>1 DEF Tracked, Tracks
  <2>3. /\ u \in Request /\ u.pc \in {"commit", "close"} /\ Keeps(t, u)
        /\ u.tradeTo = t.tradeTo /\ u.escrowTo = "RELEASED"
    BY <1>1, <1>2, <2>2 DEF Request, Keeps
  <2> HIDE DEF u
  <2>4. Writes(u, u.pc)
    BY <1>1, <2>1, <2>2, <2>3 DEF Keeps, Tracked, Tracks, Writes, AfterRecord, Settles
  <2> QED BY <1>1, <2>1, <2>3, <2>4, WriteStep
<1> QED BY <1>3, <1>4

LEMMA RequestReleaseKeeps ==
  ASSUME SInv, NEW r, RequestRelease(r)
  PROVE  RequestsKept
<1> DEFINE t == tx[r]
           u == [t EXCEPT !.draft = TRUE, !.pc = "commit", !.answer = "APPLIED"]
<1>1. r \in DOMAIN tx /\ t \in Request /\ Tracked(t) /\ t.pc = "requestRelease" /\ UNCHANGED db
  BY DEF RequestRelease, Open, SInv, TypeOK, AllTracked
<1>2. "commit" \in Stages /\ {"FAILED", "APPLIED"} \subseteq Answers
  BY DEF Stages, Answers
<1>3. CASE Undo(r, "FAILED")
  BY <1>1, <1>2, <1>3, UndoStep DEF Known, db
<1>4. CASE tx' = [tx EXCEPT ![r] = u]
  <2>1. /\ u \in Request /\ u.pc = "commit" /\ Keeps(t, u)
        /\ u.tradeTo = t.tradeTo /\ u.escrowTo = t.escrowTo
    BY <1>1, <1>2 DEF Request, Keeps
  <2> HIDE DEF u
  <2>2. Writes(u, u.pc)
    BY <1>1, <2>1 DEF Keeps, Tracked, Tracks, Writes, AfterRecord, Settles
  <2> QED BY <1>1, <1>4, <2>1, <2>2, WriteStep
<1> QED BY <1>3, <1>4 DEF RequestRelease

LEMMA CloseKeeps ==
  ASSUME SInv, NEW r, Close(r)
  PROVE  RequestsKept
<1> DEFINE t == tx[r]
           next == IF TradeAnswer(t, t.tradeTo, "CLOSED", "NO") = "APPLIED" THEN "CLOSED" ELSE t.tradeTo
           u == [t EXCEPT !.pc = "commit", !.answer = "APPLIED", !.tradeTo = next]
<1>1. r \in DOMAIN tx /\ t \in Request /\ Tracked(t) /\ t.pc = "close" /\ UNCHANGED db
  BY DEF Close, Open, SInv, TypeOK, AllTracked
<1>2. tx' = [tx EXCEPT ![r] = u]
  BY <1>1 DEF Close, Request
<1>3. "commit" \in Stages /\ "APPLIED" \in Answers
  BY DEF Stages, Answers
<1>4. next \in StatesOfTrade \cup {None} /\ next \in {"CLOSED", t.tradeTo}
  BY <1>1, AppliedTradeIsRegistered DEF Request
<1> HIDE DEF next
<1>5. /\ u \in Request /\ u.pc = "commit" /\ Keeps(t, u)
      /\ u.tradeTo = next /\ u.escrowTo = t.escrowTo
  BY <1>1, <1>3, <1>4 DEF Request, Keeps
<1> HIDE DEF u
<1>6. Writes(u, u.pc)
  BY <1>1, <1>4, <1>5 DEF Keeps, Tracked, Tracks, Writes, AfterRecord, Settles
<1> QED BY <1>1, <1>2, <1>5, <1>6, WriteStep

(* What the ledger holds it holds for good.                                *)
LEMMA LedgerGrows ==
  ASSUME SInv, NEW r, Commit(r)
  PROVE  /\ \A ref : Known(ref, ledger) => Known(ref, ledger)'
         /\ \A i \in 1..Len(ledger) : i \in 1..Len(ledger') /\ ledger'[i] = ledger[i]
         /\ tx[r].rows # << >> => Len(ledger) + 1 \in 1..Len(ledger') /\ ledger'[Len(ledger) + 1] = tx[r].row
<1>1. /\ ledger \in Seq(LedgerRow) /\ tx[r].rows \in Seq(LedgerRow) /\ ledger' = ledger \o tx[r].rows
      /\ tx[r].rows # << >> => tx[r].rows = << tx[r].row >>
  BY DEF Commit, Open, SInv, TypeOK, Request, AllTracked, Tracked, Tracks, Writes
<1>2. \A i \in 1..Len(ledger) : i \in 1..Len(ledger') /\ ledger'[i] = ledger[i]
  BY <1>1
<1>3. tx[r].rows # << >> => Len(ledger) + 1 \in 1..Len(ledger') /\ ledger'[Len(ledger) + 1] = tx[r].row
  BY <1>1
<1> QED BY <1>2, <1>3 DEF Known

(* What a commit publishes is typed, and the request has nothing left.     *)
LEMMA CommitKeeps ==
  ASSUME SInv, NEW r, Commit(r)
  PROVE  SInv'
<1>1. r \in DOMAIN tx /\ tx[r] \in Request /\ stop' = stop
  BY DEF Commit, Open, SInv, TypeOK
<1>2. tx[r].answer \in Answers /\ Undo(r, tx[r].answer)
  BY <1>1 DEF Commit, Request
<1>3. RequestsKept
  BY <1>1, <1>2, LedgerGrows, UndoStep
<1>4. /\ trade' \in StatesOfTrade /\ escrow' \in StatesOfEscrow
      /\ requested' \in BOOLEAN /\ stop' \subseteq StopKinds
  BY <1>1 DEF Commit, SInv, TypeOK, Request
<1>5. ledger' \in Seq(LedgerRow)
  <2>1. ledger \in Seq(LedgerRow) /\ tx[r].rows \in Seq(LedgerRow)
    BY <1>1 DEF SInv, TypeOK, Request
  <2>2. ledger' = ledger \o tx[r].rows
    BY DEF Commit
  <2> QED BY <2>1, <2>2
<1> QED BY <1>3, <1>4, <1>5 DEF SInv, TypeOK, RequestsKept

LEMMA KeptIsInvariant ==
  ASSUME SInv, UNCHANGED db, RequestsKept
  PROVE  SInv'
BY DEF SInv, TypeOK, RequestsKept, db

LEMMA ProgressKeeps ==
  ASSUME SInv, NEW r, Progress(r)
  PROVE  SInv'
<1>1. CASE FreezeTrade(r) \/ Gates(r)
  <2>1. UNCHANGED db
    BY <1>1 DEF FreezeTrade, Gates
  <2> QED BY <1>1, <2>1, GatesKeep, KeptIsInvariant
<1>2. CASE CheckBalance(r) \/ CheckReference(r)
  <2>1. UNCHANGED db
    BY <1>2 DEF CheckBalance, CheckReference
  <2> QED BY <1>2, <2>1, ChecksKeep, KeptIsInvariant
<1>3. CASE Record(r)
  <2>1. UNCHANGED db
    BY <1>3 DEF Record
  <2> QED BY <1>3, <2>1, RecordKeeps, KeptIsInvariant
<1>4. CASE Acknowledge(r)
  <2>1. UNCHANGED db
    BY <1>4 DEF Acknowledge
  <2> QED BY <1>4, <2>1, AcknowledgeKeeps, KeptIsInvariant
<1>5. CASE UpdateTrade(r) \/ UpdateEscrow(r)
  <2>1. UNCHANGED db
    BY <1>5 DEF UpdateTrade, UpdateEscrow
  <2> QED BY <1>5, <2>1, UpdatesKeep, KeptIsInvariant
<1>6. CASE Release(r)
  <2>1. UNCHANGED db
    BY <1>6 DEF Release
  <2> QED BY <1>6, <2>1, ReleaseKeeps, KeptIsInvariant
<1>7. CASE RequestRelease(r)
  <2>1. UNCHANGED db
    BY <1>7 DEF RequestRelease
  <2> QED BY <1>7, <2>1, RequestReleaseKeeps, KeptIsInvariant
<1>8. CASE Close(r)
  <2>1. UNCHANGED db
    BY <1>8 DEF Close
  <2> QED BY <1>8, <2>1, CloseKeeps, KeptIsInvariant
<1>9. CASE Commit(r)
  BY <1>9, CommitKeeps
<1>10. CASE Reply(r)
  <2>1. r \in DOMAIN tx /\ Forget(r) /\ UNCHANGED db
    BY <1>10 DEF Reply, Open
  <2> QED BY <2>1, ForgetStep, KeptIsInvariant
<1> QED BY <1>1, <1>2, <1>3, <1>4, <1>5, <1>6, <1>7, <1>8, <1>9, <1>10 DEF Progress

(* The rest of the platform: a stop that is lifted enters every history,   *)
(* and the routes that move the pair touch no request.                     *)
LEMMA OthersKeep ==
  ASSUME SInv,
         \/ \E k \in Blocks : Block(k) \/ Unblock(k)
         \/ \E to \in StatesOfTrade : MoveTrade(to)
         \/ \E to \in StatesOfEscrow : MoveEscrow(to)
         \/ Decide
  PROVE  SInv'
<1>1. ASSUME NEW k \in Blocks, Block(k) PROVE SInv'
  <2>1. k \in StopKinds /\ stop' = stop \cup {k} /\ UNCHANGED <<trade, escrow, ledger, requested, tx>>
    BY <1>1, SettlementAssumption DEF Block, StopKinds
  <2>2. \A ref : Known(ref, ledger)' <=> Known(ref, ledger)
    BY <2>1 DEF Known
  <2> QED BY <2>1, <2>2 DEF SInv, TypeOK, AllTracked, HistoryHolds
<1>2. ASSUME NEW k \in Blocks, Unblock(k) PROVE SInv'
  <2> DEFINE u(s) == [tx[s] EXCEPT !.clear = @ \cup {k}]
  <2>1. k \in StopKinds /\ stop' = stop \ {k} /\ tx' = [s \in DOMAIN tx |-> u(s)]
    BY <1>2, SettlementAssumption DEF Unblock, StopKinds
  <2>2. ASSUME NEW s \in DOMAIN tx
        PROVE  /\ u(s) \in Request /\ Tracked(u(s)) /\ StopKinds \ (stop \ {k}) \subseteq u(s).clear
               /\ \A ref : Known(ref, u(s).before) => Known(ref, ledger)
    <3>1. /\ tx[s] \in Request /\ Tracked(tx[s]) /\ StopKinds \ stop \subseteq tx[s].clear
          /\ \A ref : Known(ref, tx[s].before) => Known(ref, ledger)
      BY DEF SInv, TypeOK, AllTracked, HistoryHolds
    <3>2. /\ u(s) \in Request /\ u(s).clear = tx[s].clear \cup {k} /\ u(s).pc = tx[s].pc
          /\ u(s).caller = tx[s].caller /\ u(s).row = tx[s].row /\ u(s).rows = tx[s].rows
          /\ u(s).before = tx[s].before
          /\ u(s).tradeTo = tx[s].tradeTo /\ u(s).escrowTo = tx[s].escrowTo
      BY <2>1, <3>1 DEF Request
    <3> HIDE DEF u
    <3> QED BY <3>1, <3>2 DEF Tracked, Tracks, Writes, AfterRecord, Settles, ChecksSanctions
  <2> HIDE DEF u
  <2>3. RequestsKept
    <3>1. stop' = stop \ {k} /\ ledger' = ledger
      BY <1>2 DEF Unblock
    <3>2. \A ref : Known(ref, ledger)' <=> Known(ref, ledger)
      BY <3>1 DEF Known
    <3> QED BY <2>1, <2>2, <3>1, <3>2 DEF SInv, TypeOK, AllTracked, HistoryHolds, RequestsKept
  <2> QED BY <1>2, <2>1, <2>3 DEF Unblock, SInv, TypeOK, RequestsKept
<1>3. ASSUME NEW to \in StatesOfTrade, MoveTrade(to) PROVE SInv'
  <2>1. trade' = to /\ UNCHANGED <<escrow, ledger, stop, requested, tx>>
    BY <1>3 DEF MoveTrade
  <2> QED BY <2>1, UntouchedStaysTracked DEF SInv, TypeOK
<1>4. ASSUME NEW to \in StatesOfEscrow, MoveEscrow(to) PROVE SInv'
  <2>1. escrow' = to /\ UNCHANGED <<trade, ledger, stop, requested, tx>>
    BY <1>4 DEF MoveEscrow
  <2> QED BY <2>1, UntouchedStaysTracked DEF SInv, TypeOK
<1>5. CASE Decide
  <2>1. requested' = FALSE /\ UNCHANGED <<trade, escrow, ledger, stop, tx>>
    BY <1>5 DEF Decide
  <2> QED BY <2>1, UntouchedStaysTracked DEF SInv, TypeOK
<1> QED BY <1>1, <1>2, <1>3, <1>4, <1>5

LEMMA NextKeeps ==
  ASSUME SInv, [Next]_vars
  PROVE  SInv'
<1>1. ASSUME NEW r \in Reqs, NEW c \in Settlers, NEW ai \in AiChoices, NEW amount \in Amounts,
             NEW ref \in References, BeginSettle(r, c, ai, amount, ref)
      PROVE  SInv'
  <2> DEFINE debit == [entry |-> "RELEASE", dir |-> "DEBIT", amount |-> amount, ref |-> ref,
                       settled |-> TRUE]
  <2>1. c \in Callers /\ ai \in Trade!AiFlags /\ debit \in LedgerRow /\ debit.settled
    BY SettlementAssumption DEF LedgerRow, EntryTypes, Directions
  <2>2. /\ r \in Reqs \ DOMAIN tx /\ UNCHANGED db
        /\ tx' = Started(r, "freezeTrade", c, ai, debit)
    BY <1>1 DEF BeginSettle
  <2> HIDE DEF debit
  <2>3. RequestsKept
    BY <2>1, <2>2, BeginKeeps
  <2> QED BY <2>2, <2>3, KeptIsInvariant
<1>2. ASSUME NEW r \in Reqs, NEW row \in Entries, BeginRecord(r, row)
      PROVE  SInv'
  <2> DEFINE c == [route |-> "LEDGER", actor |-> None]
  <2>1. /\ c \in Callers /\ "NO" \in Trade!AiFlags /\ row \in LedgerRow
        /\ c.route = "LEDGER"
    BY SettlementAssumption DEF Callers, Trade!AiFlags
  <2>2. r \notin DOMAIN tx /\ UNCHANGED db /\ tx' = Started(r, "reference", c, "NO", row)
    BY <1>2 DEF BeginRecord
  <2> HIDE DEF c
  <2>3. RequestsKept
    BY <2>1, <2>2, BeginKeeps
  <2> QED BY <2>2, <2>3, KeptIsInvariant
<1>3. ASSUME NEW r \in Reqs, Lose(r) PROVE SInv'
  BY <1>3, ForgetStep, KeptIsInvariant DEF Lose
<1>4. CASE UNCHANGED vars
  BY <1>4 DEF vars, SInv, TypeOK, AllTracked, HistoryHolds, Known
<1> QED BY <1>1, <1>2, <1>3, <1>4, ProgressKeeps, OthersKeep DEF Next

LEMMA InitTracked == Init => SInv
<1> SUFFICES ASSUME Init PROVE SInv
  OBVIOUS
<1>1. DOMAIN tx = {}
  BY DEF Init
<1>2. tx \in [DOMAIN tx -> Request] /\ AllTracked
  <2>1. tx = [x \in DOMAIN tx |-> tx[x]]
    BY DEF Init
  <2> QED BY <1>1, <2>1 DEF AllTracked
<1>3. ledger \in Seq(LedgerRow)
  BY DEF Init
<1>4. trade \in StatesOfTrade /\ escrow \in StatesOfEscrow /\ stop \subseteq StopKinds
      /\ requested \in BOOLEAN
  BY SettlementAssumption DEF Init
<1> QED BY <1>1, <1>2, <1>3, <1>4 DEF SInv, TypeOK

LEMMA Invariance == Spec => []SInv
<1>1. SInv /\ [Next]_vars => SInv'
  BY NextKeeps
<1> QED BY <1>1, InitTracked, PTL DEF Spec

(* The tables and the open requests of settlement hold only what their     *)
(* columns and types allow; the trade and the account are always in a      *)
(* state their registry knows.                                             *)
THEOREM TypeCorrect == Spec => []TypeOK
<1>1. SInv => TypeOK
  BY DEF SInv
<1> QED BY <1>1, Invariance, PTL

(* A settlement's debit ran at a moment when its trade, and at one when    *)
(* its escrow, was not frozen, and a RELEASE entry, where the route checks *)
(* sanctions, when the tenant was free of them.                            *)
THEOREM DebitsRunUnblocked == Spec => []DebitRanUnblocked
<1>1. SInv => DebitRanUnblocked
  BY DEF SInv, AllTracked, Tracked, Tracks, DebitRanUnblocked
<1> QED BY <1>1, Invariance, PTL

(* What a transaction has inserted carries no reference that was in the    *)
(* ledger when its request began, for any number of concurrent requests:   *)
(* only requests that overlap can write a reference twice.                 *)
THEOREM ReferencesAreOnce == Spec => []ReferenceOnce
<1>1. SInv => ReferenceOnce
  BY DEF SInv, AllTracked, Tracked, Tracks, Writes, ReferenceOnce
<1> QED BY <1>1, Invariance, PTL

-----------------------------------------------------------------------------
(* A settlement past its balance check, and what the check has seen: the   *)
(* ledger at some length since the settlement began covered the debit.     *)
Cleared(t) == Settles(t) /\ (t.pc \in {"reference", "record"} \/ t.rows # << >>)

Covered(t) == \E n \in Len(t.before)..Len(ledger) : Balance(LedgerAt(n)) >= t.row.amount

CoverKept(t) == /\ Len(t.before) <= Len(ledger)
                /\ Cleared(t) => Covered(t)

AllCovered == \A r \in DOMAIN tx : CoverKept(tx[r])

(* A request that a step has changed wants no more cover than it wanted.   *)
Follows(t, u) == /\ u.caller = t.caller /\ u.row = t.row /\ u.before = t.before
                 /\ Cleared(u) => Cleared(t)
                 /\ t.pc = "reply" => u.pc = "reply"

Passed(r) == /\ r \in DOMAIN tx /\ tx[r].pc = "balance"
             /\ Balance(ledger) >= tx[r].row.amount
             /\ Goto(r, "reference") /\ UNCHANGED db

(* What a step does to the requests: it begins one, or one passes its      *)
(* balance check, or one commits, or each is followed.                     *)
Begun(r) == /\ r \notin DOMAIN tx /\ DOMAIN tx' = DOMAIN tx \cup {r}
            /\ \A s \in DOMAIN tx : tx'[s] = tx[s]
            /\ tx'[r].before = ledger /\ ~Cleared(tx'[r])
            /\ UNCHANGED db

Followed == /\ ledger' = ledger
            /\ \A s \in DOMAIN tx' : s \in DOMAIN tx /\ Follows(tx[s], tx'[s])

LEMMA OneFollowed ==
  ASSUME NEW r \in DOMAIN tx, NEW u, Follows(tx[r], u), tx' = [tx EXCEPT ![r] = u],
         ledger' = ledger
  PROVE  Followed
<1>1. \A s \in DOMAIN tx : Follows(tx[s], tx[s])
  BY DEF Follows
<1> QED BY <1>1 DEF Followed

(* The steps of a request, each by the way it follows.                     *)
LEMMA MovesFollow ==
  ASSUME SInv, NEW r \in DOMAIN tx, ledger' = ledger
  PROVE  /\ \A pc \in Stages :
              /\ Goto(r, pc) /\ tx[r].pc # "reply"
              /\ pc \in {"reference", "record"} => Cleared(tx[r])
              => Followed
         /\ \A answer \in Answers : Undo(r, answer) => Followed
         /\ \A answer \in Answers : Return(r, answer) /\ tx[r].pc # "reply" => Followed
<1>1. tx[r] \in Request
  BY DEF SInv, TypeOK
<1>2. ASSUME NEW pc \in Stages, Goto(r, pc), tx[r].pc # "reply",
             pc \in {"reference", "record"} => Cleared(tx[r])
      PROVE  Followed
  <2>1. PICK u : u = [tx[r] EXCEPT !.pc = pc]
    OBVIOUS
  <2>2. /\ u.caller = tx[r].caller /\ u.row = tx[r].row /\ u.before = tx[r].before
        /\ u.rows = tx[r].rows /\ u.pc = pc
    BY <1>1, <2>1 DEF Request
  <2>3. Follows(tx[r], u)
    BY <1>2, <2>2 DEF Follows, Cleared, Settles
  <2>4. tx' = [tx EXCEPT ![r] = u]
    BY <1>2, <2>1 DEF Goto
  <2> QED BY <2>3, <2>4, OneFollowed
<1>3. ASSUME NEW answer \in Answers, Undo(r, answer) PROVE Followed
  <2>1. PICK u : u = [tx[r] EXCEPT !.pc = "reply", !.answer = answer, !.rows = << >>,
                                   !.tradeTo = None, !.escrowTo = None, !.draft = FALSE]
    OBVIOUS
  <2>2. /\ u.caller = tx[r].caller /\ u.row = tx[r].row /\ u.before = tx[r].before
        /\ u.rows = << >> /\ u.pc = "reply"
    BY <1>1, <2>1 DEF Request
  <2>3. Follows(tx[r], u)
    BY <2>2 DEF Follows, Cleared, Settles
  <2>4. tx' = [tx EXCEPT ![r] = u]
    BY <1>3, <2>1 DEF Undo
  <2> QED BY <2>3, <2>4, OneFollowed
<1>4. ASSUME NEW answer \in Answers, Return(r, answer), tx[r].pc # "reply" PROVE Followed
  <2>1. PICK u : u = [tx[r] EXCEPT !.pc = "commit", !.answer = answer]
    OBVIOUS
  <2>2. /\ u.caller = tx[r].caller /\ u.row = tx[r].row /\ u.before = tx[r].before
        /\ u.rows = tx[r].rows /\ u.pc = "commit"
    BY <1>1, <2>1 DEF Request
  <2>3. Follows(tx[r], u)
    BY <1>4, <2>2 DEF Follows, Cleared, Settles
  <2>4. tx' = [tx EXCEPT ![r] = u]
    BY <1>4, <2>1 DEF Return
  <2> QED BY <2>3, <2>4, OneFollowed
<1> QED BY <1>2, <1>3, <1>4

LEMMA WritesFollow ==
  ASSUME SInv, NEW r, \/ Record(r) \/ UpdateTrade(r) \/ UpdateEscrow(r)
                     \/ RequestRelease(r) \/ Close(r)
  PROVE  Followed
<1>1. r \in DOMAIN tx /\ tx[r] \in Request /\ ledger' = ledger
  BY DEF Record, UpdateTrade, UpdateEscrow, RequestRelease, Close, Open, SInv, TypeOK, db
<1>2. ASSUME NEW u, u.caller = tx[r].caller, u.row = tx[r].row, u.before = tx[r].before,
             tx[r].pc \notin {"reply", "reference"}, u.pc \notin {"reference", "record"},
             u.rows = tx[r].rows \/ tx[r].pc = "record", tx' = [tx EXCEPT ![r] = u]
      PROVE  Followed
  <2>1. Follows(tx[r], u)
    BY <1>2 DEF Follows, Cleared, Settles
  <2> QED BY <1>1, <1>2, <2>1, OneFollowed
<1>3. CASE Record(r)
  <2>1. CASE Undo(r, "ERROR")
    BY <1>1, <2>1, MovesFollow DEF Answers
  <2>2. PICK u : u = [tx[r] EXCEPT !.rows = << tx[r].row >>,
                                   !.pc = IF Settles(tx[r]) THEN "acknowledge" ELSE "commit",
                                   !.answer = IF Settles(tx[r]) THEN "NONE" ELSE "RECORDED"]
    OBVIOUS
  <2>3. CASE tx' = [tx EXCEPT ![r] = u]
    <3>1. tx[r].pc = "record"
      BY <1>3 DEF Record, Open
    <3>2. /\ u.caller = tx[r].caller /\ u.row = tx[r].row /\ u.before = tx[r].before
          /\ u.pc \in {"acknowledge", "commit"}
      BY <1>1, <2>2 DEF Request
    <3> QED BY <1>2, <2>3, <3>1, <3>2
  <2>4. Undo(r, "ERROR") \/ tx' = [tx EXCEPT ![r] = u]
    <3>1. CASE Settles(tx[r])
      BY <1>3, <2>2, <3>1 DEF Record
    <3>2. CASE ~Settles(tx[r])
      BY <1>3, <2>2, <3>2 DEF Record
    <3> QED BY <3>1, <3>2
  <2> QED BY <2>1, <2>3, <2>4
<1>4. CASE UpdateTrade(r)
  <2>1. PICK u : u = [tx[r] EXCEPT !.tradeTo = "SETTLEMENT_ACKNOWLEDGED", !.pc = "release"]
    OBVIOUS
  <2> QED BY <1>1, <1>2, <1>4, <2>1 DEF UpdateTrade, Open, Request
<1>5. CASE UpdateEscrow(r)
  <2>1. PICK u : u = [tx[r] EXCEPT !.escrowTo = "RELEASED",
                                   !.pc = IF tx[r].tradeTo = None THEN "commit" ELSE "close",
                                   !.answer = "APPLIED"]
    OBVIOUS
  <2> QED BY <1>1, <1>2, <1>5, <2>1 DEF UpdateEscrow, Open, Request
<1>6. CASE RequestRelease(r)
  <2>1. CASE Undo(r, "FAILED")
    BY <1>1, <2>1, MovesFollow DEF Answers
  <2>2. PICK u : u = [tx[r] EXCEPT !.draft = TRUE, !.pc = "commit", !.answer = "APPLIED"]
    OBVIOUS
  <2>3. CASE tx' = [tx EXCEPT ![r] = u]
    BY <1>1, <1>2, <1>6, <2>2, <2>3 DEF RequestRelease, Open, Request
  <2> QED BY <1>6, <2>1, <2>2, <2>3 DEF RequestRelease
<1>7. CASE Close(r)
  <2>1. PICK to : to = IF TradeAnswer(tx[r], tx[r].tradeTo, "CLOSED", "NO") = "APPLIED"
                       THEN "CLOSED" ELSE tx[r].tradeTo
    OBVIOUS
  <2>2. PICK u : u = [tx[r] EXCEPT !.pc = "commit", !.answer = "APPLIED", !.tradeTo = to]
    OBVIOUS
  <2> QED BY <1>1, <1>2, <1>7, <2>1, <2>2 DEF Close, Open, Request
<1> QED BY <1>3, <1>4, <1>5, <1>6, <1>7

LEMMA ProgressFollows ==
  ASSUME SInv, NEW r, Progress(r)
  PROVE  Followed \/ Passed(r) \/ Commit(r)
<1>1. /\ {"gates", "balance", "reference", "record", "updateTrade", "release", "updateEscrow",
          "requestRelease"} \subseteq Stages
      /\ {"ERROR", "DUPLICATE", "PENDING_APPROVAL", "APPLIED"} \subseteq Answers
  BY DEF Stages, Answers
<1>2. CASE FreezeTrade(r) \/ Gates(r)
  <2>1. r \in DOMAIN tx /\ tx[r].pc \in {"freezeTrade", "gates"} /\ ledger' = ledger
    BY <1>2 DEF FreezeTrade, Gates, Open, db
  <2>2. \/ \E answer \in {"ERROR", "PENDING_APPROVAL"} : Undo(r, answer)
        \/ \E pc \in {"gates", "balance"} : Goto(r, pc)
    BY <1>2 DEF FreezeTrade, Gates
  <2> QED BY <1>1, <2>1, <2>2, MovesFollow
<1>3. CASE CheckBalance(r)
  <2>1. r \in DOMAIN tx /\ tx[r].pc = "balance" /\ UNCHANGED db
    BY <1>3 DEF CheckBalance, Open
  <2>2. CASE ~(Balance(ledger) >= tx[r].row.amount)
    BY <1>1, <1>3, <2>1, <2>2, MovesFollow DEF CheckBalance, db
  <2>3. CASE Balance(ledger) >= tx[r].row.amount
    BY <1>3, <2>1, <2>3 DEF CheckBalance, Passed
  <2> QED BY <2>2, <2>3
<1>4. CASE CheckReference(r)
  <2>1. r \in DOMAIN tx /\ tx[r].pc = "reference" /\ ledger' = ledger
    BY <1>4 DEF CheckReference, Open, db
  <2>2. Undo(r, "DUPLICATE") \/ Goto(r, "record")
    BY <1>4 DEF CheckReference
  <2>3. CASE Undo(r, "DUPLICATE")
    BY <1>1, <2>1, <2>3, MovesFollow
  <2>4. CASE Goto(r, "record")
    <3>1. CASE Settles(tx[r])
      BY <1>1, <2>1, <2>4, <3>1, MovesFollow DEF Cleared
    <3>2. CASE ~Settles(tx[r])
      <4>1. PICK u : u = [tx[r] EXCEPT !.pc = "record"]
        OBVIOUS
      <4>2. tx[r] \in Request
        BY <2>1 DEF SInv, TypeOK
      <4>3. Follows(tx[r], u)
        BY <2>1, <3>2, <4>1, <4>2 DEF Request, Follows, Cleared, Settles
      <4> QED BY <2>1, <2>4, <4>1, <4>3, OneFollowed DEF Goto
    <3> QED BY <3>1, <3>2
  <2> QED BY <2>2, <2>3, <2>4
<1>5. CASE Acknowledge(r) \/ Release(r)
  <2>1. r \in DOMAIN tx /\ tx[r].pc \in {"acknowledge", "release"} /\ ledger' = ledger
    BY <1>5 DEF Acknowledge, Release, Open, db
  <2>2. \/ \E answer \in {"PENDING_APPROVAL", "APPLIED"} : Return(r, answer)
        \/ \E pc \in {"updateTrade", "release", "updateEscrow", "requestRelease"} : Goto(r, pc)
    BY <1>5 DEF Acknowledge, Release
  <2> QED BY <1>1, <2>1, <2>2, MovesFollow
<1>6. CASE Reply(r)
  BY <1>6 DEF Reply, Forget, Followed, Follows, db
<1> QED BY <1>2, <1>3, <1>4, <1>5, <1>6, WritesFollow DEF Progress

LEMMA StepFollows ==
  ASSUME SInv, [Next]_vars
  PROVE  \/ Followed
         \/ \E r \in Reqs : Passed(r) \/ Commit(r)
         \/ \E r \in Reqs : Begun(r)
<1>1. ASSUME NEW r \in Reqs, NEW c \in Settlers, NEW ai \in AiChoices, NEW amount \in Amounts,
             NEW ref \in References, BeginSettle(r, c, ai, amount, ref)
      PROVE  Begun(r)
  BY <1>1 DEF BeginSettle, Started, Begun, Cleared
<1>2. ASSUME NEW r \in Reqs, NEW row \in Entries, BeginRecord(r, row)
      PROVE  Begun(r)
  BY <1>2 DEF BeginRecord, Started, Begun, Cleared, Settles
<1>3. ASSUME NEW r \in Reqs, Lose(r) PROVE Followed
  BY <1>3 DEF Lose, Forget, Followed, Follows, db
<1>4. ASSUME NEW k \in Blocks, Unblock(k) PROVE Followed
  <2>1. ledger' = ledger /\ tx' = [s \in DOMAIN tx |-> [tx[s] EXCEPT !.clear = @ \cup {k}]]
    BY <1>4 DEF Unblock
  <2>2. ASSUME NEW s \in DOMAIN tx PROVE Follows(tx[s], tx'[s])
    <3>1. tx[s] \in Request /\ tx'[s] = [tx[s] EXCEPT !.clear = @ \cup {k}]
      BY <2>1 DEF SInv, TypeOK
    <3>2. /\ tx'[s].caller = tx[s].caller /\ tx'[s].row = tx[s].row /\ tx'[s].pc = tx[s].pc
          /\ tx'[s].before = tx[s].before /\ tx'[s].rows = tx[s].rows
      BY <3>1 DEF Request
    <3> QED BY <3>2 DEF Follows, Cleared, Settles
  <2> QED BY <2>1, <2>2 DEF Followed
<1>5. ASSUME UNCHANGED <<ledger, tx>> PROVE Followed
  BY <1>5 DEF Followed, Follows
<1>6. ASSUME NEW k \in Blocks, Block(k) PROVE Followed
  BY <1>5, <1>6 DEF Block
<1>7. ASSUME NEW to, MoveTrade(to) \/ MoveEscrow(to) PROVE Followed
  BY <1>5, <1>7 DEF MoveTrade, MoveEscrow
<1>8. Decide \/ UNCHANGED vars => Followed
  BY <1>5 DEF Decide, vars
<1> QED BY <1>1, <1>2, <1>3, <1>4, <1>6, <1>7, <1>8, ProgressFollows DEF Next

(* A check that passes looks at the ledger as it is, which is one of its   *)
(* lengths since the request began; a commit keeps every earlier length.   *)
LEMMA StepKeepsCover ==
  ASSUME SInv, AllCovered, [Next]_vars
  PROVE  AllCovered'
<1>1. ledger \in Seq(LedgerRow) /\ Len(ledger) \in Nat
  BY DEF SInv, TypeOK
<1>2. \A n : ledger' = ledger => LedgerAt(n)' = LedgerAt(n)
  BY DEF LedgerAt
<1>3. ASSUME ledger' = ledger, NEW t, NEW u, CoverKept(t), Follows(t, u)
      PROVE  CoverKept(u)'
  BY <1>2, <1>3 DEF CoverKept, Covered, Follows
<1>4. CASE Followed
  BY <1>3, <1>4 DEF Followed, AllCovered
<1>5. ASSUME NEW r \in Reqs, Passed(r) PROVE AllCovered'
  <2>1. r \in DOMAIN tx /\ tx[r] \in Request /\ CoverKept(tx[r]) /\ ledger' = ledger
    BY <1>5 DEF Passed, db, SInv, TypeOK, AllCovered
  <2>2. /\ tx'[r].row = tx[r].row /\ tx'[r].before = tx[r].before
        /\ DOMAIN tx' = DOMAIN tx /\ \A s \in DOMAIN tx \ {r} : tx'[s] = tx[s]
    BY <1>5, <2>1 DEF Passed, Goto, Request
  <2>3. LedgerAt(Len(ledger)) = ledger
    BY <1>1 DEF LedgerAt
  <2>4. Balance(LedgerAt(Len(ledger))) >= tx[r].row.amount
    BY <1>5, <2>3 DEF Passed
  <2>5. Len(tx[r].before) \in Nat /\ Len(tx[r].before) <= Len(ledger)
    BY <2>1 DEF CoverKept, Request
  <2>6. Len(ledger) \in Len(tx[r].before)..Len(ledger)
    BY <1>1, <2>5
  <2>7. Covered(tx'[r])
    BY <2>2, <2>4, <2>6 DEF Covered
  <2>8. CoverKept(tx'[r])
    BY <2>2, <2>5, <2>7 DEF CoverKept
  <2>9. \A s \in DOMAIN tx' : CoverKept(tx'[s])
    BY <2>2, <2>8 DEF AllCovered
  <2>10. \A t : CoverKept(t)' <=> CoverKept(t)
    BY <1>2, <2>1 DEF CoverKept, Covered
  <2> QED BY <2>9, <2>10 DEF AllCovered
<1>6. ASSUME NEW r \in Reqs, Commit(r) PROVE AllCovered'
  <2>1. r \in DOMAIN tx /\ tx[r] \in Request /\ Undo(r, tx[r].answer)
    BY <1>6 DEF Commit, Open, SInv, TypeOK
  <2>2. /\ tx'[r].rows = << >> /\ tx'[r].pc = "reply" /\ tx'[r].before = tx[r].before
        /\ DOMAIN tx' = DOMAIN tx /\ \A s \in DOMAIN tx \ {r} : tx'[s] = tx[s]
    BY <2>1 DEF Undo, Request
  <2>3. Len(ledger') \in Nat /\ Len(ledger') >= Len(ledger)
    <3>1. ledger' = ledger \o tx[r].rows /\ tx[r].rows \in Seq(LedgerRow)
      BY <1>6, <2>1 DEF Commit, Request
    <3> QED BY <1>1, <3>1
  <2>4. ASSUME NEW n \in Nat, n <= Len(ledger) PROVE LedgerAt(n)' = LedgerAt(n)
    <3>1. \A i \in 1..n : ledger'[i] = ledger[i]
      BY <1>1, <1>6, <2>4, LedgerGrows
    <3> QED BY <3>1 DEF LedgerAt
  <2>5. ASSUME NEW s \in DOMAIN tx, s # r PROVE CoverKept(tx[s])'
    <3>1. tx'[s] = tx[s] /\ tx[s] \in Request /\ CoverKept(tx[s])
      BY <2>2, <2>5 DEF SInv, TypeOK, AllCovered
    <3>2. Len(tx[s].before) \in Nat
      BY <3>1 DEF Request
    <3>3. Len(tx'[s].before) <= Len(ledger')
      BY <1>1, <2>3, <3>1, <3>2 DEF CoverKept
    <3>4. Covered(tx[s]) => \E n \in Len(tx[s].before)..Len(ledger') :
                              Balance(LedgerAt(n)') >= tx[s].row.amount
      BY <1>1, <2>3, <2>4, <3>2 DEF Covered
    <3>5. Cleared(tx[s])' => Covered(tx[s])'
      BY <3>1, <3>4 DEF CoverKept, Covered, Cleared, Settles
    <3> QED BY <3>1, <3>3, <3>5 DEF CoverKept
  <2>6. CoverKept(tx[r])'
    <3>1. Len(tx[r].before) \in Nat /\ Len(tx[r].before) <= Len(ledger)
      BY <2>1 DEF AllCovered, CoverKept, Request
    <3>2. ~Cleared(tx[r])'
      BY <2>2 DEF Cleared
    <3> QED BY <1>1, <2>2, <2>3, <3>1, <3>2 DEF CoverKept
  <2> QED BY <2>2, <2>5, <2>6 DEF AllCovered
<1>7. ASSUME NEW r \in Reqs, Begun(r) PROVE AllCovered'
  <2>1. \A t : CoverKept(t)' <=> CoverKept(t)
    BY <1>2, <1>7 DEF Begun, db, CoverKept, Covered
  <2>2. CoverKept(tx'[r])
    BY <1>1, <1>7 DEF Begun, CoverKept
  <2> QED BY <1>7, <2>1, <2>2 DEF Begun, AllCovered
<1> QED BY <1>4, <1>5, <1>6, <1>7, StepFollows

(* A settlement debits what the account held at some moment since it began *)
(* for any number of concurrent settlements and ledger entries.            *)
THEOREM SettlementsAreCovered == Spec => []SettlementIsCovered
<1>1. Init => AllCovered
  BY DEF Init, AllCovered
<1>2. SInv /\ AllCovered /\ [Next]_vars => AllCovered'
  BY StepKeepsCover
<1>3. AllCovered => SettlementIsCovered
  BY DEF AllCovered, CoverKept, Covered, Cleared, SettlementIsCovered
<1> QED BY <1>1, <1>2, <1>3, Invariance, PTL DEF Spec

(* The ledger has not grown since an open request began.                   *)
Current == \A r \in DOMAIN tx : tx[r].pc = "reply" \/ tx[r].before = ledger

(* With one request at a time a settlement debits what the account holds   *)
(* when it debits: no settlement overdraws the account.                    *)
THEOREM SerialSettlementsAreCovered ==
  ASSUME \A r, s \in Reqs : r = s
  PROVE  Spec => [](\A r \in DOMAIN tx :
                      Settles(tx[r]) /\ tx[r].rows # << >> => Balance(ledger) >= tx[r].row.amount)
<1>1. Init => Current
  BY DEF Init, Current
<1>2. SInv /\ Current /\ [Next]_vars => Current'
  <2> SUFFICES ASSUME SInv, Current, [Next]_vars PROVE Current'
    OBVIOUS
  <2>1. CASE Followed
    BY <2>1 DEF Followed, Follows, Current
  <2>2. ASSUME NEW r \in Reqs, Passed(r) PROVE Current'
    <3>1. tx[r].before = ledger /\ tx[r] \in Request /\ ledger' = ledger /\ DOMAIN tx = {r}
      BY <2>2 DEF Passed, Current, SInv, TypeOK, db
    <3>2. tx'[r].before = tx[r].before /\ DOMAIN tx' = DOMAIN tx
      BY <2>2, <3>1 DEF Passed, Goto, Request
    <3> QED BY <3>1, <3>2 DEF Current
  <2>3. ASSUME NEW r \in Reqs, Commit(r) PROVE Current'
    <3>1. DOMAIN tx = {r} /\ tx[r] \in Request /\ Undo(r, tx[r].answer)
      BY <2>3 DEF Commit, Open, SInv, TypeOK
    <3>2. tx'[r].pc = "reply" /\ DOMAIN tx' = {r}
      BY <3>1 DEF Undo, Request
    <3> QED BY <3>2 DEF Current
  <2>4. ASSUME NEW r \in Reqs, Begun(r) PROVE Current'
    BY <2>4 DEF Begun, db, Current
  <2> QED BY <2>1, <2>2, <2>3, <2>4, StepFollows
<1>3. ASSUME SInv, Current, SettlementIsCovered
      PROVE  \A r \in DOMAIN tx :
               Settles(tx[r]) /\ tx[r].rows # << >> => Balance(ledger) >= tx[r].row.amount
  <2> SUFFICES ASSUME NEW r \in DOMAIN tx, Settles(tx[r]), tx[r].rows # << >>
               PROVE  Balance(ledger) >= tx[r].row.amount
    OBVIOUS
  <2>1. tx[r].before = ledger
    BY <1>3 DEF SInv, AllTracked, Tracked, Tracks, Current
  <2>2. ledger \in Seq(LedgerRow)
    BY <1>3 DEF SInv, TypeOK
  <2>3. PICK n \in Len(ledger)..Len(ledger) : Balance(LedgerAt(n)) >= tx[r].row.amount
    BY <1>3, <2>1 DEF SettlementIsCovered
  <2>4. n = Len(ledger) /\ LedgerAt(Len(ledger)) = ledger
    BY <2>2 DEF LedgerAt
  <2> QED BY <2>3, <2>4
<1> QED BY <1>1, <1>2, <1>3, Invariance, SettlementsAreCovered, PTL DEF Spec

-----------------------------------------------------------------------------
(* What the transition routes cannot do under such a registry.             *)
LEMMA RoutesDoNotSettle ==
  ASSUME SettledOnlyHere, NEW actor \in RouteActors, NEW to
  PROVE  /\ ~(/\ Escrow!Verdict(RouteInput(actor, escrow, to)) = "APPLIED"
              /\ to = "RELEASED")
         /\ ~(/\ Trade!Verdict(RouteInput(actor, trade, to)) = "APPLIED"
              /\ to \in {"SETTLEMENT_ACKNOWLEDGED", "ESCALATED"})
         /\ Trade!Verdict(RouteInput(actor, trade, to)) = "APPLIED" /\ to = "CLOSED"
              => trade \in {"SETTLEMENT_ACKNOWLEDGED", "ESCALATED"}
<1> DEFINE q == RouteInput(actor, trade, to)
<1>1. q.level = 0 /\ q.from = trade /\ q.to = to /\ q.actor = actor
  BY DEF RouteInput
<1> HIDE DEF q
<1>2. Trade!Verdict(q) = "APPLIED" =>
        /\ to \notin {"SETTLEMENT_ACKNOWLEDGED", "ESCALATED"}
        /\ to = "CLOSED" => trade \in {"SETTLEMENT_ACKNOWLEDGED", "ESCALATED"}
  <2> HAVE Trade!Verdict(q) = "APPLIED"
  <2>1. PICK e \in EdgesOfTrade : e.from = trade /\ e.to = to /\ actor \in e.actors
    BY <1>1 DEF Trade!Verdict, Trade!Declared
  <2>2. /\ Trade!EdgeOf(q) \in EdgesOfTrade /\ Trade!EdgeOf(q).to = to
        /\ ~Trade!EdgeOf(q).esc
    BY <1>1, <2>1 DEF Trade!Verdict, Trade!EdgeOf
  <2> QED BY <2>1, <2>2 DEF SettledOnlyHere
<1>3. Escrow!Verdict(RouteInput(actor, escrow, to)) = "APPLIED" => to # "RELEASED"
  <2> DEFINE p == RouteInput(actor, escrow, to)
  <2>1. p.from = escrow /\ p.to = to /\ p.actor = actor
    BY DEF RouteInput
  <2> HIDE DEF p
  <2> SUFFICES ASSUME Escrow!Verdict(p) = "APPLIED" PROVE to # "RELEASED"
    BY DEF p
  <2>2. PICK e \in EdgesOfEscrow : e.to = to /\ actor \in e.actors
    BY <2>1 DEF Escrow!Verdict, Escrow!Declared
  <2> QED BY <2>2 DEF SettledOnlyHere
<1> QED BY <1>2, <1>3 DEF q

(* The ledger's half of ReleasedWasPaid.                                   *)
Paid == \E i \in 1..Len(ledger) : ledger[i].settled

NotEscalated == trade # "ESCALATED"

(* The steps that leave the pair and the ledger alone.                     *)
LEMMA OnlyThreeMove ==
  ASSUME [Next]_vars
  PROVE  \/ UNCHANGED <<trade, escrow, ledger>>
         \/ \E r \in Reqs : Commit(r)
         \/ \E to \in StatesOfTrade : MoveTrade(to)
         \/ \E to \in StatesOfEscrow : MoveEscrow(to)
<1>1. ASSUME NEW r \in Reqs, Progress(r), ~Commit(r)
      PROVE  UNCHANGED <<trade, escrow, ledger>>
  BY <1>1 DEF Progress, FreezeTrade, Gates, CheckBalance, CheckReference, Record, Acknowledge,
              UpdateTrade, Release, UpdateEscrow, RequestRelease, Close, Reply, db
<1>2. ASSUME NEW r \in Reqs, Lose(r) PROVE UNCHANGED <<trade, escrow, ledger>>
  BY <1>2 DEF Lose, db
<1>3. ASSUME NEW r \in Reqs, NEW c, NEW ai, NEW amount, NEW ref, NEW row,
             BeginSettle(r, c, ai, amount, ref) \/ BeginRecord(r, row)
      PROVE  UNCHANGED <<trade, escrow, ledger>>
  BY <1>3 DEF BeginSettle, BeginRecord, db
<1>4. ASSUME NEW k, Block(k) \/ Unblock(k) PROVE UNCHANGED <<trade, escrow, ledger>>
  BY <1>4 DEF Block, Unblock
<1>5. Decide => UNCHANGED <<trade, escrow, ledger>>
  BY DEF Decide
<1>6. UNCHANGED vars => UNCHANGED <<trade, escrow, ledger>>
  BY DEF vars
<1> QED BY <1>1, <1>2, <1>3, <1>4, <1>5, <1>6 DEF Next

(* What a commit that writes a lifecycle state brings with it.             *)
LEMMA CommitPays ==
  ASSUME SInv, NEW r, Commit(r)
  PROVE  /\ Paid => Paid'
         /\ trade' # trade \/ escrow' # escrow => Paid'
         /\ trade' # trade => trade' \in {"SETTLEMENT_ACKNOWLEDGED", "CLOSED"}
         /\ trade' # trade /\ trade' = "CLOSED" => escrow' = "RELEASED"
<1> DEFINE t == tx[r]
<1>1. /\ Writes(t, t.pc) /\ t \in Request
      /\ trade' = IF t.tradeTo = None THEN trade ELSE t.tradeTo
      /\ escrow' = IF t.escrowTo = None THEN escrow ELSE t.escrowTo
  BY DEF Commit, Open, SInv, TypeOK, AllTracked, Tracked, Tracks
<1>2. Paid => Paid'
  BY LedgerGrows DEF Paid
<1>3. trade' # trade \/ escrow' # escrow => Paid'
  BY <1>1, LedgerGrows DEF Writes, Paid
<1>4. trade' # trade => trade' \in {"SETTLEMENT_ACKNOWLEDGED", "CLOSED"}
  BY <1>1 DEF Writes
<1>5. trade' # trade /\ trade' = "CLOSED" => escrow' = "RELEASED"
  BY <1>1, NoneIsNoState DEF Writes
<1> QED BY <1>2, <1>3, <1>4, <1>5

(* Under a registry in which only a settlement acknowledges and releases,  *)
(* and with any number of concurrent requests, an account is RELEASED and  *)
(* a trade SETTLEMENT_ACKNOWLEDGED only with a settlement's debit in the   *)
(* ledger.                                                                 *)
THEOREM ReleasesArePaid ==
  ASSUME SettledOnlyHere
  PROVE  Spec => []ReleasedWasPaid
<1>1. Init => ReleasedWasPaid
  BY DEF Init, SettledOnlyHere, ReleasedWasPaid
<1>2. SInv /\ ReleasedWasPaid /\ [Next]_vars => ReleasedWasPaid'
  <2> SUFFICES ASSUME SInv, ReleasedWasPaid, [Next]_vars PROVE ReleasedWasPaid'
    OBVIOUS
  <2>1. CASE UNCHANGED <<trade, escrow, ledger>>
    BY <2>1 DEF ReleasedWasPaid
  <2>2. ASSUME NEW r \in Reqs, Commit(r) PROVE ReleasedWasPaid'
    BY <2>2, CommitPays DEF ReleasedWasPaid, Paid
  <2>3. ASSUME NEW to \in StatesOfTrade, MoveTrade(to) PROVE ReleasedWasPaid'
    BY <2>3, RoutesDoNotSettle DEF MoveTrade, ReleasedWasPaid
  <2>4. ASSUME NEW to \in StatesOfEscrow, MoveEscrow(to) PROVE ReleasedWasPaid'
    BY <2>4, RoutesDoNotSettle DEF MoveEscrow, ReleasedWasPaid
  <2> QED BY <2>1, <2>2, <2>3, <2>4, OnlyThreeMove
<1> QED BY <1>1, <1>2, Invariance, PTL DEF Spec

(* Under such a registry a settlement closes its trade in the commit that  *)
(* releases the escrow; any other way to CLOSED starts from                *)
(* SETTLEMENT_ACKNOWLEDGED.  Beside the invariant this needs that no trade *)
(* is ESCALATED: the registry lets a platform admin close such a trade.    *)
THEOREM ClosingReleases ==
  ASSUME SettledOnlyHere
  PROVE  Spec => ClosesWithRelease
<1>1. Init => NotEscalated
  BY DEF Init, SettledOnlyHere, NotEscalated
<1> DEFINE Closing == trade' = "CLOSED" /\ trade # "CLOSED" =>
                        trade = "SETTLEMENT_ACKNOWLEDGED" \/ escrow' = "RELEASED"
<1>2. SInv /\ NotEscalated /\ [Next]_vars => NotEscalated' /\ Closing
  <2> SUFFICES ASSUME SInv, NotEscalated, [Next]_vars PROVE NotEscalated' /\ Closing
    OBVIOUS
  <2>1. CASE UNCHANGED <<trade, escrow, ledger>>
    BY <2>1 DEF NotEscalated
  <2>2. ASSUME NEW r \in Reqs, Commit(r) PROVE NotEscalated' /\ Closing
    BY <2>2, CommitPays DEF NotEscalated
  <2>3. ASSUME NEW to \in StatesOfTrade, MoveTrade(to) PROVE NotEscalated' /\ Closing
    BY <2>3, RoutesDoNotSettle DEF MoveTrade, NotEscalated
  <2>4. ASSUME NEW to \in StatesOfEscrow, MoveEscrow(to) PROVE NotEscalated' /\ Closing
    BY <2>4 DEF MoveEscrow, NotEscalated
  <2> QED BY <2>1, <2>2, <2>3, <2>4, OnlyThreeMove
<1>3. SInv /\ NotEscalated /\ [Next]_vars => [Closing]_vars
  BY <1>2
<1> HIDE DEF Closing
<1>4. Spec => [][Closing]_vars
  <2>1. SInv /\ NotEscalated /\ [Next]_vars => NotEscalated'
    BY <1>2
  <2> QED BY <1>1, <1>3, <2>1, Invariance, PTL DEF Spec
<1> QED BY <1>4 DEF ClosesWithRelease, Closing
=============================================================================
