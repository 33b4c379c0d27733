-------------------------- MODULE EntityLifecycle --------------------------
(***************************************************************************)
(* One governed lifecycle transition, from the HTTP request to its answer: *)
(* POST /tenant/trades/:id/transition and POST /control/trades/:id/        *)
(* transition over TradeService.transitionTrade, and their escrow twins    *)
(* over EscrowService.transitionEscrow.  Both services run the same        *)
(* pipeline: load the row, freeze gate, state machine (sanctions, freeze,  *)
(* registry), log insert, row update or approval request, audit, commit.   *)
(*                                                                         *)
(* A request is one READ COMMITTED database transaction: every read sees   *)
(* what is committed when it runs, its writes wait in the transaction and  *)
(* are published together, an UPDATE holds its row until the end, and an   *)
(* INSERT that meets an uncommitted duplicate waits for it.  Requests in   *)
(* different slots interleave between any two statements.                  *)
(***************************************************************************)
EXTENDS GovernedRecords

CONSTANTS InitialState,    \* the state a row is created in
          Reqs,            \* slots for concurrent requests
          Targets,         \* bound: the target states a request may name
          AiChoices,       \* bound: the AI flags a request may carry
          MaxLog           \* bound: no request begins on a row with this many log rows

ASSUME LifecycleAssumption ==
  /\ InitialState \in States
  /\ MaxLog \in Nat

VARIABLES state,  \* entity -> lifecycle state of the committed row
          tx      \* slot -> the open request

vars == <<state, log, approvals, stop, tx>>

(* The stages of a request, named after the statement it runs next.         *)
Stages  == {"gate", "sanction", "govern", "update", "request", "commit", "reply"}
Answers == {"NONE", "APPLIED", "PENDING_APPROVAL", "ERROR", "FAILED"}

Drafts == [id: ApprovalIds, row: Approval]

Request == [pc: Stages, entity: Entities, caller: Callers, to: Targets, ai: AiChoices,
            from: States, rows: Seq(LogRow), update: States \cup {None},
            draft: SUBSET Drafts, answer: Answers, clear: SUBSET StopKinds]

TypeOK ==
  /\ state \in [Entities -> States]
  /\ log \in [Entities -> Seq(LogRow)]
  /\ DOMAIN approvals \subseteq ApprovalIds /\ approvals \in [DOMAIN approvals -> Approval]
  /\ stop \in [Entities -> SUBSET StopKinds]
  /\ DOMAIN tx \subseteq Reqs /\ tx \in [DOMAIN tx -> Request]

Init ==
  /\ state = [e \in Entities |-> InitialState]
  /\ log = [e \in Entities |-> << >>]
  /\ approvals = << >>
  /\ stop = [e \in Entities |-> {}]
  /\ tx = << >>

Open(r, pc) == r \in DOMAIN tx /\ tx[r].pc = pc

(* The request at a later stage, with what its transaction has written.     *)
Advance(t, pc, rows, update, draft, answer) ==
  [pc |-> pc, entity |-> t.entity, caller |-> t.caller, to |-> t.to, ai |-> t.ai,
   from |-> t.from, rows |-> rows, update |-> update, draft |-> draft,
   answer |-> answer, clear |-> t.clear]

(* The next statement is due and nothing has been written so far.           *)
Goto(r, pc) == tx' = [tx EXCEPT ![r] = Advance(@, pc, << >>, None, {}, "NONE")]

(* The request is answered: its transaction is over, committed or undone.   *)
Answer(r, answer) ==
  tx' = [tx EXCEPT ![r] = Advance(@, "reply", << >>, None, {}, answer)]

InputWithLevel(t) ==
  [from |-> t.from, to |-> t.to, actor |-> t.caller.actor, user |-> t.caller.user,
   admin |-> t.caller.admin, ai |-> t.ai, level |-> 1, maker |-> None]

(* The transition input handed to the state machine.  The routes pass no    *)
(* escalation level and no maker.                                           *)
Input(t) == [from |-> t.from, to |-> t.to, actor |-> t.caller.actor, user |-> t.caller.user,
             admin |-> t.caller.admin, ai |-> t.ai, level |-> 0, maker |-> None]

-----------------------------------------------------------------------------
(* The route opens its transaction and the service loads the row and        *)
(* resolves its current state key.                                          *)
Begin(r, e, caller, to, ai) ==
  /\ r \notin DOMAIN tx
  /\ Len(log[e]) < MaxLog
  /\ tx' = [s \in DOMAIN tx \cup {r} |->
              IF s # r THEN tx[s]
              ELSE [pc |-> "gate", entity |-> e, caller |-> caller, to |-> to, ai |-> ai,
                    from |-> state[e], rows |-> << >>, update |-> None, draft |-> {},
                    answer |-> "NONE", clear |-> StopKinds \ stop[e]]]
  /\ UNCHANGED <<state, log, approvals, stop>>

(* Step 2 of the service: checkEntityFreeze.                                *)
FreezeGate(r) ==
  /\ Open(r, "gate")
  /\ IF "FREEZE" \in stop[tx[r].entity] THEN Answer(r, "ERROR") ELSE Goto(r, "sanction")
  /\ UNCHANGED <<state, log, approvals, stop>>

SanctionUnchecked(r) ==
  /\ Open(r, "sanction")
  /\ IF PassesGuardrails(Input(tx[r])) THEN Goto(r, "govern") ELSE Answer(r, "ERROR")
  /\ UNCHANGED <<state, log, approvals, stop>>

(* The state machine's stateless guardrails, then its sanction checks.      *)
SanctionCheck(r) ==
  /\ Open(r, "sanction")
  /\ IF PassesGuardrails(Input(tx[r])) /\ "SANCTION" \notin stop[tx[r].entity]
     THEN Goto(r, "govern")
     ELSE Answer(r, "ERROR")
  /\ UNCHANGED <<state, log, approvals, stop>>

(* The log row of an APPLIED verdict.                                       *)
Row(t) == [from |-> t.from, to |-> t.to, actor |-> t.caller.actor, via |-> None]

Judge(t) == IF "FREEZE" \in stop[t.entity] THEN "DENIED" ELSE Verdict(Input(t))

LogsInOwnTransaction(r) ==
  /\ Open(r, "govern")
  /\ LET t == tx[r] IN
     CASE Judge(t) = "APPLIED" ->
            /\ log' = [log EXCEPT ![t.entity] = Append(@, Row(t))]
            /\ Goto(r, "update")
       [] Judge(t) = "PENDING_APPROVAL" -> Goto(r, "request") /\ UNCHANGED log
       [] OTHER -> Answer(r, "ERROR") /\ UNCHANGED log
  /\ UNCHANGED <<state, approvals, stop>>

(* The state machine's freeze check, its registry lookups and, when they    *)
(* say APPLIED, the insert of the log row through the caller's transaction. *)
Govern(r) ==
  /\ Open(r, "govern")
  /\ LET t == tx[r] IN
     CASE Judge(t) = "APPLIED" -> tx' = [tx EXCEPT ![r] = Advance(t, "update", << Row(t) >>, None, {}, "NONE")]
       [] Judge(t) = "PENDING_APPROVAL" -> Goto(r, "request")
       [] OTHER -> Answer(r, "ERROR")
  /\ UNCHANGED <<state, log, approvals, stop>>

(* An UPDATE holds the row from the statement to the end of its transaction. *)
Holds(s, e) == tx[s].entity = e /\ tx[s].update # None

(* trade.update: wait for whoever holds the row, then overwrite its state.  *)
(* The state that was judged is not read again.                             *)
UpdateEntity(r) ==
  /\ Open(r, "update")
  /\ \A s \in DOMAIN tx : ~Holds(s, tx[r].entity)
  /\ tx' = [tx EXCEPT ![r] = Advance(@, "commit", @.rows, @.to, {}, "NONE")]
  /\ UNCHANGED <<state, log, approvals, stop>>

Taken(t) == \E i \in DOMAIN approvals : approvals[i].status \in Active /\ SameSlot(approvals[i], t)

Uncommitted(t) == \E s \in DOMAIN tx : \E d \in tx[s].draft : SameSlot(d.row, t)

DraftAsPending(id, t) ==
  [id |-> id, row |-> [entity |-> t.entity, from |-> t.from, to |-> t.to,
                       maker |-> t.caller, status |-> "PENDING"]]

Draft(id, t) == [id |-> id, row |-> [entity |-> t.entity, from |-> t.from, to |-> t.to,
                                     maker |-> t.caller, status |-> "REQUESTED"]]

Drafted(t, id) == Advance(t, "commit", << >>, None, {Draft(id, t)}, "NONE")

Unused(id) == /\ id \notin DOMAIN approvals
              /\ \A s \in DOMAIN tx : \A d \in tx[s].draft : d.id # id

AnswersPendingAnyway(r) ==
  /\ Open(r, "request")
  /\ LET t == tx[r] IN
     /\ ~Uncommitted(t)
     /\ IF Taken(t) THEN Answer(r, "PENDING_APPROVAL")
        ELSE \E id \in ApprovalIds :
               /\ Unused(id)
               /\ tx' = [tx EXCEPT ![r] = Drafted(t, id)]
  /\ UNCHANGED <<state, log, approvals, stop>>

WaitsForDecision(r) ==
  /\ Open(r, "request")
  /\ LET t == tx[r] IN
     /\ ~Uncommitted(t)
     /\ ~Taken(t)
     /\ \E id \in ApprovalIds :
          /\ Unused(id)
          /\ tx' = [tx EXCEPT ![r] = Drafted(t, id)]
  /\ UNCHANGED <<state, log, approvals, stop>>

(* createApprovalRequest.  A duplicate still uncommitted is waited for; a   *)
(* committed one raises a unique violation that the service catches, but    *)
(* the transaction is already aborted: the audit insert that follows fails  *)
(* and the route answers 500.                                               *)
RequestApproval(r) ==
  /\ Open(r, "request")
  /\ LET t == tx[r] IN
     /\ ~Uncommitted(t)
     /\ IF Taken(t) THEN Answer(r, "FAILED")
        ELSE \E id \in ApprovalIds :
               /\ Unused(id)
               /\ tx' = [tx EXCEPT ![r] = Drafted(t, id)]
  /\ UNCHANGED <<state, log, approvals, stop>>

(* The audit row is written and the transaction commits: everything it      *)
(* wrote becomes visible at once and its locks are gone.                    *)
Commit(r) ==
  /\ Open(r, "commit")
  /\ LET t == tx[r] IN
     /\ log' = [log EXCEPT ![t.entity] = @ \o t.rows]
     /\ state' = [state EXCEPT ![t.entity] = IF t.update = None THEN @ ELSE t.update]
     /\ approvals' = [i \in DOMAIN approvals \cup {d.id : d \in t.draft} |->
                        IF i \in DOMAIN approvals THEN approvals[i]
                        ELSE (CHOOSE d \in t.draft : d.id = i).row]
     /\ Answer(r, IF t.draft = {} THEN "APPLIED" ELSE "PENDING_APPROVAL")
  /\ UNCHANGED stop

Forget(r) == tx' = [s \in DOMAIN tx \ {r} |-> tx[s]]

Reply(r) ==
  /\ Open(r, "reply")
  /\ Forget(r)
  /\ UNCHANGED <<state, log, approvals, stop>>

(* The process dies, the client goes away or the transaction times out: an  *)
(* open transaction is rolled back, an answer already due is lost.          *)
Lose(r) ==
  /\ r \in DOMAIN tx
  /\ Forget(r)
  /\ UNCHANGED <<state, log, approvals, stop>>

(* Escalations and sanctions come and go in transactions of their own.      *)
Block(e, k) ==
  /\ k \notin stop[e]
  /\ stop' = [stop EXCEPT ![e] = @ \cup {k}]
  /\ UNCHANGED <<state, log, approvals, tx>>

Unblock(e, k) ==
  /\ k \in stop[e]
  /\ stop' = [stop EXCEPT ![e] = @ \ {k}]
  /\ tx' = [s \in DOMAIN tx |->
              IF tx[s].entity = e THEN [tx[s] EXCEPT !.clear = @ \cup {k}] ELSE tx[s]]
  /\ UNCHANGED <<state, log, approvals>>

Progress(r) ==
  \/ FreezeGate(r)
  \/ SanctionCheck(r)
  \/ Govern(r)
  \/ UpdateEntity(r)
  \/ RequestApproval(r)
  \/ Commit(r)
  \/ Reply(r)

Next ==
  \/ \E r \in Reqs :
       \/ \E e \in Entities, c \in Callers, to \in Targets, ai \in AiChoices : Begin(r, e, c, to, ai)
       \/ Progress(r)
       \/ Lose(r)
  \/ \E e \in Entities, k \in StopKinds : Block(e, k) \/ Unblock(e, k)

(* Every statement of an open request eventually runs; a lock or duplicate  *)
(* that is awaited is handed to its waiters in turn, hence strong fairness  *)
(* of the two steps that wait.                                              *)
Fairness == \A r \in Reqs : /\ WF_vars(Progress(r))
                            /\ SF_vars(UpdateEntity(r))
                            /\ SF_vars(RequestApproval(r))

Spec     == Init /\ [][Next]_vars
FairSpec == Spec /\ Fairness

-----------------------------------------------------------------------------
(* The lifecycle log tells the state of the row: what the last committed    *)
(* log row says was entered is what the row holds ("the SM lifecycle log    *)
(* INSERT and the trade.lifecycleStateId UPDATE must succeed or fail        *)
(* together"), whatever requests race, fail, crash or wait.                 *)
LastEntered(e) == IF log[e] = << >> THEN InitialState ELSE log[e][Len(log[e])].to

LogStateAgree == \A e \in Entities : state[e] = LastEntered(e)

(* No answer without its effect: a client told APPLIED finds the log row, a *)
(* client told PENDING_APPROVAL finds the approval it asked for.            *)
AnswersAreDurable ==
  \A r \in DOMAIN tx : LET t == tx[r] IN
    /\ t.answer = "APPLIED" => \E i \in 1..Len(log[t.entity]) : log[t.entity][i] = Row(t)
    /\ t.answer = "PENDING_APPROVAL" =>
         \E i \in DOMAIN approvals : SameSlot(approvals[i], t) /\ approvals[i].maker = t.caller

(* D-021-B: at most one active approval for an entity and an edge, also     *)
(* when two requests for it run at the same time.                           *)
OneActiveApproval ==
  \A i, j \in DOMAIN approvals :
    /\ approvals[i].status \in Active
    /\ approvals[j].status \in Active
    /\ SameSlot(approvals[i], approvals[j])
    => i = j

(* A request that comes to write anything ran at a moment when its entity   *)
(* was not sanctioned and at a moment when it was not frozen: one that is   *)
(* blocked from its first read to its last has no effect.                   *)
BlockedThroughoutHasNoEffect ==
  \A r \in DOMAIN tx : tx[r].pc \in {"update", "request", "commit"} => tx[r].clear = StopKinds

(* What requests can reach without a second person: the edges that ask for  *)
(* no maker-checker and no escalation and name a deployed caller's actor,   *)
(* followed from the initial state.                                         *)
OnePersonEdges == {x \in Edges : /\ x.from \notin Terminal
                                 /\ ~x.mc /\ ~x.esc
                                 /\ \E c \in Callers : c.actor \in x.actors}

Closed(reach) == /\ InitialState \in reach
                 /\ \A x \in OnePersonEdges : x.from \in reach => x.to \in reach

WithinReach == {s \in States : \A reach \in SUBSET States : Closed(reach) => s \in reach}

(* The deployed routes act as TENANT_ADMIN and PLATFORM_ADMIN only and pass *)
(* no maker and no escalation level: whatever they are asked, in whatever   *)
(* order, no entity gets past the first edge that wants a second person.    *)
StopsAtSecondPerson == \A e \in Entities : state[e] \in WithinReach

(* Every request that is opened ends: no interleaving of row locks and      *)
(* duplicate-key waits leaves one hanging.                                  *)
EveryRequestEnds == \A r \in Reqs : r \in DOMAIN tx ~> r \notin DOMAIN tx

(* The register of states with history that the lifecycle tables stand for. *)
Register == INSTANCE LifecycleRegister

(* Requests one at a time move the row along declared edges only, never out *)
(* of a terminal state, and log each move once, from the state it left.     *)
ImplementsLifecycleRegister == Register!Spec
=============================================================================
