------------------------ MODULE GovernedEntity_proofs ------------------------
(***************************************************************************)
(* Three specifications, for every registry and any number of concurrent   *)
(* requests, signatures and replays: the lifecycle pipeline (Spec), the    *)
(* maker-checker protocol (SigningSpec), and the two over the same records *)
(* (GovernedSpec).  What the third needs of the first two is their step    *)
(* lemmas.                                                                 *)
(***************************************************************************)
EXTENDS GovernedEntity, FiniteSetTheorems, TLAPS

(* The lifecycle pipeline.                                                   *)

(* What an open request has done, told by its stage alone: nothing before  *)
(* it is governed; then the log row, then the row and the update of the    *)
(* entity to the same state; or an approval request and nothing else.      *)
Idle(t) == t.rows = << >> /\ t.update = None /\ t.draft = {}

Staged(t) ==
  /\ t.pc \in {"gate", "sanction", "govern", "reply"} => Idle(t)
  /\ t.pc = "request" => Idle(t) /\ t.to \in States
  /\ t.pc = "update" => /\ t.rows = << Row(t) >> /\ t.to \in States
                        /\ t.update = None /\ t.draft = {}
  /\ t.pc = "commit" =>
       \/ /\ t.rows = << Row(t) >> /\ t.to \in States
          /\ t.update = t.to /\ t.draft = {}
       \/ /\ t.rows = << >> /\ t.update = None
          /\ \E id \in ApprovalIds : t.draft = {Draft(id, t)} /\ Draft(id, t) \in Drafts
  /\ t.answer # "NONE" => t.pc = "reply"

AllStaged == \A r \in DOMAIN tx : Staged(tx[r])

(* What the registry answers is a registered state.                        *)
LEMMA JudgedIsRegistered ==
  ASSUME NEW t, Judge(t) \in {"APPLIED", "PENDING_APPROVAL"}
  PROVE  t.to \in States
BY RegistryAssumption DEF Judge, Verdict, Input, Declared, Edge

LEMMA ReplaceRequest ==
  ASSUME TypeOK, AllStaged, NEW r \in DOMAIN tx, NEW u \in Request, Staged(u),
         tx' = [tx EXCEPT ![r] = u]
  PROVE  /\ DOMAIN tx' \subseteq Reqs /\ tx' \in [DOMAIN tx' -> Request]
         /\ AllStaged'
BY DEF TypeOK, AllStaged

LEMMA AdvancedRequest ==
  ASSUME NEW t \in Request, NEW pc \in Stages, NEW rows \in Seq(LogRow),
         NEW update \in States \cup {None}, NEW draft \in SUBSET Drafts, NEW answer \in Answers
  PROVE  Advance(t, pc, rows, update, draft, answer) \in Request
BY DEF Request, Advance

LEMMA RowTyped == ASSUME NEW t \in Request, t.to \in States
                  PROVE  Row(t) \in LogRow /\ << Row(t) >> \in Seq(LogRow)
BY DEF Request, Row, LogRow, Callers, ActorTypes

LEMMA DraftTyped == ASSUME NEW t \in Request, t.to \in States, NEW id \in ApprovalIds
                    PROVE  Draft(id, t) \in Drafts
BY DEF Request, Draft, Drafts, Approval, Statuses

LEMMA AnswerStep ==
  ASSUME TypeOK, AllStaged, NEW r \in DOMAIN tx, NEW answer \in Answers, Answer(r, answer)
  PROVE  /\ DOMAIN tx' \subseteq Reqs /\ tx' \in [DOMAIN tx' -> Request]
         /\ AllStaged'
<1> DEFINE u == Advance(tx[r], "reply", << >>, None, {}, answer)
<1>1. tx[r] \in Request /\ << >> \in Seq(LogRow) /\ {} \in SUBSET Drafts /\ "reply" \in Stages
  BY DEF TypeOK, Stages
<1>2. u \in Request
  BY <1>1, AdvancedRequest
<1>3. Staged(u)
  BY DEF Staged, Advance, Idle
<1>4. tx' = [tx EXCEPT ![r] = u]
  BY DEF Answer
<1> HIDE DEF u
<1> QED BY <1>2, <1>3, <1>4, ReplaceRequest

LEMMA GotoStep ==
  ASSUME TypeOK, AllStaged, NEW r \in DOMAIN tx, NEW pc \in Stages, Goto(r, pc),
         \/ pc \in {"sanction", "govern"}
         \/ pc = "request" /\ tx[r].to \in States
  PROVE  /\ DOMAIN tx' \subseteq Reqs /\ tx' \in [DOMAIN tx' -> Request]
         /\ AllStaged'
<1> DEFINE u == Advance(tx[r], pc, << >>, None, {}, "NONE")
<1>1. tx[r] \in Request /\ << >> \in Seq(LogRow) /\ {} \in SUBSET Drafts /\ "NONE" \in Answers
  BY DEF TypeOK, Answers
<1>2. u \in Request
  BY <1>1, AdvancedRequest
<1>3. Staged(u)
  BY DEF Staged, Advance, Idle
<1>4. tx' = [tx EXCEPT ![r] = u]
  BY DEF Goto
<1> HIDE DEF u
<1> QED BY <1>2, <1>3, <1>4, ReplaceRequest

(* Type correctness needs the stages: a request may name any target, and   *)
(* only one the registry knows gets as far as a row.                       *)
LEMMA StepKeepsStages ==
  ASSUME TypeOK, AllStaged, [Next]_vars
  PROVE  TypeOK' /\ AllStaged'
<1> DEFINE TxOK == /\ DOMAIN tx' \subseteq Reqs /\ tx' \in [DOMAIN tx' -> Request]
                   /\ AllStaged'
<1>0. ASSUME TxOK, UNCHANGED <<state, log, approvals, stop>>
      PROVE  TypeOK' /\ AllStaged'
  BY <1>0 DEF TypeOK
<1>1. CASE UNCHANGED vars
  BY <1>1 DEF vars, TypeOK, AllStaged
<1>2. ASSUME NEW r \in Reqs, NEW e \in Entities, NEW c \in Callers, NEW to \in Targets,
             NEW ai \in AiChoices, Begin(r, e, c, to, ai)
      PROVE  TypeOK' /\ AllStaged'
  <2> DEFINE u == [pc |-> "gate", entity |-> e, caller |-> c, to |-> to, ai |-> ai,
                   from |-> state[e], rows |-> << >>, update |-> None, draft |-> {},
                   answer |-> "NONE", clear |-> StopKinds \ stop[e]]
  <2>1. u \in Request
    BY DEF TypeOK, Request, Stages, Answers
  <2>2. Staged(u)
    BY DEF Staged, Idle
  <2>3. tx' = [s \in DOMAIN tx \cup {r} |-> IF s # r THEN tx[s] ELSE u]
    BY <1>2 DEF Begin
  <2> HIDE DEF u
  <2>4. TxOK
    BY <2>1, <2>2, <2>3 DEF TypeOK, AllStaged
  <2> QED BY <1>0, <1>2, <2>4 DEF Begin
<1>3. ASSUME NEW r \in Reqs, FreezeGate(r)
      PROVE  TypeOK' /\ AllStaged'
  BY <1>0, <1>3, AnswerStep, GotoStep DEF FreezeGate, Open, Answers, Stages
<1>4. ASSUME NEW r \in Reqs, SanctionCheck(r)
      PROVE  TypeOK' /\ AllStaged'
  BY <1>0, <1>4, AnswerStep, GotoStep DEF SanctionCheck, Open, Answers, Stages
<1>5. ASSUME NEW r \in Reqs, Govern(r)
      PROVE  TypeOK' /\ AllStaged'
  <2>1. r \in DOMAIN tx /\ tx[r] \in Request /\ UNCHANGED <<state, log, approvals, stop>>
    BY <1>5 DEF Govern, Open, TypeOK
  <2>2. CASE Judge(tx[r]) = "APPLIED"
    <3> DEFINE u == Advance(tx[r], "update", << Row(tx[r]) >>, None, {}, "NONE")
    <3>1. tx' = [tx EXCEPT ![r] = u]
      BY <1>5, <2>2 DEF Govern
    <3>2. tx[r].to \in States
      BY <2>2, JudgedIsRegistered
    <3>3. << Row(tx[r]) >> \in Seq(LogRow) /\ {} \in SUBSET Drafts /\ "update" \in Stages /\ "NONE" \in Answers
      BY <2>1, <3>2, RowTyped DEF Stages, Answers
    <3>4. u \in Request
      BY <2>1, <3>3, AdvancedRequest
    <3>5. Row(u) = Row(tx[r])
      BY DEF Row, Advance
    <3>6. Staged(u)
      BY <3>2, <3>5 DEF Staged, Advance
    <3> HIDE DEF u
    <3> QED BY <1>0, <2>1, <3>1, <3>4, <3>6, ReplaceRequest
  <2>3. CASE Judge(tx[r]) = "PENDING_APPROVAL"
    <3>1. Goto(r, "request")
      BY <1>5, <2>3 DEF Govern
    <3>2. tx[r].to \in States
      BY <2>3, JudgedIsRegistered
    <3> QED BY <1>0, <2>1, <3>1, <3>2, GotoStep DEF Stages
  <2>4. CASE Judge(tx[r]) \notin {"APPLIED", "PENDING_APPROVAL"}
    <3>1. Answer(r, "ERROR")
      BY <1>5, <2>4 DEF Govern
    <3> QED BY <1>0, <2>1, <3>1, AnswerStep DEF Answers
  <2> QED BY <2>2, <2>3, <2>4
<1>6. ASSUME NEW r \in Reqs, UpdateEntity(r)
      PROVE  TypeOK' /\ AllStaged'
  <2> DEFINE u == Advance(tx[r], "commit", tx[r].rows, tx[r].to, {}, "NONE")
  <2>1. /\ r \in DOMAIN tx /\ tx[r].pc = "update" /\ tx[r] \in Request
        /\ UNCHANGED <<state, log, approvals, stop>>
        /\ tx' = [tx EXCEPT ![r] = u]
    BY <1>6 DEF UpdateEntity, Open, TypeOK
  <2>2. tx[r].rows = << Row(tx[r]) >> /\ tx[r].to \in States
    BY <2>1 DEF AllStaged, Staged
  <2>3. tx[r].rows \in Seq(LogRow) /\ {} \in SUBSET Drafts /\ "commit" \in Stages /\ "NONE" \in Answers
    BY <2>1 DEF Request, Stages, Answers
  <2>4. u \in Request
    BY <2>1, <2>2, <2>3, AdvancedRequest
  <2>5. Row(u) = Row(tx[r])
    BY DEF Row, Advance
  <2>6. Staged(u)
    BY <2>2, <2>5 DEF Staged, Advance
  <2> HIDE DEF u
  <2> QED BY <1>0, <2>1, <2>4, <2>6, ReplaceRequest
<1>7. ASSUME NEW r \in Reqs, RequestApproval(r)
      PROVE  TypeOK' /\ AllStaged'
  <2>1. /\ r \in DOMAIN tx /\ tx[r].pc = "request" /\ tx[r] \in Request
        /\ UNCHANGED <<state, log, approvals, stop>>
    BY <1>7 DEF RequestApproval, Open, TypeOK
  <2>2. CASE Answer(r, "FAILED")
    BY <1>0, <2>1, <2>2, AnswerStep DEF Answers
  <2>3. ASSUME NEW id \in ApprovalIds, tx' = [tx EXCEPT ![r] = Drafted(tx[r], id)]
        PROVE  TypeOK' /\ AllStaged'
    <3> DEFINE u == Drafted(tx[r], id)
    <3>1. Draft(id, tx[r]) \in Drafts
      BY <2>1, DraftTyped DEF AllStaged, Staged
    <3>2. /\ << >> \in Seq(LogRow) /\ {Draft(id, tx[r])} \in SUBSET Drafts
          /\ "commit" \in Stages /\ "NONE" \in Answers
      BY <3>1 DEF Stages, Answers
    <3>3. u \in Request
      BY <2>1, <3>2, AdvancedRequest DEF Drafted
    <3>4. Draft(id, u) = Draft(id, tx[r])
      BY DEF Draft, Drafted, Advance
    <3>5. Staged(u)
      BY <3>1, <3>4 DEF Staged, Drafted, Advance
    <3>6. tx' = [tx EXCEPT ![r] = u]
      BY <2>3
    <3> HIDE DEF u
    <3> QED BY <1>0, <2>1, <3>3, <3>5, <3>6, ReplaceRequest
  <2> QED BY <1>7, <2>2, <2>3 DEF RequestApproval
<1>8. ASSUME NEW r \in Reqs, Commit(r)
      PROVE  TypeOK' /\ AllStaged'
  <2>1. /\ r \in DOMAIN tx /\ tx[r].pc = "commit" /\ tx[r] \in Request /\ Staged(tx[r])
        /\ \E answer \in Answers : Answer(r, answer)
    BY <1>8 DEF Commit, Open, TypeOK, AllStaged, Answers
  <2>2. TxOK
    BY <2>1, AnswerStep
  <2>3. state' \in [Entities -> States]
    BY <1>8, <2>1 DEF Commit, TypeOK, Request
  <2>4. log' \in [Entities -> Seq(LogRow)]
    BY <1>8, <2>1 DEF Commit, TypeOK, Request
  <2>5. \A d \in tx[r].draft : d.id \in ApprovalIds /\ d.row \in Approval
    BY <2>1 DEF Request, Drafts
  <2>6. DOMAIN approvals' \subseteq ApprovalIds /\ approvals' \in [DOMAIN approvals' -> Approval]
    <3>1. DOMAIN approvals' = DOMAIN approvals \cup {d.id : d \in tx[r].draft}
      BY <1>8 DEF Commit
    <3>2. \A i \in DOMAIN approvals' : approvals'[i] \in Approval
      BY <1>8, <2>5, <3>1 DEF Commit, TypeOK
    <3>3. DOMAIN approvals' \subseteq ApprovalIds
      BY <2>5, <3>1 DEF TypeOK
    <3> QED BY <1>8, <3>1, <3>2, <3>3 DEF Commit
  <2> QED BY <1>8, <2>2, <2>3, <2>4, <2>6 DEF Commit, TypeOK
<1>9. ASSUME NEW r \in Reqs, Reply(r) \/ Lose(r)
      PROVE  TypeOK' /\ AllStaged'
  BY <1>9 DEF Reply, Lose, Forget, Open, TypeOK, AllStaged
<1>10. ASSUME NEW e \in Entities, NEW k \in StopKinds, Block(e, k)
       PROVE  TypeOK' /\ AllStaged'
  BY <1>10 DEF Block, TypeOK, AllStaged
<1>11. ASSUME NEW e \in Entities, NEW k \in StopKinds, Unblock(e, k)
       PROVE  TypeOK' /\ AllStaged'
  <2>1. ASSUME NEW s \in DOMAIN tx
        PROVE  tx'[s] \in Request /\ Staged(tx'[s])
    <3>1. tx[s] \in Request /\ Staged(tx[s])
      BY DEF TypeOK, AllStaged
    <3>2. CASE tx[s].entity # e
      BY <1>11, <3>1, <3>2 DEF Unblock
    <3>3. CASE tx[s].entity = e
      <4> DEFINE u == [tx[s] EXCEPT !.clear = @ \cup {k}]
      <4>1. tx'[s] = u
        BY <1>11, <3>3 DEF Unblock
      <4>2. u \in Request
        BY <3>1 DEF Request
      <4>3. Staged(u)
        BY <3>1 DEF Request, Staged, Idle, Row, Draft
      <4> QED BY <4>1, <4>2, <4>3
    <3> QED BY <3>2, <3>3
  <2>2. DOMAIN tx' = DOMAIN tx
    BY <1>11 DEF Unblock
  <2> QED BY <1>11, <2>1, <2>2 DEF Unblock, TypeOK, AllStaged
<1> QED BY <1>1, <1>2, <1>3, <1>4, <1>5, <1>6, <1>7, <1>8, <1>9, <1>10, <1>11
       DEF Next, Progress

(* Types are right in every reachable state (transitionTrade and           *)
(* transitionEscrow only ever store registered states).                    *)
THEOREM TypeCorrect == Spec => [](TypeOK /\ AllStaged)
<1>1. Init => TypeOK /\ AllStaged
  BY LifecycleAssumption DEF Init, TypeOK, AllStaged
<1>2. TypeOK /\ AllStaged /\ [Next]_vars => (TypeOK /\ AllStaged)'
  BY StepKeepsStages
<1> QED BY <1>1, <1>2, PTL DEF Spec

-----------------------------------------------------------------------------
(* What a step does to the tables and to the drafts and answers of the     *)
(* open requests: nothing is published and no good answer given, or one    *)
(* request drafts an approval, or one commits.                             *)
SameRequest(t, u) == /\ u.entity = t.entity /\ u.caller = t.caller
                     /\ u.from = t.from /\ u.to = t.to
                     /\ u.draft = t.draft /\ u.answer = t.answer

Bare(u) == u.draft = {} /\ u.answer \in {"NONE", "ERROR", "FAILED"}

Quiet ==
  /\ UNCHANGED <<state, log, approvals>>
  /\ \A s \in DOMAIN tx' : Bare(tx'[s]) \/ (s \in DOMAIN tx /\ SameRequest(tx[s], tx'[s]))

Drafting(r, id) ==
  /\ r \in DOMAIN tx
  /\ ~Uncommitted(tx[r]) /\ ~Taken(tx[r]) /\ Unused(id)
  /\ tx' = [tx EXCEPT ![r] = Drafted(tx[r], id)]
  /\ UNCHANGED <<state, log, approvals, stop>>

LEMMA QuietReplacement ==
  ASSUME NEW r \in DOMAIN tx, NEW u, Bare(u), tx' = [tx EXCEPT ![r] = u],
         UNCHANGED <<state, log, approvals>>
  PROVE  Quiet
<1>1. \A s \in DOMAIN tx' : s \in DOMAIN tx /\ (s = r \/ tx'[s] = tx[s])
  OBVIOUS
<1>2. tx'[r] = u
  OBVIOUS
<1>3. \A s \in DOMAIN tx : tx'[s] = tx[s] => SameRequest(tx[s], tx'[s])
  BY DEF SameRequest
<1> QED BY <1>1, <1>2, <1>3 DEF Quiet

LEMMA StepKinds ==
  ASSUME TypeOK, AllStaged, [Next]_vars
  PROVE  \/ Quiet
         \/ \E r \in Reqs, id \in ApprovalIds : Drafting(r, id)
         \/ \E r \in Reqs : Commit(r)
<1>1. CASE UNCHANGED vars
  BY <1>1 DEF vars, Quiet, SameRequest
<1>2. ASSUME NEW r \in Reqs, NEW e \in Entities, NEW c \in Callers, NEW to \in Targets,
             NEW ai \in AiChoices, Begin(r, e, c, to, ai)
      PROVE  Quiet
  <2>1. /\ DOMAIN tx' = DOMAIN tx \cup {r} /\ r \notin DOMAIN tx
        /\ \A s \in DOMAIN tx : tx'[s] = tx[s]
        /\ Bare(tx'[r])
        /\ UNCHANGED <<state, log, approvals>>
    BY <1>2 DEF Begin, Bare
  <2>2. \A s \in DOMAIN tx : SameRequest(tx[s], tx'[s])
    BY <2>1 DEF SameRequest
  <2> QED BY <2>1, <2>2 DEF Quiet
<1>3. ASSUME NEW r \in DOMAIN tx, NEW answer \in {"ERROR", "FAILED"}, Answer(r, answer),
             UNCHANGED <<state, log, approvals>>
      PROVE  Quiet
  <2>1. Bare(Advance(tx[r], "reply", << >>, None, {}, answer))
    BY DEF Bare, Advance
  <2> QED BY <1>3, <2>1, QuietReplacement DEF Answer
<1>4. ASSUME NEW r \in DOMAIN tx, NEW pc, Goto(r, pc), UNCHANGED <<state, log, approvals>>
      PROVE  Quiet
  <2>1. Bare(Advance(tx[r], pc, << >>, None, {}, "NONE"))
    BY DEF Bare, Advance
  <2> QED BY <1>4, <2>1, QuietReplacement DEF Goto
<1>5. ASSUME NEW r \in Reqs, FreezeGate(r) \/ SanctionCheck(r)
      PROVE  Quiet
  BY <1>3, <1>4, <1>5 DEF FreezeGate, SanctionCheck, Open
<1>6. ASSUME NEW r \in Reqs, Govern(r)
      PROVE  Quiet
  <2>1. r \in DOMAIN tx /\ UNCHANGED <<state, log, approvals>>
    BY <1>6 DEF Govern, Open
  <2>2. CASE Judge(tx[r]) = "APPLIED"
    <3>1. Bare(Advance(tx[r], "update", << Row(tx[r]) >>, None, {}, "NONE"))
      BY DEF Bare, Advance
    <3>2. tx' = [tx EXCEPT ![r] = Advance(tx[r], "update", << Row(tx[r]) >>, None, {}, "NONE")]
      BY <1>6, <2>2 DEF Govern
    <3> QED BY <2>1, <3>1, <3>2, QuietReplacement
  <2>3. CASE Judge(tx[r]) = "PENDING_APPROVAL"
    BY <1>4, <1>6, <2>1, <2>3 DEF Govern
  <2>4. CASE Judge(tx[r]) \notin {"APPLIED", "PENDING_APPROVAL"}
    BY <1>3, <1>6, <2>1, <2>4 DEF Govern
  <2> QED BY <2>2, <2>3, <2>4
<1>7. ASSUME NEW r \in Reqs, UpdateEntity(r)
      PROVE  Quiet
  <2>1. Bare(Advance(tx[r], "commit", tx[r].rows, tx[r].to, {}, "NONE"))
    BY DEF Bare, Advance
  <2> QED BY <1>7, <2>1, QuietReplacement DEF UpdateEntity, Open
<1>8. ASSUME NEW r \in Reqs, RequestApproval(r)
      PROVE  Quiet \/ \E id \in ApprovalIds : Drafting(r, id)
  BY <1>3, <1>8 DEF RequestApproval, Open, Drafting
<1>9. ASSUME NEW r \in Reqs, Reply(r) \/ Lose(r)
      PROVE  Quiet
  BY <1>9 DEF Reply, Lose, Forget, Quiet, SameRequest
<1>10. ASSUME NEW e \in Entities, NEW k \in StopKinds, Block(e, k)
       PROVE  Quiet
  BY <1>10 DEF Block, Quiet, SameRequest
<1>11. ASSUME NEW e \in Entities, NEW k \in StopKinds, Unblock(e, k)
       PROVE  Quiet
  <2>1. ASSUME NEW s \in DOMAIN tx
        PROVE  SameRequest(tx[s], tx'[s])
    <3>1. tx[s] \in Request
      BY DEF TypeOK
    <3>2. tx'[s] = IF tx[s].entity = e THEN [tx[s] EXCEPT !.clear = @ \cup {k}] ELSE tx[s]
      BY <1>11 DEF Unblock
    <3> QED BY <3>1, <3>2 DEF SameRequest, Request
  <2> QED BY <1>11, <2>1 DEF Unblock, Quiet
<1> QED BY <1>1, <1>2, <1>5, <1>6, <1>7, <1>8, <1>9, <1>10, <1>11 DEF Next, Progress

(* What a commit publishes.                                                *)
LEMMA CommitPublishes ==
  ASSUME TypeOK, AllStaged, NEW r \in Reqs, Commit(r)
  PROVE  /\ r \in DOMAIN tx /\ tx[r] \in Request
         /\ DOMAIN tx' = DOMAIN tx
         /\ \A s \in DOMAIN tx \ {r} : tx'[s] = tx[s]
         /\ \/ /\ tx[r].draft = {}
               /\ state' = [state EXCEPT ![tx[r].entity] = tx[r].to]
               /\ log' = [log EXCEPT ![tx[r].entity] = Append(@, Row(tx[r]))]
               /\ approvals' = approvals
               /\ tx'[r] = Advance(tx[r], "reply", << >>, None, {}, "APPLIED")
            \/ \E id \in ApprovalIds :
                 /\ tx[r].draft = {Draft(id, tx[r])}
                 /\ UNCHANGED <<state, log>>
                 /\ DOMAIN approvals' = DOMAIN approvals \cup {id}
                 /\ \A i \in DOMAIN approvals : approvals'[i] = approvals[i]
                 /\ id \notin DOMAIN approvals => approvals'[id] = Draft(id, tx[r]).row
                 /\ tx'[r] = Advance(tx[r], "reply", << >>, None, {}, "PENDING_APPROVAL")
<1>1. r \in DOMAIN tx /\ tx[r].pc = "commit" /\ tx[r] \in Request /\ Staged(tx[r])
  BY DEF Commit, Open, TypeOK, AllStaged
<1>2. tx[r].entity \in Entities
  BY <1>1 DEF Request
<1>3. /\ DOMAIN tx' = DOMAIN tx
      /\ \A s \in DOMAIN tx \ {r} : tx'[s] = tx[s]
      /\ tx'[r] = Advance(tx[r], "reply", << >>, None, {},
                         IF tx[r].draft = {} THEN "APPLIED" ELSE "PENDING_APPROVAL")
  BY <1>1 DEF Commit, Answer
<1>4. CASE tx[r].rows = << Row(tx[r]) >> /\ tx[r].to \in States
           /\ tx[r].update = tx[r].to /\ tx[r].draft = {}
  <2>1. tx[r].update # None
    BY <1>4, RecordsAssumption
  <2>2. state' = [state EXCEPT ![tx[r].entity] = tx[r].to]
    BY <1>4, <2>1 DEF Commit
  <2>3. log[tx[r].entity] \in Seq(LogRow)
    BY <1>2 DEF TypeOK
  <2>4. Row(tx[r]) \in LogRow
    BY <1>1, <1>4, RowTyped
  <2>5. log[tx[r].entity] \o << Row(tx[r]) >> = Append(log[tx[r].entity], Row(tx[r]))
    BY <2>3, <2>4
  <2>6. log' = [log EXCEPT ![tx[r].entity] = Append(@, Row(tx[r]))]
    BY <1>4, <2>5 DEF Commit
  <2>7. approvals' = approvals
    BY <1>4 DEF Commit, TypeOK
  <2> QED BY <1>1, <1>3, <1>4, <2>2, <2>6, <2>7
<1>5. ASSUME NEW id \in ApprovalIds, tx[r].rows = << >>, tx[r].update = None,
             tx[r].draft = {Draft(id, tx[r])}
      PROVE  /\ UNCHANGED <<state, log>>
             /\ DOMAIN approvals' = DOMAIN approvals \cup {id}
             /\ \A i \in DOMAIN approvals : approvals'[i] = approvals[i]
             /\ id \notin DOMAIN approvals => approvals'[id] = Draft(id, tx[r]).row
             /\ tx'[r] = Advance(tx[r], "reply", << >>, None, {}, "PENDING_APPROVAL")
  <2>1. state' = state
    BY <1>5 DEF Commit, TypeOK
  <2>2. log' = log
    <3>1. log[tx[r].entity] \in Seq(LogRow)
      BY <1>2 DEF TypeOK
    <3>2. log[tx[r].entity] \o << >> = log[tx[r].entity]
      BY <3>1
    <3> QED BY <1>5, <3>2 DEF Commit, TypeOK
  <2>3. Draft(id, tx[r]).id = id
    BY DEF Draft
  <2>4. {d.id : d \in tx[r].draft} = {id}
    BY <1>5, <2>3
  <2>5. DOMAIN approvals' = DOMAIN approvals \cup {id}
    BY <2>4 DEF Commit
  <2>6. (CHOOSE d \in tx[r].draft : d.id = id) = Draft(id, tx[r])
    BY <1>5, <2>3
  <2> QED BY <1>3, <1>5, <2>1, <2>2, <2>4, <2>5, <2>6 DEF Commit
<1> QED BY <1>1, <1>3, <1>4, <1>5 DEF Staged

-----------------------------------------------------------------------------
LEMMA LastAppended ==
  ASSUME NEW S, NEW s \in Seq(S), NEW x
  PROVE  Append(s, x) # << >> /\ Append(s, x)[Len(Append(s, x))] = x
<1>1. Len(Append(s, x)) = Len(s) + 1 /\ Len(s) \in Nat /\ Append(s, x)[Len(s) + 1] = x
  OBVIOUS
<1> QED BY <1>1

(* The log and the row are published by one commit, which appends the row  *)
(* that says where the update goes.                                        *)
LEMMA StepKeepsAgreement ==
  ASSUME TypeOK, AllStaged, [Next]_vars, LogStateAgree
  PROVE  LogStateAgree'
<1>1. CASE Quiet
  BY <1>1 DEF Quiet, LogStateAgree, LastEntered
<1>2. ASSUME NEW r \in Reqs, NEW id \in ApprovalIds, Drafting(r, id)
      PROVE  LogStateAgree'
  BY <1>2 DEF Drafting, LogStateAgree, LastEntered
<1>3. ASSUME NEW r \in Reqs, Commit(r)
      PROVE  LogStateAgree'
  <2> DEFINE t == tx[r]
  <2>1. t \in Request /\ t.entity \in Entities
    BY <1>3, CommitPublishes DEF Request
  <2>2. CASE UNCHANGED <<state, log>>
    BY <2>2 DEF LogStateAgree, LastEntered
  <2>3. CASE /\ state' = [state EXCEPT ![t.entity] = t.to]
             /\ log' = [log EXCEPT ![t.entity] = Append(@, Row(t))]
    <3>1. ASSUME NEW e \in Entities
          PROVE  state'[e] = LastEntered(e)'
      <4>1. CASE e # t.entity
        BY <2>1, <2>3, <4>1 DEF LogStateAgree, LastEntered, TypeOK
      <4>2. CASE e = t.entity
        <5>1. log[e] \in Seq(LogRow) /\ log'[e] = Append(log[e], Row(t)) /\ state'[e] = t.to
          BY <2>1, <2>3, <4>2 DEF TypeOK
        <5>2. Row(t).to = t.to
          BY DEF Row
        <5>3. log'[e] # << >> /\ log'[e][Len(log'[e])] = Row(t)
          BY <5>1, LastAppended
        <5> QED BY <5>1, <5>2, <5>3 DEF LastEntered
      <4> QED BY <4>1, <4>2
    <3> QED BY <3>1 DEF LogStateAgree
  <2> QED BY <1>3, <2>2, <2>3, CommitPublishes
<1> QED BY <1>1, <1>2, <1>3, StepKinds

(* "The SM lifecycle log INSERT and the trade.lifecycleStateId UPDATE must *)
(* succeed or fail together": in every reachable state the row holds the   *)
(* state its log last entered, however many requests run at once.          *)
THEOREM LogStateAgreement == Spec => []LogStateAgree
<1>1. Init => LogStateAgree
  BY DEF Init, LogStateAgree, LastEntered
<1>2. TypeOK /\ AllStaged /\ LogStateAgree /\ [Next]_vars => LogStateAgree'
  BY StepKeepsAgreement
<1> QED BY <1>1, <1>2, TypeCorrect, PTL DEF Spec

-----------------------------------------------------------------------------
(* The strengthening that makes the partial unique index and its waiting   *)
(* inductive: a draft has an id and a slot of its own among the other      *)
(* drafts, an unused id and a slot no active approval holds.               *)
SlotFree(t) == \A i \in DOMAIN approvals : approvals[i].status \in Active => ~SameSlot(approvals[i], t)

DraftsApart ==
  \A r \in DOMAIN tx : \A d \in tx[r].draft :
    /\ d.id \notin DOMAIN approvals
    /\ SlotFree(d.row)
    /\ \A s \in DOMAIN tx \ {r} : \A f \in tx[s].draft : d.id # f.id /\ ~SameSlot(d.row, f.row)

LEMMA StepKeepsDraftsApart ==
  ASSUME TypeOK, AllStaged, [Next]_vars, DraftsApart, OneActiveApproval
  PROVE  DraftsApart' /\ OneActiveApproval'
<1>1. CASE Quiet
  <2>1. approvals' = approvals
    BY <1>1 DEF Quiet
  <2>2. \A s \in DOMAIN tx' : tx'[s].draft # {} => s \in DOMAIN tx /\ tx'[s].draft = tx[s].draft
    BY <1>1 DEF Quiet, Bare, SameRequest
  <2>3. DraftsApart'
    BY <2>1, <2>2 DEF DraftsApart, SlotFree
  <2>4. OneActiveApproval'
    BY <2>1 DEF OneActiveApproval
  <2> QED BY <2>3, <2>4
<1>2. ASSUME NEW r \in Reqs, NEW id \in ApprovalIds, Drafting(r, id)
      PROVE  DraftsApart' /\ OneActiveApproval'
  <2> DEFINE t == tx[r]
             d == Draft(id, t)
  <2>1. /\ DOMAIN tx' = DOMAIN tx /\ r \in DOMAIN tx /\ approvals' = approvals
        /\ \A s \in DOMAIN tx \ {r} : tx'[s] = tx[s]
        /\ tx'[r].draft = {d}
    BY <1>2 DEF Drafting, Drafted, Advance
  <2>2. d.id = id /\ d.row.entity = t.entity /\ d.row.from = t.from /\ d.row.to = t.to
    BY DEF Draft
  <2>3. id \notin DOMAIN approvals /\ \A s \in DOMAIN tx : \A f \in tx[s].draft : f.id # id
    BY <1>2 DEF Drafting, Unused
  <2>4. SlotFree(d.row)
    BY <1>2, <2>2 DEF Drafting, Taken, SlotFree, SameSlot
  <2>5. \A s \in DOMAIN tx : \A f \in tx[s].draft : ~SameSlot(f.row, d.row) /\ ~SameSlot(d.row, f.row)
    BY <1>2, <2>2 DEF Drafting, Uncommitted, SameSlot
  <2> HIDE DEF d
  <2>6. DraftsApart'
    <3>1. ASSUME NEW s \in DOMAIN tx', NEW f \in tx'[s].draft
          PROVE  /\ f.id \notin DOMAIN approvals'
                 /\ SlotFree(f.row)'
                 /\ \A q \in DOMAIN tx' \ {s} : \A g \in tx'[q].draft :
                      f.id # g.id /\ ~SameSlot(f.row, g.row)
      <4>1. CASE s = r
        BY <2>1, <2>2, <2>3, <2>4, <2>5, <4>1 DEF SlotFree
      <4>2. CASE s # r
        BY <2>1, <2>2, <2>3, <2>5, <4>2 DEF DraftsApart, SlotFree
      <4> QED BY <4>1, <4>2
    <3> QED BY <3>1 DEF DraftsApart
  <2>7. OneActiveApproval'
    BY <2>1 DEF OneActiveApproval
  <2> QED BY <2>6, <2>7
<1>3. ASSUME NEW r \in Reqs, Commit(r)
      PROVE  DraftsApart' /\ OneActiveApproval'
  <2>1. CASE approvals' = approvals /\ tx[r].draft = {} /\ tx'[r].draft = {}
    <3>1. \A s \in DOMAIN tx' : s \in DOMAIN tx /\ tx'[s].draft = tx[s].draft
      BY <1>3, <2>1, CommitPublishes
    <3>2. DraftsApart'
      BY <2>1, <3>1, <1>3, CommitPublishes DEF DraftsApart, SlotFree
    <3> QED BY <2>1, <3>2 DEF OneActiveApproval
  <2>2. ASSUME NEW id \in ApprovalIds,
               tx[r].draft = {Draft(id, tx[r])},
               DOMAIN approvals' = DOMAIN approvals \cup {id},
               \A i \in DOMAIN approvals : approvals'[i] = approvals[i],
               id \notin DOMAIN approvals => approvals'[id] = Draft(id, tx[r]).row,
               tx'[r].draft = {}
        PROVE  DraftsApart' /\ OneActiveApproval'
    <3> DEFINE d == Draft(id, tx[r])
    <3>1. d.id = id
      BY DEF Draft
    <3>2. r \in DOMAIN tx /\ DOMAIN tx' = DOMAIN tx /\ \A s \in DOMAIN tx \ {r} : tx'[s] = tx[s]
      BY <1>3, CommitPublishes
    <3> HIDE DEF d
    <3>3. /\ id \notin DOMAIN approvals /\ SlotFree(d.row)
          /\ \A s \in DOMAIN tx \ {r} : \A f \in tx[s].draft : id # f.id /\ ~SameSlot(d.row, f.row)
      BY <2>2, <3>1, <3>2 DEF DraftsApart, d
    <3>4. approvals'[id] = d.row
      BY <2>2, <3>3 DEF d
    <3>5. OneActiveApproval'
      BY <2>2, <3>3, <3>4 DEF OneActiveApproval, SlotFree, SameSlot
    <3>6. ASSUME NEW s \in DOMAIN tx', NEW f \in tx'[s].draft
          PROVE  /\ f.id \notin DOMAIN approvals'
                 /\ SlotFree(f.row)'
                 /\ \A q \in DOMAIN tx' \ {s} : \A g \in tx'[q].draft :
                      f.id # g.id /\ ~SameSlot(f.row, g.row)
      <4>1. s \in DOMAIN tx \ {r} /\ tx'[s] = tx[s]
        BY <2>2, <3>2, <3>6
      <4>2. f.id \notin DOMAIN approvals'
        BY <2>2, <3>3, <4>1 DEF DraftsApart
      <4>3. SlotFree(f.row)'
        BY <2>2, <3>3, <3>4, <4>1 DEF DraftsApart, SlotFree, SameSlot
      <4>4. \A q \in DOMAIN tx' \ {s} : \A g \in tx'[q].draft : f.id # g.id /\ ~SameSlot(f.row, g.row)
        BY <2>2, <3>2, <4>1 DEF DraftsApart
      <4> QED BY <4>2, <4>3, <4>4
    <3> QED BY <3>5, <3>6 DEF DraftsApart
  <2>3. \A answer : Advance(tx[r], "reply", << >>, None, {}, answer).draft = {}
    BY DEF Advance
  <2>4. tx'[r].draft = {}
    BY <1>3, <2>3, CommitPublishes
  <2>5. \/ approvals' = approvals /\ tx[r].draft = {}
        \/ \E id \in ApprovalIds :
             /\ tx[r].draft = {Draft(id, tx[r])}
             /\ DOMAIN approvals' = DOMAIN approvals \cup {id}
             /\ \A i \in DOMAIN approvals : approvals'[i] = approvals[i]
             /\ id \notin DOMAIN approvals => approvals'[id] = Draft(id, tx[r]).row
    BY <1>3, CommitPublishes
  <2> QED BY <2>1, <2>2, <2>4, <2>5
<1> QED BY <1>1, <1>2, <1>3, StepKinds

(* D-021-B: pending_approvals never holds two active rows for the same     *)
(* entity and edge, however many requests insert at once.                  *)
THEOREM ApprovalsAreSingle == Spec => [](DraftsApart /\ OneActiveApproval)
<1>1. Init => DraftsApart /\ OneActiveApproval
  BY DEF Init, DraftsApart, OneActiveApproval
<1>2. /\ TypeOK /\ AllStaged /\ DraftsApart /\ OneActiveApproval /\ [Next]_vars
      => (DraftsApart /\ OneActiveApproval)'
  BY StepKeepsDraftsApart
<1> QED BY <1>1, <1>2, TypeCorrect, PTL DEF Spec

-----------------------------------------------------------------------------
(* A good answer is given by the commit that publishes what it speaks of,  *)
(* and nothing published is taken back.                                    *)
Told(t, l, a) ==
  /\ t.answer = "APPLIED" => \E i \in 1..Len(l[t.entity]) : l[t.entity][i] = Row(t)
  /\ t.answer = "PENDING_APPROVAL" =>
       \E i \in DOMAIN a : SameSlot(a[i], t) /\ a[i].maker = t.caller

LEMMA TablesGrow ==
  ASSUME TypeOK, AllStaged, [Next]_vars
  PROVE  /\ \A e \in Entities : /\ Len(log[e]) <= Len(log'[e])
                                /\ \A i \in 1..Len(log[e]) : log'[e][i] = log[e][i]
         /\ \A i \in DOMAIN approvals : i \in DOMAIN approvals' /\ approvals'[i] = approvals[i]
<1>0. \A e \in Entities : log[e] \in Seq(LogRow) /\ Len(log[e]) \in Nat
  BY DEF TypeOK
<1>1. CASE UNCHANGED <<log, approvals>>
  BY <1>0, <1>1
<1>2. ASSUME NEW r \in Reqs, Commit(r)
      PROVE  /\ \A e \in Entities : /\ Len(log[e]) <= Len(log'[e])
                                    /\ \A i \in 1..Len(log[e]) : log'[e][i] = log[e][i]
             /\ \A i \in DOMAIN approvals : i \in DOMAIN approvals' /\ approvals'[i] = approvals[i]
  <2>0. \A i \in DOMAIN approvals : i \in DOMAIN approvals' /\ approvals'[i] = approvals[i]
    BY <1>2, CommitPublishes
  <2>1. CASE log' = log
    BY <1>0, <2>0, <2>1
  <2>2. CASE /\ log' = [log EXCEPT ![tx[r].entity] = Append(@, Row(tx[r]))]
             /\ approvals' = approvals
    <3>1. ASSUME NEW e \in Entities
          PROVE  log'[e] = log[e] \/ log'[e] = Append(log[e], Row(tx[r]))
      BY <2>2 DEF TypeOK
    <3>2. ASSUME NEW e \in Entities
          PROVE  /\ Len(log[e]) <= Len(log'[e])
                 /\ \A i \in 1..Len(log[e]) : log'[e][i] = log[e][i]
      BY <1>0, <3>1
    <3> QED BY <2>0, <3>2
  <2> QED BY <1>2, <2>1, <2>2, CommitPublishes
<1> QED BY <1>1, <1>2, StepKinds DEF Quiet, Drafting

LEMMA StepKeepsAnswers ==
  ASSUME TypeOK, AllStaged, [Next]_vars, DraftsApart, AnswersAreDurable
  PROVE  AnswersAreDurable'
<1>1. \A r \in DOMAIN tx : Told(tx[r], log, approvals) /\ tx[r].entity \in Entities
  BY DEF AnswersAreDurable, Told, TypeOK, Request
<1>2. ASSUME NEW t, NEW u, t.entity \in Entities, Told(t, log, approvals), SameRequest(t, u)
      PROVE  Told(u, log', approvals')
  <2>1. Row(u) = Row(t) /\ u.entity = t.entity /\ u.caller = t.caller /\ u.answer = t.answer
        /\ u.from = t.from /\ u.to = t.to
    BY <1>2 DEF SameRequest, Row
  <2>2. Len(log[t.entity]) \in Nat /\ Len(log'[t.entity]) \in Nat
    <3>1. log'[t.entity] \in Seq(LogRow)
      BY <1>2, StepKeepsStages DEF TypeOK
    <3> QED BY <1>2, <3>1 DEF TypeOK
  <2>3. ASSUME u.answer = "APPLIED"
        PROVE  \E i \in 1..Len(log'[u.entity]) : log'[u.entity][i] = Row(u)
    BY <1>2, <2>1, <2>2, <2>3, TablesGrow DEF Told
  <2>4. ASSUME u.answer = "PENDING_APPROVAL"
        PROVE  \E i \in DOMAIN approvals' : SameSlot(approvals'[i], u) /\ approvals'[i].maker = u.caller
    BY <1>2, <2>1, <2>4, TablesGrow DEF Told, SameSlot
  <2> QED BY <2>3, <2>4 DEF Told
<1>3. ASSUME NEW u, Bare(u)
      PROVE  Told(u, log', approvals')
  BY <1>3 DEF Bare, Told
<1>4. SUFFICES \A s \in DOMAIN tx' : Told(tx'[s], log', approvals')
  BY DEF AnswersAreDurable, Told
<1>5. CASE Quiet
  BY <1>1, <1>2, <1>3, <1>5 DEF Quiet
<1>6. ASSUME NEW r \in Reqs, NEW id \in ApprovalIds, Drafting(r, id)
      PROVE  \A s \in DOMAIN tx' : Told(tx'[s], log', approvals')
  <2>1. /\ DOMAIN tx' = DOMAIN tx
        /\ \A s \in DOMAIN tx \ {r} : tx'[s] = tx[s]
        /\ tx'[r].answer = "NONE"
    BY <1>6 DEF Drafting, Drafted, Advance
  <2>2. Told(tx'[r], log', approvals')
    BY <2>1 DEF Told
  <2>3. \A s \in DOMAIN tx : SameRequest(tx[s], tx[s])
    BY DEF SameRequest
  <2> QED BY <1>1, <1>2, <2>1, <2>2, <2>3
<1>7. ASSUME NEW r \in Reqs, Commit(r)
      PROVE  \A s \in DOMAIN tx' : Told(tx'[s], log', approvals')
  <2> DEFINE t == tx[r]
  <2>1. /\ r \in DOMAIN tx /\ DOMAIN tx' = DOMAIN tx /\ t \in Request /\ t.entity \in Entities
        /\ \A s \in DOMAIN tx \ {r} : tx'[s] = tx[s]
    BY <1>7, CommitPublishes DEF Request
  <2>2. \A s \in DOMAIN tx : SameRequest(tx[s], tx[s])
    BY DEF SameRequest
  <2>3. ASSUME log' = [log EXCEPT ![t.entity] = Append(@, Row(t))],
               tx'[r] = Advance(t, "reply", << >>, None, {}, "APPLIED")
        PROVE  Told(tx'[r], log', approvals')
    <3>1. /\ tx'[r].entity = t.entity /\ tx'[r].answer = "APPLIED" /\ Row(tx'[r]) = Row(t)
      BY <2>3 DEF Advance, Row
    <3>2. log[t.entity] \in Seq(LogRow) /\ log'[t.entity] = Append(log[t.entity], Row(t))
      BY <2>1, <2>3 DEF TypeOK
    <3>3. \E i \in 1..Len(log'[t.entity]) : log'[t.entity][i] = Row(t)
      <4>1. Len(log'[t.entity]) \in 1..Len(log'[t.entity])
            /\ log'[t.entity][Len(log'[t.entity])] = Row(t)
        BY <3>2
      <4> QED BY <4>1
    <3> QED BY <3>1, <3>3 DEF Told
  <2>4. ASSUME NEW id \in ApprovalIds,
               t.draft = {Draft(id, t)},
               DOMAIN approvals' = DOMAIN approvals \cup {id},
               id \notin DOMAIN approvals => approvals'[id] = Draft(id, t).row,
               tx'[r] = Advance(t, "reply", << >>, None, {}, "PENDING_APPROVAL")
        PROVE  Told(tx'[r], log', approvals')
    <3>1. id \notin DOMAIN approvals
      BY <2>1, <2>4 DEF DraftsApart, Draft
    <3>2. SameSlot(approvals'[id], tx'[r]) /\ approvals'[id].maker = tx'[r].caller
      BY <2>4, <3>1 DEF Draft, Advance, SameSlot
    <3>3. tx'[r].answer = "PENDING_APPROVAL"
      BY <2>4 DEF Advance
    <3> QED BY <2>4, <3>2, <3>3 DEF Told
  <2>5. Told(tx'[r], log', approvals')
    BY <1>7, <2>3, <2>4, CommitPublishes
  <2> QED BY <1>1, <1>2, <2>1, <2>2, <2>5
<1> QED BY <1>5, <1>6, <1>7, StepKinds

(* No answer without its effect: a client told APPLIED or PENDING_APPROVAL *)
(* finds the log row or the approval it was told of.                       *)
THEOREM AnswersDurable == Spec => []AnswersAreDurable
<1>1. Init => AnswersAreDurable
  BY DEF Init, AnswersAreDurable
<1>2. /\ TypeOK /\ AllStaged /\ DraftsApart /\ AnswersAreDurable /\ [Next]_vars
      => AnswersAreDurable'
  BY StepKeepsAnswers
<1> QED BY <1>1, <1>2, TypeCorrect, ApprovalsAreSingle, PTL DEF Spec

-----------------------------------------------------------------------------
(* clear remembers what was not blocking the entity at some moment of the  *)
(* request: it holds whatever is not blocking now, and what a passed check *)
(* has seen.                                                               *)
ClearOf(t) ==
  /\ StopKinds \ stop[t.entity] \subseteq t.clear
  /\ t.pc \in {"sanction", "govern", "update", "request", "commit"} => "FREEZE" \in t.clear
  /\ t.pc \in {"govern", "update", "request", "commit"} => "SANCTION" \in t.clear

ClearKept == \A r \in DOMAIN tx : ClearOf(tx[r])

LEMMA AdvanceKeepsClear ==
  ASSUME NEW r \in DOMAIN tx, NEW pc, NEW rows, NEW update, NEW draft, NEW answer,
         ClearKept, stop' = stop,
         tx' = [tx EXCEPT ![r] = Advance(tx[r], pc, rows, update, draft, answer)],
         \/ pc = "reply"
         \/ pc = "sanction" /\ "FREEZE" \notin stop[tx[r].entity]
         \/ /\ pc = "govern" /\ "SANCTION" \notin stop[tx[r].entity]
            /\ tx[r].pc \in {"sanction", "govern", "update", "request", "commit"}
         \/ tx[r].pc \in {"govern", "update", "request", "commit"}
  PROVE  ClearKept'
<1> DEFINE u == Advance(tx[r], pc, rows, update, draft, answer)
<1>1. u.pc = pc /\ u.entity = tx[r].entity /\ u.clear = tx[r].clear
  BY DEF Advance
<1>2. "FREEZE" \in StopKinds /\ "SANCTION" \in StopKinds
  BY DEF StopKinds
<1>3. ClearOf(tx[r])
  BY DEF ClearKept
<1> HIDE DEF u
<1>4. ClearOf(u)
  BY <1>1, <1>2, <1>3 DEF ClearOf
<1>5. tx' = [tx EXCEPT ![r] = u]
  BY DEF u
<1> QED BY <1>4, <1>5 DEF ClearKept, ClearOf

LEMMA StepKeepsClear ==
  ASSUME TypeOK, [Next]_vars, ClearKept
  PROVE  ClearKept'
<1>1. CASE UNCHANGED vars
  BY <1>1 DEF vars, ClearKept, ClearOf
<1>2. ASSUME NEW r \in Reqs, NEW e \in Entities, NEW c \in Callers, NEW to \in Targets,
             NEW ai \in AiChoices, Begin(r, e, c, to, ai)
      PROVE  ClearKept'
  <2>1. /\ DOMAIN tx' = DOMAIN tx \cup {r} /\ stop' = stop
        /\ \A s \in DOMAIN tx : tx'[s] = tx[s]
        /\ tx'[r].pc = "gate" /\ tx'[r].entity = e /\ tx'[r].clear = StopKinds \ stop[e]
    BY <1>2 DEF Begin
  <2> QED BY <2>1 DEF ClearKept, ClearOf
<1>3. ASSUME NEW r \in Reqs, FreezeGate(r) \/ SanctionCheck(r) \/ Govern(r)
      PROVE  ClearKept'
  <2>1. r \in DOMAIN tx /\ stop' = stop
    BY <1>3 DEF FreezeGate, SanctionCheck, Govern, Open
  <2>2. ASSUME NEW answer, Answer(r, answer)
        PROVE  ClearKept'
    <3>1. tx' = [tx EXCEPT ![r] = Advance(tx[r], "reply", << >>, None, {}, answer)]
      BY <2>2 DEF Answer
    <3> QED BY <2>1, <3>1, AdvanceKeepsClear
  <2>3. CASE FreezeGate(r) /\ Goto(r, "sanction") /\ "FREEZE" \notin stop[tx[r].entity]
    BY <2>1, <2>3, AdvanceKeepsClear DEF Goto
  <2>4. CASE SanctionCheck(r) /\ Goto(r, "govern") /\ "SANCTION" \notin stop[tx[r].entity]
    <3>1. tx[r].pc = "sanction"
      BY <2>4 DEF SanctionCheck, Open
    <3> QED BY <2>1, <2>4, <3>1, AdvanceKeepsClear DEF Goto
  <2>5. CASE Govern(r)
    <3>1. tx[r].pc = "govern"
      BY <2>5 DEF Govern, Open
    <3>2. CASE Judge(tx[r]) = "APPLIED"
      <4>1. tx' = [tx EXCEPT ![r] = Advance(tx[r], "update", << Row(tx[r]) >>, None, {}, "NONE")]
        BY <2>5, <3>2 DEF Govern
      <4> QED BY <2>1, <3>1, <4>1, AdvanceKeepsClear
    <3>3. CASE Judge(tx[r]) = "PENDING_APPROVAL"
      <4>1. Goto(r, "request")
        BY <2>5, <3>3 DEF Govern
      <4> QED BY <2>1, <3>1, <4>1, AdvanceKeepsClear DEF Goto
    <3>4. CASE Judge(tx[r]) \notin {"APPLIED", "PENDING_APPROVAL"}
      BY <2>2, <2>5, <3>4 DEF Govern
    <3> QED BY <3>2, <3>3, <3>4
  <2> QED BY <1>3, <2>2, <2>3, <2>4, <2>5 DEF FreezeGate, SanctionCheck
<1>4. ASSUME NEW r \in Reqs, UpdateEntity(r)
      PROVE  ClearKept'
  BY <1>4, AdvanceKeepsClear DEF UpdateEntity, Open
<1>5. ASSUME NEW r \in Reqs, RequestApproval(r)
      PROVE  ClearKept'
  <2>1. r \in DOMAIN tx /\ tx[r].pc = "request" /\ stop' = stop
    BY <1>5 DEF RequestApproval, Open
  <2>2. CASE Answer(r, "FAILED")
    BY <2>1, <2>2, AdvanceKeepsClear DEF Answer
  <2>3. ASSUME NEW id \in ApprovalIds, tx' = [tx EXCEPT ![r] = Drafted(tx[r], id)]
        PROVE  ClearKept'
    BY <2>1, <2>3, AdvanceKeepsClear DEF Drafted
  <2> QED BY <1>5, <2>2, <2>3 DEF RequestApproval
<1>6. ASSUME NEW r \in Reqs, Commit(r)
      PROVE  ClearKept'
  <2>1. r \in DOMAIN tx /\ stop' = stop
    BY <1>6 DEF Commit, Open
  <2>2. PICK answer : Answer(r, answer)
    BY <1>6 DEF Commit
  <2>3. tx' = [tx EXCEPT ![r] = Advance(tx[r], "reply", << >>, None, {}, answer)]
    BY <2>2 DEF Answer
  <2> QED BY <2>1, <2>3, AdvanceKeepsClear
<1>7. ASSUME NEW r \in Reqs, Reply(r) \/ Lose(r)
      PROVE  ClearKept'
  BY <1>7 DEF Reply, Lose, Forget, ClearKept, ClearOf
<1>8. ASSUME NEW e \in Entities, NEW k \in StopKinds, Block(e, k)
      PROVE  ClearKept'
  <2>1. \A f \in Entities : stop[f] \subseteq stop'[f]
    BY <1>8 DEF Block, TypeOK
  <2>2. \A r \in DOMAIN tx : tx[r].entity \in Entities
    BY DEF TypeOK, Request
  <2>3. tx' = tx
    BY <1>8 DEF Block
  <2> QED BY <2>1, <2>2, <2>3 DEF ClearKept, ClearOf
<1>9. ASSUME NEW e \in Entities, NEW k \in StopKinds, Unblock(e, k)
      PROVE  ClearKept'
  <2>1. ASSUME NEW s \in DOMAIN tx
        PROVE  ClearOf(tx[s])'
    <3>1. tx[s] \in Request /\ ClearOf(tx[s])
      BY DEF TypeOK, ClearKept
    <3>2. CASE tx[s].entity # e
      <4>1. tx'[s] = tx[s] /\ stop'[tx[s].entity] = stop[tx[s].entity]
        BY <1>9, <3>1, <3>2 DEF Unblock, TypeOK, Request
      <4> QED BY <3>1, <4>1 DEF ClearOf
    <3>3. CASE tx[s].entity = e
      <4>1. /\ tx'[s].entity = e /\ tx'[s].pc = tx[s].pc
            /\ tx'[s].clear = tx[s].clear \cup {k}
            /\ stop'[e] = stop[e] \ {k}
        BY <1>9, <3>1, <3>3 DEF Unblock, TypeOK, Request
      <4> QED BY <3>1, <3>3, <4>1 DEF ClearOf
    <3> QED BY <3>2, <3>3
  <2>2. DOMAIN tx' = DOMAIN tx
    BY <1>9 DEF Unblock
  <2> QED BY <2>1, <2>2 DEF ClearKept
<1> QED BY <1>1, <1>2, <1>3, <1>4, <1>5, <1>6, <1>7, <1>8, <1>9 DEF Next, Progress

(* An entity that stays sanctioned, or stays frozen, while a request runs  *)
(* is not touched by it: whoever gets as far as writing has seen it free   *)
(* of the one and of the other (D-022-B/C, checkEntityFreeze and           *)
(* checkOrgFreeze before any change of state).                             *)
THEOREM BlockedHasNoEffect == Spec => []BlockedThroughoutHasNoEffect
<1>1. Init => ClearKept
  BY DEF Init, ClearKept
<1>2. TypeOK /\ ClearKept /\ [Next]_vars => ClearKept'
  BY StepKeepsClear
<1>3. TypeOK /\ ClearKept => BlockedThroughoutHasNoEffect
  BY DEF TypeOK, Request, ClearKept, ClearOf, BlockedThroughoutHasNoEffect, StopKinds
<1> QED BY <1>1, <1>2, <1>3, TypeCorrect, PTL DEF Spec

-----------------------------------------------------------------------------
(* No entity gets past the edges one person can take: what an open request *)
(* read was within reach, and so is what it is about to write.             *)
ReachedBy(t) == /\ t.from \in WithinReach
                /\ t.rows # << >> => t.to \in WithinReach

Reached == /\ StopsAtSecondPerson
           /\ \A r \in DOMAIN tx : ReachedBy(tx[r])

LEMMA AppliedIsWithinReach ==
  ASSUME NEW t \in Request, t.from \in WithinReach, Judge(t) = "APPLIED"
  PROVE  t.to \in WithinReach
<1>1. PICK q : q = Input(t)
  OBVIOUS
<1>2. /\ q.from = t.from /\ q.to = t.to /\ q.actor = t.caller.actor
      /\ q.level = 0 /\ q.maker = None
  BY <1>1 DEF Input
<1>3. Verdict(q) = "APPLIED"
  BY <1>1 DEF Judge
<1>4. Declared(q) /\ ~EdgeOf(q).esc /\ ~EdgeOf(q).mc
  BY <1>2, <1>3 DEF Verdict, Completes
<1>5. PICK e \in Edges : e.from = q.from /\ e.to = q.to /\ q.actor \in e.actors
  BY <1>4 DEF Declared
<1>6. EdgeOf(q) = e
  <2>1. EdgeOf(q) \in Edges /\ EdgeOf(q).from = q.from /\ EdgeOf(q).to = q.to
    BY <1>5 DEF EdgeOf
  <2> QED BY <1>5, <2>1, RegistryAssumption
<1>7. e \in OnePersonEdges
  <2>1. t.caller \in Callers
    BY DEF Request
  <2>2. e.from \notin Terminal
    BY <1>4, <1>5 DEF Declared
  <2> QED BY <1>2, <1>4, <1>5, <1>6, <2>1, <2>2 DEF OnePersonEdges
<1>8. e.to \in States
  BY RegistryAssumption DEF Edge
<1>9. ASSUME NEW reach \in SUBSET States, Closed(reach)
      PROVE  e.to \in reach
  BY <1>2, <1>5, <1>7, <1>9 DEF WithinReach, Closed
<1> QED BY <1>2, <1>5, <1>8, <1>9 DEF WithinReach

LEMMA AdvanceKeepsReached ==
  ASSUME NEW r \in DOMAIN tx, NEW pc, NEW rows, NEW update, NEW draft, NEW answer,
         Reached, state' = state,
         tx' = [tx EXCEPT ![r] = Advance(tx[r], pc, rows, update, draft, answer)],
         rows = << >> \/ rows = tx[r].rows \/ tx[r].to \in WithinReach
  PROVE  Reached'
<1>1. PICK u : u = Advance(tx[r], pc, rows, update, draft, answer)
  OBVIOUS
<1>2. u.from = tx[r].from /\ u.to = tx[r].to /\ u.rows = rows
  BY <1>1 DEF Advance
<1>3. ReachedBy(tx[r])
  BY DEF Reached
<1>4. ReachedBy(u)
  BY <1>2, <1>3 DEF ReachedBy
<1>5. tx' = [tx EXCEPT ![r] = u]
  BY <1>1
<1> QED BY <1>4, <1>5 DEF Reached, ReachedBy, StopsAtSecondPerson

LEMMA StepKeepsReached ==
  ASSUME TypeOK, AllStaged, Reached, [Next]_vars
  PROVE  Reached'
<1>1. CASE UNCHANGED vars
  BY <1>1 DEF vars, Reached, ReachedBy, StopsAtSecondPerson
<1>2. ASSUME NEW r \in Reqs, NEW e \in Entities, NEW c \in Callers, NEW to \in Targets,
             NEW ai \in AiChoices, Begin(r, e, c, to, ai)
      PROVE  Reached'
  <2>1. /\ DOMAIN tx' = DOMAIN tx \cup {r} /\ state' = state
        /\ \A s \in DOMAIN tx : tx'[s] = tx[s]
        /\ tx'[r].rows = << >> /\ tx'[r].from = state[e]
    BY <1>2 DEF Begin
  <2> QED BY <2>1 DEF Reached, ReachedBy, StopsAtSecondPerson
<1>3. ASSUME NEW r \in DOMAIN tx, NEW answer, Answer(r, answer), state' = state
      PROVE  Reached'
  <2>1. tx' = [tx EXCEPT ![r] = Advance(tx[r], "reply", << >>, None, {}, answer)]
    BY <1>3 DEF Answer
  <2> QED BY <1>3, <2>1, AdvanceKeepsReached
<1>4. ASSUME NEW r \in DOMAIN tx, NEW pc, Goto(r, pc), state' = state
      PROVE  Reached'
  <2>1. tx' = [tx EXCEPT ![r] = Advance(tx[r], pc, << >>, None, {}, "NONE")]
    BY <1>4 DEF Goto
  <2> QED BY <1>4, <2>1, AdvanceKeepsReached
<1>5. ASSUME NEW r \in Reqs, FreezeGate(r) \/ SanctionCheck(r)
      PROVE  Reached'
  BY <1>3, <1>4, <1>5 DEF FreezeGate, SanctionCheck, Open
<1>6. ASSUME NEW r \in Reqs, Govern(r)
      PROVE  Reached'
  <2>1. r \in DOMAIN tx /\ state' = state /\ tx[r] \in Request /\ ReachedBy(tx[r])
    BY <1>6 DEF Govern, Open, TypeOK, Reached
  <2>2. CASE Judge(tx[r]) = "APPLIED"
    <3>1. tx' = [tx EXCEPT ![r] = Advance(tx[r], "update", << Row(tx[r]) >>, None, {}, "NONE")]
      BY <1>6, <2>2 DEF Govern
    <3>2. tx[r].to \in WithinReach
      BY <2>1, <2>2, AppliedIsWithinReach DEF ReachedBy
    <3> QED BY <2>1, <3>1, <3>2, AdvanceKeepsReached
  <2>3. CASE Judge(tx[r]) = "PENDING_APPROVAL"
    BY <1>4, <1>6, <2>1, <2>3 DEF Govern
  <2>4. CASE Judge(tx[r]) \notin {"APPLIED", "PENDING_APPROVAL"}
    BY <1>3, <1>6, <2>1, <2>4 DEF Govern
  <2> QED BY <2>2, <2>3, <2>4
<1>7. ASSUME NEW r \in Reqs, UpdateEntity(r)
      PROVE  Reached'
  BY <1>7, AdvanceKeepsReached DEF UpdateEntity, Open
<1>8. ASSUME NEW r \in Reqs, RequestApproval(r)
      PROVE  Reached'
  <2>1. r \in DOMAIN tx /\ state' = state
    BY <1>8 DEF RequestApproval, Open
  <2>2. ASSUME NEW id \in ApprovalIds, tx' = [tx EXCEPT ![r] = Drafted(tx[r], id)]
        PROVE  Reached'
    BY <2>1, <2>2, AdvanceKeepsReached DEF Drafted
  <2> QED BY <1>3, <1>8, <2>1, <2>2 DEF RequestApproval
<1>9. ASSUME NEW r \in Reqs, Commit(r)
      PROVE  Reached'
  <2>1. r \in DOMAIN tx /\ tx[r].pc = "commit" /\ Staged(tx[r]) /\ ReachedBy(tx[r])
    BY <1>9 DEF Commit, Open, AllStaged, Reached
  <2>2. \/ tx[r].draft = {} /\ state' = [state EXCEPT ![tx[r].entity] = tx[r].to]
        \/ state' = state
    BY <1>9, CommitPublishes
  <2>3. StopsAtSecondPerson'
    <3>1. tx[r].draft = {} => tx[r].rows # << >>
      <4>1. << Row(tx[r]) >> # << >>
        OBVIOUS
      <4>2. \/ tx[r].rows = << Row(tx[r]) >>
            \/ \E id \in ApprovalIds : tx[r].draft = {Draft(id, tx[r])}
        BY <2>1 DEF Staged
      <4> QED BY <4>1, <4>2
    <3>2. tx[r].draft = {} => tx[r].to \in WithinReach
      BY <2>1, <3>1 DEF ReachedBy
    <3> QED BY <2>2, <3>2 DEF Reached, StopsAtSecondPerson, TypeOK
  <2>4. PICK answer : tx'[r] = Advance(tx[r], "reply", << >>, None, {}, answer)
    BY <1>9, CommitPublishes
  <2>5. tx'[r].rows = << >> /\ tx'[r].from = tx[r].from
    BY <2>4 DEF Advance
  <2>6. DOMAIN tx' = DOMAIN tx /\ \A s \in DOMAIN tx \ {r} : tx'[s] = tx[s]
    BY <1>9, CommitPublishes
  <2> QED BY <2>1, <2>3, <2>5, <2>6 DEF Reached, ReachedBy
<1>10. ASSUME NEW r \in Reqs, Reply(r) \/ Lose(r)
       PROVE  Reached'
  BY <1>10 DEF Reply, Lose, Forget, Reached, ReachedBy, StopsAtSecondPerson
<1>11. ASSUME NEW e \in Entities, NEW k \in StopKinds, Block(e, k)
       PROVE  Reached'
  BY <1>11 DEF Block, Reached, ReachedBy, StopsAtSecondPerson
<1>12. ASSUME NEW e \in Entities, NEW k \in StopKinds, Unblock(e, k)
       PROVE  Reached'
  <2>1. ASSUME NEW s \in DOMAIN tx
        PROVE  ReachedBy(tx'[s])
    <3>1. tx[s] \in Request /\ ReachedBy(tx[s])
      BY DEF TypeOK, Reached
    <3>2. tx'[s] = IF tx[s].entity = e THEN [tx[s] EXCEPT !.clear = @ \cup {k}] ELSE tx[s]
      BY <1>12 DEF Unblock
    <3>3. tx'[s].from = tx[s].from /\ tx'[s].to = tx[s].to /\ tx'[s].rows = tx[s].rows
      BY <3>1, <3>2 DEF Request
    <3> QED BY <3>1, <3>3 DEF ReachedBy
  <2>2. DOMAIN tx' = DOMAIN tx /\ state' = state
    BY <1>12 DEF Unblock
  <2> QED BY <2>1, <2>2 DEF Reached, StopsAtSecondPerson
<1> QED BY <1>1, <1>2, <1>5, <1>6, <1>7, <1>8, <1>9, <1>10, <1>11, <1>12 DEF Next, Progress

(* Under any registry and with any number of concurrent requests: requests *)
(* judged from a state that is no longer the row's still enter only states *)
(* that one person can bring about.                                        *)
THEOREM NoneGetsPastSecondPerson == Spec => []StopsAtSecondPerson
<1>1. Init => Reached
  <2>1. InitialState \in WithinReach
    BY LifecycleAssumption DEF WithinReach, Closed
  <2> QED BY <2>1 DEF Init, Reached, ReachedBy, StopsAtSecondPerson
<1>2. TypeOK /\ AllStaged /\ Reached /\ [Next]_vars => Reached'
  BY StepKeepsReached
<1>3. Reached => StopsAtSecondPerson
  BY DEF Reached
<1> QED BY <1>1, <1>2, <1>3, TypeCorrect, PTL DEF Spec

-----------------------------------------------------------------------------
(* One request at a time: the state a request judged is still the row's    *)
(* when it commits, and what it logs was permitted by the registry.        *)
Permitted(t) ==
  /\ t.from \notin Terminal
  /\ \E edge \in Edges : /\ edge.from = t.from /\ edge.to = t.to
                         /\ t.caller.actor \in edge.actors
                         /\ ~edge.mc

FreshOf(t) == /\ t.rows # << >> => Permitted(t)
              /\ t.pc # "reply" => t.from = state[t.entity]

Fresh == \A r \in DOMAIN tx : FreshOf(tx[r])

LEMMA AppliedIsPermitted ==
  ASSUME NEW t \in Request, Judge(t) = "APPLIED"
  PROVE  Permitted(t)
<1> DEFINE q == Input(t)
           ofQ(e) == e \in Edges /\ e.from = q.from /\ e.to = q.to
<1>1. Declared(q) /\ Verdict(q) = "APPLIED" /\ ~Completes(q)
  BY DEF Judge, Verdict, Input, Completes
<1>2. PICK e \in Edges : e.from = q.from /\ e.to = q.to /\ q.actor \in e.actors
  BY <1>1 DEF Declared
<1>3. EdgeOf(q) \in Edges /\ EdgeOf(q).from = q.from /\ EdgeOf(q).to = q.to
  BY <1>2 DEF EdgeOf
<1>4. EdgeOf(q) = e
  BY <1>2, <1>3, RegistryAssumption
<1>5. ~EdgeOf(q).mc
  BY <1>1 DEF Verdict
<1>6. q.from = t.from /\ q.to = t.to /\ q.actor = t.caller.actor
  BY DEF Input
<1>7. t.from \notin Terminal
  BY <1>1, <1>6 DEF Declared
<1> HIDE DEF q
<1> QED BY <1>2, <1>4, <1>5, <1>6, <1>7 DEF Permitted

LEMMA AdvanceKeepsFresh ==
  ASSUME NEW r \in DOMAIN tx, NEW pc, NEW rows, NEW update, NEW draft, NEW answer,
         Fresh, state' = state,
         tx' = [tx EXCEPT ![r] = Advance(tx[r], pc, rows, update, draft, answer)],
         rows = << >> \/ rows = tx[r].rows \/ Permitted(tx[r]),
         pc = "reply" \/ tx[r].pc # "reply"
  PROVE  Fresh'
<1> DEFINE u == Advance(tx[r], pc, rows, update, draft, answer)
<1>1. /\ u.pc = pc /\ u.entity = tx[r].entity /\ u.from = tx[r].from
      /\ u.to = tx[r].to /\ u.caller = tx[r].caller /\ u.rows = rows
  BY DEF Advance
<1>2. FreshOf(tx[r])
  BY DEF Fresh
<1> HIDE DEF u
<1>3. FreshOf(u)
  BY <1>1, <1>2 DEF FreshOf, Permitted
<1>4. tx' = [tx EXCEPT ![r] = u]
  BY DEF u
<1> QED BY <1>3, <1>4 DEF Fresh, FreshOf

LEMMA StepKeepsFresh ==
  ASSUME \A r, s \in Reqs : r = s,
         TypeOK, AllStaged, [Next]_vars, Fresh
  PROVE  Fresh'
<1>1. CASE UNCHANGED vars
  BY <1>1 DEF vars, Fresh, FreshOf
<1>2. ASSUME NEW r \in Reqs, NEW e \in Entities, NEW c \in Callers, NEW to \in Targets,
             NEW ai \in AiChoices, Begin(r, e, c, to, ai)
      PROVE  Fresh'
  <2>1. /\ DOMAIN tx' = DOMAIN tx \cup {r} /\ state' = state
        /\ \A s \in DOMAIN tx : tx'[s] = tx[s]
        /\ tx'[r].rows = << >> /\ tx'[r].entity = e /\ tx'[r].from = state[e]
    BY <1>2 DEF Begin
  <2> QED BY <2>1 DEF Fresh, FreshOf
<1>3. ASSUME NEW r \in DOMAIN tx, NEW answer, Answer(r, answer), state' = state
      PROVE  Fresh'
  <2>1. tx' = [tx EXCEPT ![r] = Advance(tx[r], "reply", << >>, None, {}, answer)]
    BY <1>3 DEF Answer
  <2> QED BY <1>3, <2>1, AdvanceKeepsFresh
<1>4. ASSUME NEW r \in DOMAIN tx, NEW pc, Goto(r, pc), tx[r].pc # "reply", state' = state
      PROVE  Fresh'
  <2>1. tx' = [tx EXCEPT ![r] = Advance(tx[r], pc, << >>, None, {}, "NONE")]
    BY <1>4 DEF Goto
  <2> QED BY <1>4, <2>1, AdvanceKeepsFresh
<1>5. ASSUME NEW r \in Reqs, FreezeGate(r) \/ SanctionCheck(r)
      PROVE  Fresh'
  BY <1>3, <1>4, <1>5 DEF FreezeGate, SanctionCheck, Open
<1>6. ASSUME NEW r \in Reqs, Govern(r)
      PROVE  Fresh'
  <2>1. r \in DOMAIN tx /\ tx[r].pc = "govern" /\ state' = state /\ tx[r] \in Request
    BY <1>6 DEF Govern, Open, TypeOK
  <2>2. CASE Judge(tx[r]) = "APPLIED"
    <3>1. tx' = [tx EXCEPT ![r] = Advance(tx[r], "update", << Row(tx[r]) >>, None, {}, "NONE")]
      BY <1>6, <2>2 DEF Govern
    <3>2. Permitted(tx[r])
      BY <2>1, <2>2, AppliedIsPermitted
    <3> QED BY <2>1, <3>1, <3>2, AdvanceKeepsFresh
  <2>3. CASE Judge(tx[r]) = "PENDING_APPROVAL"
    BY <1>4, <1>6, <2>1, <2>3 DEF Govern
  <2>4. CASE Judge(tx[r]) \notin {"APPLIED", "PENDING_APPROVAL"}
    BY <1>3, <1>6, <2>1, <2>4 DEF Govern
  <2> QED BY <2>2, <2>3, <2>4
<1>7. ASSUME NEW r \in Reqs, UpdateEntity(r)
      PROVE  Fresh'
  BY <1>7, AdvanceKeepsFresh DEF UpdateEntity, Open
<1>8. ASSUME NEW r \in Reqs, RequestApproval(r)
      PROVE  Fresh'
  <2>1. r \in DOMAIN tx /\ tx[r].pc = "request" /\ state' = state
    BY <1>8 DEF RequestApproval, Open
  <2>2. ASSUME NEW id \in ApprovalIds, tx' = [tx EXCEPT ![r] = Drafted(tx[r], id)]
        PROVE  Fresh'
    BY <2>1, <2>2, AdvanceKeepsFresh DEF Drafted
  <2> QED BY <1>3, <1>8, <2>1, <2>2 DEF RequestApproval
<1>9. ASSUME NEW r \in Reqs, Commit(r)
      PROVE  Fresh'
  <2>1. DOMAIN tx' \subseteq {r}
    BY <1>9, CommitPublishes DEF TypeOK
  <2>2. PICK answer : tx'[r] = Advance(tx[r], "reply", << >>, None, {}, answer)
    BY <1>9, CommitPublishes
  <2>3. tx'[r].rows = << >> /\ tx'[r].pc = "reply"
    BY <2>2 DEF Advance
  <2> QED BY <2>1, <2>3 DEF Fresh, FreshOf
<1>10. ASSUME NEW r \in Reqs, Reply(r) \/ Lose(r)
       PROVE  Fresh'
  BY <1>10 DEF Reply, Lose, Forget, Fresh, FreshOf
<1>11. ASSUME NEW e \in Entities, NEW k \in StopKinds, Block(e, k)
       PROVE  Fresh'
  BY <1>11 DEF Block, Fresh, FreshOf
<1>12. ASSUME NEW e \in Entities, NEW k \in StopKinds, Unblock(e, k)
       PROVE  Fresh'
  <2>1. ASSUME NEW s \in DOMAIN tx
        PROVE  FreshOf(tx[s])'
    <3>1. tx[s] \in Request /\ FreshOf(tx[s]) /\ state' = state
      BY <1>12 DEF TypeOK, Fresh, Unblock
    <3>2. tx'[s] = IF tx[s].entity = e THEN [tx[s] EXCEPT !.clear = @ \cup {k}] ELSE tx[s]
      BY <1>12 DEF Unblock
    <3>3. /\ tx'[s].pc = tx[s].pc /\ tx'[s].entity = tx[s].entity /\ tx'[s].from = tx[s].from
          /\ tx'[s].to = tx[s].to /\ tx'[s].caller = tx[s].caller /\ tx'[s].rows = tx[s].rows
      BY <3>1, <3>2 DEF Request
    <3> QED BY <3>1, <3>3 DEF FreshOf, Permitted
  <2>2. DOMAIN tx' = DOMAIN tx
    BY <1>12 DEF Unblock
  <2> QED BY <2>1, <2>2 DEF Fresh
<1> QED BY <1>1, <1>2, <1>5, <1>6, <1>7, <1>8, <1>9, <1>10, <1>11, <1>12 DEF Next, Progress

(* A step of the pipeline is a move of the register or leaves it alone.    *)
LEMMA StepIsMove ==
  ASSUME TypeOK, AllStaged, Fresh, [Next]_vars
  PROVE  [Register!Next]_<<state, log>>
<1>1. CASE UNCHANGED <<state, log>>
  BY <1>1
<1>2. ASSUME NEW r \in Reqs, Commit(r)
      PROVE  [Register!Next]_<<state, log>>
  <2> DEFINE t == tx[r]
  <2>1. t \in Request /\ r \in DOMAIN tx /\ t.pc = "commit"
    BY <1>2, CommitPublishes DEF Commit, Open
  <2>2. ASSUME t.draft = {},
               state' = [state EXCEPT ![t.entity] = t.to],
               log' = [log EXCEPT ![t.entity] = Append(@, Row(t))]
        PROVE  Register!Next
    <3>1. t.rows = << Row(t) >>
      BY <2>1, <2>2 DEF AllStaged, Staged
    <3>2. Permitted(t) /\ t.from = state[t.entity]
      <4>1. FreshOf(t)
        BY <2>1 DEF Fresh
      <4>2. t.rows # << >>
        BY <3>1
      <4> QED BY <2>1, <4>1, <4>2 DEF FreshOf
    <3>3. PICK edge \in Edges : /\ edge.from = t.from /\ edge.to = t.to
                                /\ t.caller.actor \in edge.actors /\ ~edge.mc
      BY <3>2 DEF Permitted
    <3>4. Row(t) = [from |-> edge.from, to |-> edge.to, actor |-> t.caller.actor, via |-> None]
      BY <3>3 DEF Row
    <3>5. Register!Move(t.entity, edge, t.caller.actor)
      BY <2>2, <3>2, <3>3, <3>4 DEF Register!Move, Permitted
    <3>6. t.entity \in Entities
      BY <2>1 DEF Request
    <3> QED BY <3>3, <3>5, <3>6 DEF Register!Next
  <2> QED BY <1>2, <2>2, CommitPublishes
<1> QED BY <1>1, <1>2, StepKinds DEF Quiet, Drafting

(* Requests served one at a time move an entity along declared edges only, *)
(* by an actor the edge names, never over a maker-checker edge and never   *)
(* out of a terminal state, each move logged once from the state it left.  *)
(* That there is one slot is needed: the judged state is not read again    *)
(* when the row is overwritten.                                            *)
THEOREM SerialLifecycle ==
  ASSUME \A r, s \in Reqs : r = s
  PROVE  Spec => ImplementsLifecycleRegister
<1>1. Init => Register!Init /\ Fresh
  BY DEF Init, Register!Init, Fresh
<1>2. TypeOK /\ AllStaged /\ Fresh /\ [Next]_vars => Fresh'
  BY StepKeepsFresh
<1>3. TypeOK /\ AllStaged /\ Fresh /\ [Next]_vars => [Register!Next]_<<state, log>>
  BY StepIsMove
<1> QED BY <1>1, <1>2, <1>3, TypeCorrect, PTL DEF Spec, ImplementsLifecycleRegister, Register!Spec

-----------------------------------------------------------------------------
(* The maker-checker protocol.                                               *)

ReplayStages == {"lock", "marker", "freeze", "sanction", "apply"}

(* What a call in progress has established: its approval exists, and the   *)
(* signature it is about to act on is on file.                             *)
CallKnown(c) ==
  /\ c.id \in DOMAIN approvals
  /\ c.pc = "status" => c.sig \in sigs[c.id]
  /\ c.pc \in ReplayStages => c.sig \in sigs[c.id] /\ c.sig.decision = "APPROVE"

CallsKnown == \A s \in DOMAIN session : CallKnown(session[s])

(* Signatures belong to approvals, and none is the maker's own.            *)
SignaturesApart ==
  /\ \A id \in ApprovalIds \ DOMAIN approvals : sigs[id] = {}
  /\ \A id \in DOMAIN approvals : \A sig \in sigs[id] :
       Fingerprint(sig.signer) # Fingerprint(approvals[id].maker)

(* The state machine holds back maker-checker edges only, so every approval *)
(* is for one.                                                             *)
ForTwoPeople(row) == \E e \in Edges : e.from = row.from /\ e.to = row.to /\ e.mc

ApprovalsForTwo == \A id \in DOMAIN approvals : ForTwoPeople(approvals[id])

Known == CallsKnown /\ SignaturesApart /\ ApprovalsForTwo

(* Approvals keep everything but their status, and signatures stay.        *)
Frame == \A id \in DOMAIN approvals :
           /\ id \in DOMAIN approvals'
           /\ approvals'[id].entity = approvals[id].entity
           /\ approvals'[id].from = approvals[id].from
           /\ approvals'[id].to = approvals[id].to
           /\ approvals'[id].maker = approvals[id].maker
           /\ sigs[id] \subseteq sigs'[id]

LEMMA CallStarts ==
  ASSUME SigningTypeOK, Known, NEW s \in Sessions, NEW c \in Session, CallKnown(c), Start(s, c),
         UNCHANGED <<approvals, log, stop, sigs, late>>
  PROVE  SigningTypeOK' /\ Known' /\ Frame
<1>1. DOMAIN session' = DOMAIN session \cup {s} /\ s \notin DOMAIN session
  BY DEF Start
<1>2. \A x \in DOMAIN session' : session'[x] = IF x = s THEN c ELSE session[x]
  BY DEF Start
<1>3. DOMAIN session' \subseteq Sessions /\ session' \in [DOMAIN session' -> Session]
  BY <1>1, <1>2 DEF SigningTypeOK, Start
<1>4. CallsKnown'
  BY <1>1, <1>2 DEF CallsKnown, CallKnown, Known
<1>5. SigningTypeOK'
  BY <1>3 DEF SigningTypeOK
<1>6. SignaturesApart' /\ ApprovalsForTwo'
  BY DEF Known, SignaturesApart, ApprovalsForTwo
<1> QED BY <1>4, <1>5, <1>6 DEF Known, Frame

LEMMA CallEnds ==
  ASSUME SigningTypeOK, Known, NEW s \in DOMAIN session, End(s),
         UNCHANGED <<approvals, stop, sigs, late>>, log' \in [Entities -> Seq(LogRow)]
  PROVE  SigningTypeOK' /\ Known' /\ Frame
<1>1. SigningTypeOK'
  BY DEF End, SigningTypeOK
<1>2. Known'
  BY DEF End, Known, CallsKnown, CallKnown, SignaturesApart, ApprovalsForTwo
<1> QED BY <1>1, <1>2 DEF Frame

LEMMA CallAdvances ==
  ASSUME SigningTypeOK, Known, NEW s \in DOMAIN session, NEW pc \in ReplayStages, Proceed(s, pc),
         session[s].pc \in ReplayStages,
         UNCHANGED <<approvals, log, stop, sigs, late>>
  PROVE  SigningTypeOK' /\ Known' /\ Frame
<1> DEFINE c == [pc |-> pc, id |-> session[s].id, sig |-> session[s].sig,
                 clear |-> session[s].clear]
<1>1. session' = [session EXCEPT ![s] = c]
  BY DEF Proceed
<1>2. session[s] \in Session /\ CallKnown(session[s])
  BY DEF SigningTypeOK, Known, CallsKnown
<1>3. c \in Session /\ CallKnown(c)
  BY <1>2 DEF Session, CallStages, ReplayStages, CallKnown
<1> HIDE DEF c
<1>4. SigningTypeOK'
  BY <1>1, <1>3 DEF SigningTypeOK
<1>5. CallsKnown'
  BY <1>1, <1>3 DEF Known, CallsKnown, CallKnown
<1> QED BY <1>4, <1>5 DEF Known, SignaturesApart, ApprovalsForTwo, Frame

(* An edge the state machine holds back is reserved to two people, and it  *)
(* applies none of those without a maker.                                  *)
LEMMA HeldBackIsForTwo ==
  ASSUME NEW q, Verdict(q) = "PENDING_APPROVAL"
  PROVE  q.from \in States /\ q.to \in States /\ ForTwoPeople(q)
<1>1. Declared(q) /\ EdgeOf(q).mc
  BY DEF Verdict
<1>2. PICK e \in Edges : e.from = q.from /\ e.to = q.to
  BY <1>1 DEF Declared
<1>3. EdgeOf(q) \in Edges /\ EdgeOf(q).from = q.from /\ EdgeOf(q).to = q.to
  BY <1>2 DEF EdgeOf
<1> QED BY <1>1, <1>3, RegistryAssumption DEF ForTwoPeople, Edge

LEMMA AppliedHasMaker ==
  ASSUME NEW q, Verdict(q) = "APPLIED", ForTwoPeople(q)
  PROVE  q.maker # None
<1>1. PICK e \in Edges : e.from = q.from /\ e.to = q.to /\ e.mc
  BY DEF ForTwoPeople
<1>2. EdgeOf(q) \in Edges /\ EdgeOf(q).from = q.from /\ EdgeOf(q).to = q.to
  BY <1>1 DEF EdgeOf
<1>3. EdgeOf(q) = e
  BY <1>1, <1>2, RegistryAssumption
<1>4. Completes(q)
  BY <1>1, <1>3 DEF Verdict
<1> QED BY <1>4 DEF Completes

LEMMA StepKeepsKnown ==
  ASSUME SigningTypeOK, Known, [SigningNext]_signingVars
  PROVE  SigningTypeOK' /\ Known' /\ Frame
<1> DEFINE Goal == SigningTypeOK' /\ Known' /\ Frame
<1>1. CASE UNCHANGED signingVars
  <2>1. UNCHANGED <<approvals, log, stop, sigs, late, session>>
    BY <1>1 DEF signingVars
  <2>2. SigningTypeOK'
    BY <2>1 DEF SigningTypeOK
  <2>3. Known'
    BY <2>1 DEF Known, CallsKnown, CallKnown, SignaturesApart, ApprovalsForTwo
  <2> QED BY <2>1, <2>2, <2>3 DEF Frame
<1>2. ASSUME NEW id \in ApprovalIds, NEW e \in Entities, NEW edge \in Edges, NEW c \in Callers,
             Submit(id, e, edge, c)
      PROVE  Goal
  <2> DEFINE row == [entity |-> e, from |-> edge.from, to |-> edge.to, maker |-> c,
                     status |-> "REQUESTED"]
             q == [from |-> edge.from, to |-> edge.to, actor |-> c.actor, user |-> c.user,
                   admin |-> c.admin, ai |-> "NO", level |-> 0, maker |-> None]
  <2>1. /\ id \notin DOMAIN approvals
        /\ DOMAIN approvals' = DOMAIN approvals \cup {id}
        /\ \A i \in DOMAIN approvals : approvals'[i] = approvals[i]
        /\ approvals'[id] = row
        /\ approvals' = [i \in DOMAIN approvals' |-> approvals'[i]]
        /\ UNCHANGED <<log, stop, sigs, late, session>>
        /\ Verdict(q) = "PENDING_APPROVAL"
    BY <1>2 DEF Submit
  <2>2. q.from \in States /\ q.to \in States /\ ForTwoPeople(q)
    BY <2>1, HeldBackIsForTwo
  <2>3. row \in Approval /\ ForTwoPeople(row)
    BY <2>2 DEF Approval, Statuses, ForTwoPeople
  <2> HIDE DEF q, row
  <2>4. SigningTypeOK'
    BY <2>1, <2>3 DEF SigningTypeOK
  <2>5. CallsKnown'
    BY <2>1 DEF Known, CallsKnown, CallKnown
  <2>6. SignaturesApart'
    BY <2>1 DEF Known, SignaturesApart
  <2>7. ApprovalsForTwo'
    BY <2>1, <2>3 DEF Known, ApprovalsForTwo
  <2> QED BY <2>1, <2>4, <2>5, <2>6, <2>7 DEF Known, Frame
<1>3. ASSUME NEW s \in Sessions, NEW id \in ApprovalIds, NEW p \in SigningAs, NEW d \in Decisions,
             SignRead(s, id, [signer |-> p, decision |-> d])
      PROVE  Goal
  <2> DEFINE c == [pc |-> "insert", id |-> id, sig |-> [signer |-> p, decision |-> d],
                   clear |-> Clear(id)]
  <2>1. c \in Session
    BY SigningAssumption DEF Session, CallStages, Signature, Clear
  <2>2. CallKnown(c)
    BY <1>3 DEF CallKnown, SignRead, ReplayStages
  <2> QED BY <1>3, <2>1, <2>2, CallStarts DEF SignRead
<1>4. ASSUME NEW s \in Sessions, NEW id \in ApprovalIds, NEW sig \in sigs[id], ReplayRead(s, id, sig)
      PROVE  Goal
  <2> DEFINE c == [pc |-> "lock", id |-> id, sig |-> sig, clear |-> Clear(id)]
  <2>1. c \in Session
    BY DEF Session, CallStages, SigningTypeOK, Clear
  <2>2. CallKnown(c)
    BY <1>4 DEF CallKnown, ReplayRead, ReplayStages
  <2> QED BY <1>4, <2>1, <2>2, CallStarts DEF ReplayRead
<1>5. ASSUME NEW s \in Sessions, SignInsert(s)
      PROVE  Goal
  <2> DEFINE c == session[s]
             d == [pc |-> "status", id |-> c.id, sig |-> c.sig, clear |-> c.clear]
  <2>1. s \in DOMAIN session /\ c \in Session /\ c.id \in DOMAIN approvals
        /\ UNCHANGED <<approvals, log, stop, late>>
    BY <1>5 DEF SignInsert, At, SigningTypeOK, Known, CallsKnown, CallKnown
  <2>2. CASE Fingerprint(c.sig.signer) = Fingerprint(approvals[c.id].maker)
    BY <1>5, <2>1, <2>2, CallEnds DEF SignInsert, SigningTypeOK
  <2>3. CASE Fingerprint(c.sig.signer) # Fingerprint(approvals[c.id].maker)
    <3>1. sigs' = [sigs EXCEPT ![c.id] = @ \cup {c.sig}] /\ session' = [session EXCEPT ![s] = d]
      BY <1>5, <2>3 DEF SignInsert, Proceed
    <3>2. d \in Session /\ d.id = c.id /\ d.sig = c.sig /\ d.pc = "status" /\ c.sig \in Signature
      BY <2>1 DEF Session, CallStages
    <3> HIDE DEF d
    <3>3. /\ c.id \in ApprovalIds /\ c.sig \in sigs'[c.id] /\ sigs' \in [ApprovalIds -> SUBSET Signature]
          /\ \A i \in ApprovalIds : sigs[i] \subseteq sigs'[i]
          /\ \A i \in ApprovalIds : i # c.id => sigs'[i] = sigs[i]
          /\ \A sig \in sigs'[c.id] : sig \in sigs[c.id] \/ sig = c.sig
      BY <2>1, <3>1, <3>2 DEF SigningTypeOK, Session
    <3>4. SigningTypeOK'
      BY <2>1, <3>1, <3>2, <3>3 DEF SigningTypeOK
    <3>5. CallsKnown'
      <4>1. ASSUME NEW x \in DOMAIN session'
            PROVE  CallKnown(session[x])' 
        <5>1. CASE x = s
          BY <2>1, <3>1, <3>2, <3>3, <5>1 DEF CallKnown, ReplayStages
        <5>2. CASE x # s
          <6>1. x \in DOMAIN session /\ session'[x] = session[x] /\ session[x].id \in ApprovalIds
            BY <3>1, <5>2 DEF SigningTypeOK, Session
          <6> QED BY <2>1, <3>3, <6>1 DEF Known, CallsKnown, CallKnown
        <5> QED BY <5>1, <5>2
      <4> QED BY <4>1 DEF CallsKnown
    <3>6. SignaturesApart'
      BY <2>1, <2>3, <3>3 DEF Known, SignaturesApart, SigningTypeOK
    <3> QED BY <2>1, <3>3, <3>4, <3>5, <3>6 DEF Known, ApprovalsForTwo, Frame, SigningTypeOK
  <2> QED BY <2>2, <2>3
<1>6. ASSUME NEW s \in Sessions, SignStatus(s)
      PROVE  Goal
  <2> DEFINE c == session[s]
             status == IF c.sig.decision = "APPROVE" THEN "APPROVED" ELSE "REJECTED"
             row == [entity |-> approvals[c.id].entity, from |-> approvals[c.id].from,
                     to |-> approvals[c.id].to, maker |-> approvals[c.id].maker,
                     status |-> status]
  <2>1. /\ s \in DOMAIN session /\ c.id \in DOMAIN approvals
        /\ approvals' = [approvals EXCEPT ![c.id] = row] /\ End(s)
        /\ UNCHANGED <<log, stop, sigs, late>>
    BY <1>6 DEF SignStatus, At, Known, CallsKnown, CallKnown
  <2>2. approvals[c.id] \in Approval
    BY <2>1 DEF SigningTypeOK
  <2>3. row \in Approval
    BY <2>2 DEF Approval, Statuses
  <2>4. /\ row.entity = approvals[c.id].entity /\ row.from = approvals[c.id].from
        /\ row.to = approvals[c.id].to /\ row.maker = approvals[c.id].maker
    OBVIOUS
  <2> HIDE DEF row
  <2>5. Frame
    BY <2>1, <2>4 DEF Frame
  <2>6. DOMAIN approvals' = DOMAIN approvals
    BY <2>1
  <2>7. SigningTypeOK'
    BY <2>1, <2>3 DEF SigningTypeOK, End
  <2>8. CallsKnown'
    BY <2>1, <2>6 DEF Known, CallsKnown, CallKnown, End
  <2>9. SignaturesApart'
    <3>1. \A id \in DOMAIN approvals : approvals'[id].maker = approvals[id].maker
      BY <2>5 DEF Frame
    <3> QED BY <2>1, <2>6, <3>1 DEF Known, SignaturesApart
  <2>10. ApprovalsForTwo'
    BY <2>5, <2>6 DEF Known, ApprovalsForTwo, ForTwoPeople, Frame
  <2> QED BY <2>5, <2>7, <2>8, <2>9, <2>10 DEF Known
<1>7. ASSUME NEW s \in Sessions, \/ ReplayLock(s) \/ ReplayMarker(s) \/ ReplayFreeze(s)
                                 \/ ReplaySanction(s) \/ Drop(s)
      PROVE  Goal
  <2>1. s \in DOMAIN session /\ UNCHANGED <<approvals, log, stop, sigs, late>>
    BY <1>7 DEF ReplayLock, ReplayMarker, ReplayFreeze, ReplaySanction, Drop, At
  <2>2. CASE End(s)
    BY <2>1, <2>2, CallEnds DEF SigningTypeOK
  <2>3. ASSUME NEW pc \in ReplayStages, Proceed(s, pc), session[s].pc \in ReplayStages
        PROVE  Goal
    BY <2>1, <2>3, CallAdvances
  <2> QED BY <1>7, <2>2, <2>3
          DEF ReplayLock, ReplayMarker, ReplayFreeze, ReplaySanction, Drop, At, ReplayStages
<1>8. ASSUME NEW s \in Sessions, ReplayApply(s)
      PROVE  Goal
  <2> DEFINE c == session[s]
             row == approvals[c.id]
             new == [from |-> row.from, to |-> row.to, actor |-> "CHECKER", via |-> c.id]
  <2>1. /\ s \in DOMAIN session /\ c \in Session /\ c.id \in DOMAIN approvals /\ row \in Approval
        /\ End(s) /\ UNCHANGED <<approvals, stop, sigs, late>>
        /\ log' \in {log, [log EXCEPT ![row.entity] = Append(@, new)]}
    BY <1>8 DEF ReplayApply, At, SigningTypeOK, Known, CallsKnown, CallKnown
  <2>2. new \in LogRow
    BY <2>1 DEF LogRow, Approval, Session, ActorTypes
  <2>3. log' \in [Entities -> Seq(LogRow)]
    <3>1. row.entity \in Entities
      BY <2>1 DEF Approval
    <3>2. Append(log[row.entity], new) \in Seq(LogRow)
      BY <2>2, <3>1 DEF SigningTypeOK
    <3> HIDE DEF row, new
    <3> QED BY <2>1, <3>2 DEF SigningTypeOK
  <2> QED BY <2>1, <2>3, CallEnds
<1>9. ASSUME NEW id \in ApprovalIds, Expire(id)
      PROVE  Goal
  <2>1. UNCHANGED <<approvals, log, stop, sigs, session>> /\ late' \subseteq ApprovalIds
    BY <1>9 DEF Expire, SigningTypeOK
  <2>2. SigningTypeOK'
    BY <2>1 DEF SigningTypeOK
  <2> QED BY <2>1, <2>2 DEF Known, CallsKnown, CallKnown, SignaturesApart, ApprovalsForTwo, Frame
<1>10. ASSUME NEW e \in Entities, NEW k \in StopKinds, Impose(e, k)
       PROVE  Goal
  <2>1. UNCHANGED <<approvals, log, sigs, late, session>> /\ stop' \in [Entities -> SUBSET StopKinds]
    BY <1>10 DEF Impose, SigningTypeOK
  <2>2. SigningTypeOK'
    BY <2>1 DEF SigningTypeOK
  <2> QED BY <2>1, <2>2 DEF Known, CallsKnown, CallKnown, SignaturesApart, ApprovalsForTwo, Frame
<1>11. ASSUME NEW e \in Entities, NEW k \in StopKinds, Lift(e, k)
       PROVE  Goal
  <2>1. UNCHANGED <<approvals, log, sigs, late>> /\ stop' \in [Entities -> SUBSET StopKinds]
        /\ DOMAIN session' = DOMAIN session
    BY <1>11 DEF Lift, SigningTypeOK
  <2>2. ASSUME NEW s \in DOMAIN session
        PROVE  /\ session'[s] \in Session /\ session'[s].pc = session[s].pc
               /\ session'[s].id = session[s].id /\ session'[s].sig = session[s].sig
    <3>1. session[s] \in Session
      BY DEF SigningTypeOK
    <3>2. session'[s] \in {session[s], [session[s] EXCEPT !.clear = @ \cup {k}]}
      BY <1>11 DEF Lift
    <3> QED BY <3>1, <3>2 DEF Session
  <2>3. SigningTypeOK'
    BY <1>11, <2>1, <2>2 DEF SigningTypeOK, Lift
  <2>4. CallsKnown'
    BY <2>1, <2>2 DEF Known, CallsKnown, CallKnown
  <2> QED BY <2>1, <2>3, <2>4 DEF Known, SignaturesApart, ApprovalsForTwo, Frame
<1> QED BY <1>1, <1>2, <1>3, <1>4, <1>5, <1>6, <1>7, <1>8, <1>9, <1>10, <1>11
       DEF SigningNext, SignOrReplay

(* Types are right, and every call in progress and every signature belongs *)
(* to an approval that is there.                                           *)
THEOREM SigningTypeCorrect == SigningSpec => [](SigningTypeOK /\ Known)
<1>1. SigningInit => SigningTypeOK /\ Known
  BY DEF SigningInit, SigningTypeOK, Known, CallsKnown, SignaturesApart, ApprovalsForTwo
<1>2. SigningTypeOK /\ Known /\ [SigningNext]_signingVars => (SigningTypeOK /\ Known)'
  BY StepKeepsKnown
<1> QED BY <1>1, <1>2, PTL DEF SigningSpec

-----------------------------------------------------------------------------
LEMMA StepKeepsDecisions ==
  ASSUME SigningTypeOK, Known, [SigningNext]_signingVars, DecisionHasSignature
  PROVE  DecisionHasSignature'
<1> DEFINE Signed(id, decision) == \E sig \in sigs[id] : sig.decision = decision
<1>1. Frame
  BY StepKeepsKnown
<1>2. ASSUME \A id \in DOMAIN approvals' :
               \/ (id \in DOMAIN approvals /\ approvals'[id].status = approvals[id].status)
               \/ approvals'[id].status = "REQUESTED"
      PROVE  DecisionHasSignature'
  BY <1>1, <1>2 DEF Frame, DecisionHasSignature
<1>3. CASE approvals' = approvals
  BY <1>2, <1>3
<1>4. ASSUME NEW id \in ApprovalIds, NEW e \in Entities, NEW edge \in Edges, NEW c \in Callers,
             Submit(id, e, edge, c)
      PROVE  DecisionHasSignature'
  BY <1>2, <1>4 DEF Submit
<1>5. ASSUME NEW s \in Sessions, SignStatus(s)
      PROVE  DecisionHasSignature'
  <2> DEFINE c == session[s]
             row == [entity |-> approvals[c.id].entity, from |-> approvals[c.id].from,
                     to |-> approvals[c.id].to, maker |-> approvals[c.id].maker,
                     status |-> IF c.sig.decision = "APPROVE" THEN "APPROVED" ELSE "REJECTED"]
  <2>1. /\ s \in DOMAIN session /\ c \in Session
        /\ approvals' = [approvals EXCEPT ![c.id] = row] /\ sigs' = sigs
        /\ c.sig \in sigs[c.id]
    BY <1>5 DEF SignStatus, At, SigningTypeOK, Known, CallsKnown, CallKnown
  <2>2. c.sig.decision \in {"APPROVE", "REJECT"}
    BY <2>1 DEF Session, Signature, Decisions
  <2>3. row.status = IF c.sig.decision = "APPROVE" THEN "APPROVED" ELSE "REJECTED"
    OBVIOUS
  <2> HIDE DEF row
  <2> QED BY <2>1, <2>2, <2>3 DEF DecisionHasSignature
<1> QED BY <1>3, <1>4, <1>5
       DEF SigningNext, SignOrReplay, signingVars, SignRead, ReplayRead, SignInsert, ReplayLock, ReplayMarker,
           ReplayFreeze, ReplaySanction, ReplayApply, Drop, Expire, Impose, Lift

(* The status column of an approval never runs ahead of its signatures,    *)
(* whichever statement of signApproval is the last to run.                 *)
THEOREM DecisionsSigned == SigningSpec => []DecisionHasSignature
<1>1. SigningInit => DecisionHasSignature
  BY DEF SigningInit, DecisionHasSignature
<1>2. SigningTypeOK /\ Known /\ DecisionHasSignature /\ [SigningNext]_signingVars => DecisionHasSignature'
  BY StepKeepsDecisions
<1> QED BY <1>1, <1>2, SigningTypeCorrect, PTL DEF SigningSpec

-----------------------------------------------------------------------------
(* What a log row that names an approval says.                             *)
Backed(row, e) ==
  row.via # None => /\ row.via \in DOMAIN approvals
                    /\ approvals[row.via].entity = e
                    /\ approvals[row.via].maker.user # None
                    /\ Countersigned(row.via)

(* What a replay writes, when it writes at all: the log row of an approval *)
(* that somebody else than its maker has signed.                           *)
ReplayRow(id) == [from |-> approvals[id].from, to |-> approvals[id].to, actor |-> "CHECKER",
                  via |-> id]

LEMMA ReplayWrites ==
  ASSUME SigningTypeOK, Known, NEW s \in Sessions, ReplayApply(s), log' # log
  PROVE  LET id == session[s].id
             e  == approvals[id].entity
         IN /\ s \in DOMAIN session /\ session[s].pc = "apply"
            /\ id \in ApprovalIds /\ id \in DOMAIN approvals /\ e \in Entities
            /\ ForTwoPeople(approvals[id])
            /\ approvals[id].maker.user # None
            /\ Countersigned(id)
            /\ ReplayRow(id) \in LogRow
            /\ log' = [log EXCEPT ![e] = Append(@, ReplayRow(id))]
<1> DEFINE c == session[s]
           row == approvals[c.id]
           q == ReplayInput(row, c.sig.signer)
<1>1. /\ s \in DOMAIN session /\ c.pc = "apply" /\ c \in Session /\ c.id \in DOMAIN approvals
      /\ row \in Approval /\ c.sig \in sigs[c.id] /\ c.sig.decision = "APPROVE"
  BY DEF ReplayApply, At, SigningTypeOK, Known, CallsKnown, CallKnown, ReplayStages
<1>2. Verdict(q) = "APPLIED" /\ log' = [log EXCEPT ![row.entity] = Append(@, ReplayRow(c.id))]
  BY DEF ReplayApply, ReplayRow
<1>3. ForTwoPeople(row) /\ ForTwoPeople(q) /\ q.maker = row.maker.user
  BY <1>1 DEF Known, ApprovalsForTwo, ForTwoPeople, ReplayInput
<1>4. row.maker.user # None
  <2> HIDE DEF q
  <2> QED BY <1>2, <1>3, AppliedHasMaker
<1>5. Countersigned(c.id)
  BY <1>1 DEF Countersigned, Known, SignaturesApart
<1>6. row.entity \in Entities /\ c.id \in ApprovalIds /\ ReplayRow(c.id) \in LogRow
  BY <1>1 DEF Approval, LogRow, Session, ActorTypes, ReplayRow
<1> QED BY <1>1, <1>2, <1>3, <1>4, <1>5, <1>6

LEMMA AppendedRow ==
  ASSUME log \in [Entities -> Seq(LogRow)], NEW x \in Entities, NEW new \in LogRow,
         log' = [log EXCEPT ![x] = Append(@, new)], NEW e \in Entities
  PROVE  /\ e # x => log'[e] = log[e]
         /\ e = x => /\ Len(log[e]) \in Nat /\ Len(log'[e]) = Len(log[e]) + 1
                     /\ log'[e][Len(log[e]) + 1] = new
                     /\ \A i \in 1..Len(log[e]) : log'[e][i] = log[e][i]
                     /\ \A i \in 1..Len(log'[e]) : i \in 1..Len(log[e]) \/ i = Len(log[e]) + 1
<1>1. CASE e = x
  <2>1. log[e] \in Seq(LogRow) /\ log'[e] = Append(log[e], new)
    BY <1>1
  <2> QED BY <1>1, <2>1
<1>2. CASE e # x
  BY <1>2
<1> QED BY <1>1, <1>2

LEMMA StepKeepsReplays ==
  ASSUME SigningTypeOK, Known, [SigningNext]_signingVars, ReplayIsCountersigned
  PROVE  ReplayIsCountersigned'
<1>1. Frame
  BY StepKeepsKnown
<1>2. ASSUME NEW e \in Entities, NEW row, Backed(row, e)
      PROVE  /\ row.via # None =>
                  /\ row.via \in DOMAIN approvals'
                  /\ approvals'[row.via].entity = e
                  /\ approvals'[row.via].maker.user # None
                  /\ Countersigned(row.via)'
  BY <1>1, <1>2 DEF Backed, Frame, Countersigned
<1>3. \A e \in Entities : \A i \in 1..Len(log[e]) : Backed(log[e][i], e)
  BY DEF ReplayIsCountersigned, Backed
<1>4. CASE log' = log
  BY <1>2, <1>3, <1>4 DEF ReplayIsCountersigned
<1>5. ASSUME NEW s \in Sessions, ReplayApply(s), log' # log
      PROVE  ReplayIsCountersigned'
  <2> DEFINE x   == approvals[session[s].id].entity
             new == ReplayRow(session[s].id)
  <2>1. /\ x \in Entities /\ new \in LogRow /\ log' = [log EXCEPT ![x] = Append(@, new)]
        /\ Backed(new, x)
    BY <1>5, ReplayWrites DEF Backed, ReplayRow
  <2> HIDE DEF x, new
  <2>2. ASSUME NEW e \in Entities, NEW i \in 1..Len(log'[e])
        PROVE  Backed(log'[e][i], e)
    BY <1>3, <2>1, <2>2, AppendedRow DEF SigningTypeOK
  <2> QED BY <1>2, <2>2 DEF ReplayIsCountersigned
<1> QED BY <1>4, <1>5
       DEF SigningNext, SignOrReplay, signingVars, Submit, SignRead, ReplayRead, SignInsert, SignStatus,
           ReplayLock, ReplayMarker, ReplayFreeze, ReplaySanction, Drop, Expire, Impose, Lift

(* D-021-C end to end: a replayed transition was asked for by a tenant user *)
(* and approved by a principal other than the one who asked.               *)
THEOREM ReplaysCountersigned == SigningSpec => []ReplayIsCountersigned
<1>1. SigningInit => ReplayIsCountersigned
  BY DEF SigningInit, ReplayIsCountersigned
<1>2. SigningTypeOK /\ Known /\ ReplayIsCountersigned /\ [SigningNext]_signingVars => ReplayIsCountersigned'
  BY StepKeepsReplays
<1> QED BY <1>1, <1>2, SigningTypeCorrect, PTL DEF SigningSpec

-----------------------------------------------------------------------------
(* clear holds whatever is not blocking the entity now, and what a passed  *)
(* check of the replay has seen.                                           *)
CallClear(c) ==
  /\ StopKinds \ stop[approvals[c.id].entity] \subseteq c.clear
  /\ c.pc \in {"sanction", "apply"} => "FREEZE" \in c.clear
  /\ c.pc = "apply" => "SANCTION" \in c.clear

CallsClear == \A s \in DOMAIN session : CallClear(session[s])

LEMMA SameCallKeepsClear ==
  ASSUME SigningTypeOK, Known, [SigningNext]_signingVars, CallsClear, stop' = stop,
         \A s \in DOMAIN session' : s \in DOMAIN session /\ session'[s] = session[s]
  PROVE  CallsClear'
<1>1. Frame
  BY StepKeepsKnown
<1> QED BY <1>1 DEF Frame, Known, CallsKnown, CallKnown, CallsClear, CallClear

LEMMA NewCallKeepsClear ==
  ASSUME CallsClear, UNCHANGED <<approvals, stop>>, NEW s, NEW c, Start(s, c), CallClear(c)
  PROVE  CallsClear'
BY DEF Start, CallsClear, CallClear

LEMMA ProceedKeepsClear ==
  ASSUME CallsClear, UNCHANGED <<approvals, stop>>, NEW s \in DOMAIN session, NEW pc, Proceed(s, pc),
         pc \in {"sanction", "apply"} =>
           \/ "FREEZE" \notin stop[approvals[session[s].id].entity]
           \/ session[s].pc \in {"sanction", "apply"},
         pc = "apply" => "SANCTION" \notin stop[approvals[session[s].id].entity]
  PROVE  CallsClear'
<1> DEFINE c == [pc |-> pc, id |-> session[s].id, sig |-> session[s].sig,
                 clear |-> session[s].clear]
<1>1. session' = [session EXCEPT ![s] = c]
  BY DEF Proceed
<1>2. c.pc = pc /\ c.id = session[s].id /\ c.clear = session[s].clear
  OBVIOUS
<1> HIDE DEF c
<1>3. CallClear(c)
  BY <1>2 DEF CallsClear, CallClear, StopKinds
<1> QED BY <1>1, <1>3 DEF CallsClear, CallClear

LEMMA StepKeepsCallsClear ==
  ASSUME SigningTypeOK, Known, [SigningNext]_signingVars, CallsClear
  PROVE  CallsClear'
<1>1. CASE UNCHANGED signingVars
  BY <1>1, SameCallKeepsClear DEF signingVars
<1>2. ASSUME NEW id \in ApprovalIds, NEW e \in Entities, NEW edge \in Edges, NEW c \in Callers,
             Submit(id, e, edge, c)
      PROVE  CallsClear'
  BY <1>2, SameCallKeepsClear DEF Submit
<1>3. ASSUME NEW s \in Sessions, NEW id \in ApprovalIds, NEW p \in SigningAs, NEW d \in Decisions,
             SignRead(s, id, [signer |-> p, decision |-> d])
      PROVE  CallsClear'
  <2> DEFINE c == [pc |-> "insert", id |-> id, sig |-> [signer |-> p, decision |-> d],
                   clear |-> Clear(id)]
  <2>1. CallClear(c)
    BY DEF CallClear, Clear
  <2> QED BY <1>3, <2>1, NewCallKeepsClear DEF SignRead
<1>4. ASSUME NEW s \in Sessions, NEW id \in ApprovalIds, NEW sig \in sigs[id], ReplayRead(s, id, sig)
      PROVE  CallsClear'
  <2> DEFINE c == [pc |-> "lock", id |-> id, sig |-> sig, clear |-> Clear(id)]
  <2>1. CallClear(c)
    BY DEF CallClear, Clear
  <2> QED BY <1>4, <2>1, NewCallKeepsClear DEF ReplayRead
<1>5. ASSUME NEW s \in Sessions, End(s), stop' = stop
      PROVE  CallsClear'
  BY <1>5, SameCallKeepsClear DEF End
<1>6. ASSUME NEW s \in Sessions, SignInsert(s)
      PROVE  CallsClear'
  <2>1. CASE Proceed(s, "status")
    BY <1>6, <2>1, ProceedKeepsClear DEF SignInsert, At
  <2> QED BY <1>5, <1>6, <2>1 DEF SignInsert
<1>7. ASSUME NEW s \in Sessions, SignStatus(s) \/ ReplayApply(s) \/ Drop(s)
      PROVE  CallsClear'
  BY <1>5, <1>7 DEF SignStatus, ReplayApply, Drop
<1>8. ASSUME NEW s \in Sessions, ReplayLock(s) \/ ReplayMarker(s)
      PROVE  CallsClear'
  <2>1. CASE Proceed(s, "marker") \/ Proceed(s, "freeze")
    BY <1>8, <2>1, ProceedKeepsClear DEF ReplayLock, ReplayMarker, At
  <2> QED BY <1>5, <1>8, <2>1 DEF ReplayLock, ReplayMarker
<1>9. ASSUME NEW s \in Sessions, ReplayFreeze(s)
      PROVE  CallsClear'
  <2>1. CASE Proceed(s, "sanction") /\ "FREEZE" \notin stop[approvals[session[s].id].entity]
    BY <1>9, <2>1, ProceedKeepsClear DEF ReplayFreeze, At
  <2> QED BY <1>5, <1>9, <2>1 DEF ReplayFreeze
<1>10. ASSUME NEW s \in Sessions, ReplaySanction(s)
       PROVE  CallsClear'
  <2>1. CASE Proceed(s, "apply") /\ "SANCTION" \notin stop[approvals[session[s].id].entity]
    <3>1. session[s].pc = "sanction"
      BY <1>10 DEF ReplaySanction, At
    <3> QED BY <1>10, <2>1, <3>1, ProceedKeepsClear DEF ReplaySanction, At
  <2> QED BY <1>5, <1>10, <2>1 DEF ReplaySanction
<1>11. ASSUME NEW e \in Entities, NEW k \in StopKinds, Impose(e, k)
       PROVE  CallsClear'
  <2>1. /\ \A f \in Entities : stop[f] \subseteq stop'[f]
        /\ UNCHANGED <<approvals, session>>
    BY <1>11 DEF Impose, SigningTypeOK
  <2>2. \A s \in DOMAIN session : approvals[session[s].id].entity \in Entities
    BY DEF SigningTypeOK, Known, CallsKnown, CallKnown, Approval
  <2> QED BY <2>1, <2>2 DEF CallsClear, CallClear
<1>12. ASSUME NEW e \in Entities, NEW k \in StopKinds, Lift(e, k)
       PROVE  CallsClear'
  <2>1. ASSUME NEW s \in DOMAIN session
        PROVE  CallClear(session[s])'
    <3> DEFINE f == approvals[session[s].id].entity
    <3>1. session[s] \in Session /\ CallClear(session[s]) /\ f \in Entities /\ approvals' = approvals
      BY <1>12 DEF SigningTypeOK, CallsClear, Known, CallsKnown, CallKnown, Approval, Lift
    <3>2. CASE f # e
      <4>1. session'[s] = session[s] /\ stop'[f] = stop[f]
        BY <1>12, <3>1, <3>2 DEF Lift, SigningTypeOK
      <4> QED BY <3>1, <4>1 DEF CallClear
    <3>3. CASE f = e
      <4>1. /\ session'[s].id = session[s].id /\ session'[s].pc = session[s].pc
            /\ session'[s].clear = session[s].clear \cup {k}
            /\ stop'[f] = stop[f] \ {k}
        BY <1>12, <3>1, <3>3 DEF Lift, SigningTypeOK, Session
      <4> QED BY <3>1, <3>3, <4>1 DEF CallClear
    <3> QED BY <3>2, <3>3
  <2>2. DOMAIN session' = DOMAIN session
    BY <1>12 DEF Lift
  <2> QED BY <2>1, <2>2 DEF CallsClear
<1>13. ASSUME NEW id \in ApprovalIds, Expire(id)
       PROVE  CallsClear'
  BY <1>13, SameCallKeepsClear DEF Expire
<1> QED BY <1>1, <1>2, <1>3, <1>4, <1>6, <1>7, <1>8, <1>9, <1>10, <1>11, <1>12, <1>13
       DEF SigningNext, SignOrReplay

(* "Sanctions imposed after MAKER submission block the CHECKER replay": an *)
(* entity that stays sanctioned, or stays frozen, from the first read of a *)
(* replay on is not touched by it.                                         *)
THEOREM BlockedIsNotReplayed == SigningSpec => []BlockedThroughoutIsNotReplayed
<1>1. SigningInit => CallsClear
  BY DEF SigningInit, CallsClear
<1>2. SigningTypeOK /\ Known /\ CallsClear /\ [SigningNext]_signingVars => CallsClear'
  BY StepKeepsCallsClear
<1>3. SigningTypeOK /\ CallsClear => BlockedThroughoutIsNotReplayed
  BY DEF SigningTypeOK, Session, CallsClear, CallClear, BlockedThroughoutIsNotReplayed, StopKinds
<1> QED BY <1>1, <1>2, <1>3, SigningTypeCorrect, PTL DEF SigningSpec
-----------------------------------------------------------------------------
(* What the pipeline may write: a log row of its own for an edge that needs *)
(* one person, an approval request for an edge that needs two.             *)
ForOnePerson(row) == \E e \in Edges : e.from = row.from /\ e.to = row.to /\ ~e.mc

Rightful(t) ==
  /\ t.pc = "request" => ForTwoPeople(t)
  /\ t.rows # << >> => ForOnePerson(t)
  /\ \A d \in t.draft : ForTwoPeople(d.row)

AllRightful == \A r \in DOMAIN tx : Rightful(tx[r])

LEMMA AppliedIsForOne ==
  ASSUME NEW q, Verdict(q) = "APPLIED", q.maker = None
  PROVE  ForOnePerson(q)
<1>1. Declared(q) /\ ~(EdgeOf(q).mc /\ ~Completes(q)) /\ ~Completes(q)
  BY DEF Verdict, Completes
<1>2. PICK e \in Edges : e.from = q.from /\ e.to = q.to
  BY <1>1 DEF Declared
<1>3. EdgeOf(q) \in Edges /\ EdgeOf(q).from = q.from /\ EdgeOf(q).to = q.to
  BY <1>2 DEF EdgeOf
<1> QED BY <1>1, <1>3 DEF ForOnePerson

LEMMA ReplacedIsRightful ==
  ASSUME AllRightful, NEW r \in DOMAIN tx, NEW u, Rightful(u), tx' = [tx EXCEPT ![r] = u]
  PROVE  AllRightful'
BY DEF AllRightful

LEMMA StepKeepsRightful ==
  ASSUME TypeOK, AllStaged, AllRightful, [Next]_vars
  PROVE  AllRightful'
<1>1. CASE UNCHANGED vars
  BY <1>1 DEF vars, AllRightful
<1>2. ASSUME NEW r \in Reqs, NEW e \in Entities, NEW c \in Callers, NEW to \in Targets,
             NEW ai \in AiChoices, Begin(r, e, c, to, ai)
      PROVE  AllRightful'
  <2>1. /\ DOMAIN tx' = DOMAIN tx \cup {r}
        /\ \A s \in DOMAIN tx : tx'[s] = tx[s]
        /\ tx'[r].pc = "gate" /\ tx'[r].rows = << >> /\ tx'[r].draft = {}
    BY <1>2 DEF Begin
  <2> QED BY <2>1 DEF AllRightful, Rightful
<1>3. ASSUME NEW r \in DOMAIN tx, NEW answer, Answer(r, answer)
      PROVE  AllRightful'
  <2>1. Rightful(Advance(tx[r], "reply", << >>, None, {}, answer))
    BY DEF Rightful, Advance
  <2> QED BY <1>3, <2>1, ReplacedIsRightful DEF Answer
<1>4. ASSUME NEW r \in DOMAIN tx, NEW pc, Goto(r, pc), pc = "request" => ForTwoPeople(tx[r])
      PROVE  AllRightful'
  <2>1. Rightful(Advance(tx[r], pc, << >>, None, {}, "NONE"))
    BY <1>4 DEF Rightful, Advance, ForTwoPeople
  <2> QED BY <1>4, <2>1, ReplacedIsRightful DEF Goto
<1>5. ASSUME NEW r \in Reqs, FreezeGate(r) \/ SanctionCheck(r)
      PROVE  AllRightful'
  BY <1>3, <1>4, <1>5 DEF FreezeGate, SanctionCheck, Open
<1>6. ASSUME NEW r \in Reqs, Govern(r)
      PROVE  AllRightful'
  <2> DEFINE t == tx[r]
  <2>1. r \in DOMAIN tx
    BY <1>6 DEF Govern, Open
  <2>2. Input(t).from = t.from /\ Input(t).to = t.to /\ Input(t).maker = None
    BY DEF Input
  <2>3. CASE Judge(t) = "APPLIED"
    <3>1. ForOnePerson(Input(t))
      BY <2>2, <2>3, AppliedIsForOne DEF Judge
    <3>2. ForOnePerson(t)
      BY <2>2, <3>1 DEF ForOnePerson
    <3>3. Rightful(Advance(t, "update", << Row(t) >>, None, {}, "NONE"))
      BY <3>2 DEF Rightful, Advance, ForOnePerson
    <3>4. tx' = [tx EXCEPT ![r] = Advance(tx[r], "update", << Row(t) >>, None, {}, "NONE")]
      BY <1>6, <2>3 DEF Govern
    <3> QED BY <2>1, <3>3, <3>4, ReplacedIsRightful
  <2>4. CASE Judge(t) = "PENDING_APPROVAL"
    <3>1. ForTwoPeople(Input(t))
      BY <2>4, HeldBackIsForTwo DEF Judge
    <3>2. ForTwoPeople(t)
      BY <2>2, <3>1 DEF ForTwoPeople
    <3> QED BY <1>4, <1>6, <2>1, <2>4, <3>2 DEF Govern
  <2>5. CASE Judge(t) \notin {"APPLIED", "PENDING_APPROVAL"}
    BY <1>3, <1>6, <2>1, <2>5 DEF Govern
  <2> QED BY <2>3, <2>4, <2>5
<1>7. ASSUME NEW r \in Reqs, UpdateEntity(r)
      PROVE  AllRightful'
  <2>1. /\ r \in DOMAIN tx /\ Rightful(tx[r])
        /\ tx' = [tx EXCEPT ![r] = Advance(tx[r], "commit", tx[r].rows, tx[r].to, {}, "NONE")]
    BY <1>7 DEF UpdateEntity, Open, AllRightful
  <2>2. Rightful(Advance(tx[r], "commit", tx[r].rows, tx[r].to, {}, "NONE"))
    BY <2>1 DEF Rightful, Advance, ForOnePerson
  <2> QED BY <2>1, <2>2, ReplacedIsRightful
<1>8. ASSUME NEW r \in Reqs, RequestApproval(r)
      PROVE  AllRightful'
  <2>1. r \in DOMAIN tx /\ ForTwoPeople(tx[r])
    BY <1>8 DEF RequestApproval, Open, AllRightful, Rightful
  <2>2. ASSUME NEW id \in ApprovalIds, tx' = [tx EXCEPT ![r] = Drafted(tx[r], id)]
        PROVE  AllRightful'
    <3>1. tx' = [tx EXCEPT ![r] = Advance(tx[r], "commit", << >>, None, {Draft(id, tx[r])}, "NONE")]
      BY <2>2 DEF Drafted
    <3>2. Rightful(Advance(tx[r], "commit", << >>, None, {Draft(id, tx[r])}, "NONE"))
      BY <2>1 DEF Rightful, Advance, Draft, ForTwoPeople
    <3> QED BY <2>1, <3>1, <3>2, ReplacedIsRightful
  <2> QED BY <1>3, <1>8, <2>1, <2>2 DEF RequestApproval
<1>9. ASSUME NEW r \in Reqs, Commit(r)
      PROVE  AllRightful'
  BY <1>3, <1>9 DEF Commit, Open
<1>10. ASSUME NEW r \in Reqs, Reply(r) \/ Lose(r)
       PROVE  AllRightful'
  BY <1>10 DEF Reply, Lose, Forget, AllRightful
<1>11. ASSUME NEW e \in Entities, NEW k \in StopKinds, Block(e, k)
       PROVE  AllRightful'
  BY <1>11 DEF Block, AllRightful
<1>12. ASSUME NEW e \in Entities, NEW k \in StopKinds, Unblock(e, k)
       PROVE  AllRightful'
  <2>1. ASSUME NEW s \in DOMAIN tx
        PROVE  Rightful(tx'[s])
    <3>1. tx[s] \in Request /\ Rightful(tx[s])
      BY DEF TypeOK, AllRightful
    <3>2. tx'[s] = IF tx[s].entity = e THEN [tx[s] EXCEPT !.clear = @ \cup {k}] ELSE tx[s]
      BY <1>12 DEF Unblock
    <3>3. /\ tx'[s].pc = tx[s].pc /\ tx'[s].rows = tx[s].rows /\ tx'[s].draft = tx[s].draft
          /\ tx'[s].from = tx[s].from /\ tx'[s].to = tx[s].to
      BY <3>1, <3>2 DEF Request
    <3> QED BY <3>1, <3>3 DEF Rightful, ForTwoPeople, ForOnePerson
  <2>2. DOMAIN tx' = DOMAIN tx
    BY <1>12 DEF Unblock
  <2> QED BY <2>1, <2>2 DEF AllRightful
<1> QED BY <1>1, <1>2, <1>5, <1>6, <1>7, <1>8, <1>9, <1>10, <1>11, <1>12 DEF Next, Progress

(* Whatever a step of either component does, the invariants of both hold.  *)
Together == TypeOK /\ AllStaged /\ AllRightful /\ SigningTypeOK /\ Known

LEMMA CommitKeepsKnown ==
  ASSUME Together, NEW r \in Reqs, Commit(r), UNCHANGED <<sigs, late, session>>
  PROVE  Known' /\ Frame
<1>1. CASE approvals' = approvals
  BY <1>1 DEF Together, Known, CallsKnown, CallKnown, SignaturesApart, ApprovalsForTwo, Frame
<1>2. ASSUME NEW id \in ApprovalIds,
             tx[r].draft = {Draft(id, tx[r])},
             DOMAIN approvals' = DOMAIN approvals \cup {id},
             \A i \in DOMAIN approvals : approvals'[i] = approvals[i],
             id \notin DOMAIN approvals => approvals'[id] = Draft(id, tx[r]).row
      PROVE  Known' /\ Frame
  <2>1. ForTwoPeople(Draft(id, tx[r]).row)
    BY <1>2, CommitPublishes DEF Together, AllRightful, Rightful
  <2>2. ApprovalsForTwo'
    BY <1>2, <2>1 DEF Together, Known, ApprovalsForTwo
  <2>3. CallsKnown'
    BY <1>2 DEF Together, Known, CallsKnown, CallKnown
  <2>4. SignaturesApart'
    BY <1>2 DEF Together, Known, SignaturesApart
  <2> QED BY <1>2, <2>2, <2>3, <2>4 DEF Known, Frame
<1> QED BY <1>1, <1>2, CommitPublishes DEF Together

LEMMA StepKeepsTogether ==
  ASSUME Together, [GovernedNext]_governedVars
  PROVE  Together' /\ Frame
<1>1. CASE UNCHANGED governedVars
  <2>1. UNCHANGED vars /\ UNCHANGED signingVars
    BY <1>1 DEF governedVars, vars, signingVars
  <2> QED BY <2>1, StepKeepsStages, StepKeepsRightful, StepKeepsKnown DEF Together
<1>2. CASE RequestStep
  <2>1. Next /\ UNCHANGED <<sigs, late, session>>
    BY <1>2 DEF RequestStep, Next
  <2>2. TypeOK' /\ AllStaged' /\ AllRightful'
    BY <2>1, StepKeepsStages, StepKeepsRightful DEF Together
  <2>3. SigningTypeOK'
    BY <2>1, <2>2 DEF Together, SigningTypeOK, TypeOK
  <2>4. CASE approvals' = approvals
    BY <2>1, <2>2, <2>3, <2>4
       DEF Together, Known, CallsKnown, CallKnown, SignaturesApart, ApprovalsForTwo, Frame
  <2>5. ASSUME NEW r \in Reqs, Commit(r)
        PROVE  Together' /\ Frame
    BY <2>1, <2>2, <2>3, <2>5, CommitKeepsKnown DEF Together
  <2> QED BY <2>1, <2>4, <2>5, StepKinds DEF Together, Quiet, Drafting
<1>3. CASE SigningStep
  <2>1. SigningNext /\ UNCHANGED <<state, tx>>
    BY <1>3 DEF SigningStep, SigningNext
  <2>2. SigningTypeOK' /\ Known' /\ Frame
    BY <2>1, StepKeepsKnown DEF Together
  <2>3. TypeOK' /\ AllStaged' /\ AllRightful'
    BY <2>1, <2>2 DEF Together, SigningTypeOK, TypeOK, AllStaged, AllRightful
  <2> QED BY <2>2, <2>3 DEF Together
<1>4. CASE StopStep
  <2>1. Next /\ SigningNext
    BY <1>4 DEF StopStep, Next, SigningNext
  <2> QED BY <2>1, StepKeepsStages, StepKeepsRightful, StepKeepsKnown DEF Together
<1> QED BY <1>1, <1>2, <1>3, <1>4 DEF GovernedNext

(* What a step of either component adds to a log: nothing, one row of the  *)
(* pipeline, or the row of a replay.                                       *)
PipelineRow(r) == /\ tx[r].entity \in Entities /\ Row(tx[r]) \in LogRow
                  /\ ForOnePerson(Row(tx[r]))
                  /\ log' = [log EXCEPT ![tx[r].entity] = Append(@, Row(tx[r]))]

LEMMA LogSteps ==
  ASSUME Together, [GovernedNext]_governedVars
  PROVE  \/ log' = log
         \/ \E r \in Reqs : PipelineRow(r) /\ UNCHANGED <<approvals, sigs, late, session>>
         \/ \E s \in Sessions : ReplayApply(s) /\ log' # log
<1>1. CASE UNCHANGED governedVars
  BY <1>1 DEF governedVars
<1>2. CASE RequestStep
  <2>1. Next /\ UNCHANGED <<sigs, late, session>>
    BY <1>2 DEF RequestStep, Next
  <2>2. ASSUME NEW r \in Reqs, Commit(r), log' # log
        PROVE  PipelineRow(r) /\ approvals' = approvals
    <3>1. /\ r \in DOMAIN tx /\ tx[r] \in Request /\ tx[r].draft = {} /\ approvals' = approvals
          /\ log' = [log EXCEPT ![tx[r].entity] = Append(@, Row(tx[r]))]
      BY <2>2, CommitPublishes DEF Together
    <3>2. tx[r].pc = "commit" /\ Staged(tx[r]) /\ Rightful(tx[r])
      BY <2>2, <3>1 DEF Commit, Open, Together, AllStaged, AllRightful
    <3>3. tx[r].rows = << Row(tx[r]) >> /\ tx[r].to \in States
      BY <3>1, <3>2 DEF Staged
    <3>4. tx[r].entity \in Entities /\ Row(tx[r]) \in LogRow
      BY <3>1, <3>3, RowTyped DEF Request
    <3>5. ForOnePerson(Row(tx[r]))
      BY <3>2, <3>3 DEF Rightful, ForOnePerson, Row
    <3> QED BY <3>1, <3>4, <3>5 DEF PipelineRow
  <2> QED BY <2>1, <2>2, StepKinds DEF Together, Quiet, Drafting
<1>3. CASE SigningStep
  BY <1>3 DEF SigningStep, SignOrReplay, SignRead, ReplayRead, SignInsert, SignStatus,
              ReplayLock, ReplayMarker, ReplayFreeze, ReplaySanction, Drop, Expire
<1>4. CASE StopStep
  BY <1>4 DEF StopStep, Impose, Lift
<1> QED BY <1>1, <1>2, <1>3, <1>4 DEF GovernedNext

LEMMA PipelineAppends ==
  ASSUME Together, NEW r \in Reqs, PipelineRow(r), NEW e \in Entities
  PROVE  /\ e # tx[r].entity => log'[e] = log[e]
         /\ e = tx[r].entity =>
              /\ log'[e][Len(log[e]) + 1] = Row(tx[r])
              /\ \A i \in 1..Len(log[e]) : log'[e][i] = log[e][i]
              /\ \A i \in 1..Len(log'[e]) : i \in 1..Len(log[e]) \/ i = Len(log[e]) + 1
<1>1. PICK x \in Entities, new \in LogRow :
        /\ x = tx[r].entity /\ new = Row(tx[r])
        /\ log' = [log EXCEPT ![x] = Append(@, new)]
  BY DEF PipelineRow
<1>2. log \in [Entities -> Seq(LogRow)]
  BY DEF Together, TypeOK
<1>3. e # x => log'[e] = log[e]
  BY <1>1, <1>2, AppendedRow
<1>4. e = x => /\ log'[e][Len(log[e]) + 1] = new
               /\ \A i \in 1..Len(log[e]) : log'[e][i] = log[e][i]
               /\ \A i \in 1..Len(log'[e]) : i \in 1..Len(log[e]) \/ i = Len(log[e]) + 1
  BY <1>1, <1>2, AppendedRow
<1> QED BY <1>1, <1>3, <1>4

LEMMA StepKeepsTwoPersonRule ==
  ASSUME Together, [GovernedNext]_governedVars, TwoPersonRule
  PROVE  TwoPersonRule'
<1>1. Frame
  BY StepKeepsTogether
<1>2. ASSUME NEW row, TakenRightly(row)
      PROVE  TakenRightly(row)'
  BY <1>1, <1>2 DEF TakenRightly, Frame, Countersigned
<1>3. CASE log' = log
  BY <1>2, <1>3 DEF TwoPersonRule
<1>4. ASSUME NEW x \in Entities, NEW new \in LogRow, log' = [log EXCEPT ![x] = Append(@, new)],
             TakenRightly(new)
      PROVE  TwoPersonRule'
  <2>1. ASSUME NEW e \in Entities, NEW i \in 1..Len(log'[e])
        PROVE  TakenRightly(log'[e][i])
    BY <1>4, <2>1, AppendedRow DEF Together, TypeOK, TwoPersonRule
  <2> QED BY <1>2, <2>1 DEF TwoPersonRule
<1>5. ASSUME NEW r \in Reqs, PipelineRow(r)
      PROVE  TwoPersonRule'
  <2>1. TakenRightly(Row(tx[r]))
    BY <1>5 DEF PipelineRow, ForOnePerson, TakenRightly, Row
  <2> QED BY <1>4, <1>5, <2>1 DEF PipelineRow
<1>6. ASSUME NEW s \in Sessions, ReplayApply(s), log' # log
      PROVE  TwoPersonRule'
  <2> DEFINE id  == session[s].id
             new == ReplayRow(id)
  <2>1. /\ id \in DOMAIN approvals /\ ForTwoPeople(approvals[id]) /\ Countersigned(id)
        /\ approvals[id].entity \in Entities /\ new \in LogRow
        /\ log' = [log EXCEPT ![approvals[id].entity] = Append(@, new)]
    BY <1>6, ReplayWrites DEF Together
  <2>2. new.from = approvals[id].from /\ new.to = approvals[id].to /\ new.via = id
    BY DEF ReplayRow
  <2> HIDE DEF id, new
  <2>3. TakenRightly(new)
    BY <2>1, <2>2 DEF TakenRightly, ForTwoPeople
  <2> QED BY <1>4, <2>1, <2>3
<1> QED BY <1>3, <1>5, <1>6, LogSteps

LEMMA GovernedInitOK ==
  ASSUME GovernedInit
  PROVE  Together /\ TwoPersonRule
<1>1. TypeOK /\ AllStaged /\ AllRightful
  BY LifecycleAssumption DEF GovernedInit, Init, TypeOK, AllStaged, AllRightful
<1>2. SigningTypeOK /\ Known
  BY DEF GovernedInit, SigningInit, SigningTypeOK, Known, CallsKnown, SignaturesApart, ApprovalsForTwo
<1>3. TwoPersonRule
  BY DEF GovernedInit, Init, TwoPersonRule
<1> QED BY <1>1, <1>2, <1>3 DEF Together

(* The two-person rule end to end: for every registry, and any number of   *)
(* requests, signatures and replays at once, the log never shows a         *)
(* maker-checker edge without a countersigned approval of that very edge.  *)
THEOREM TwoPersonRuleHolds == GovernedSpec => [](Together /\ TwoPersonRule)
<1>1. GovernedInit => Together /\ TwoPersonRule
  BY GovernedInitOK
<1>2. Together /\ TwoPersonRule /\ [GovernedNext]_governedVars => (Together /\ TwoPersonRule)'
  BY StepKeepsTogether, StepKeepsTwoPersonRule
<1> QED BY <1>1, <1>2, PTL DEF GovernedSpec

-----------------------------------------------------------------------------
(* With one signature or replay at a time, what a call read when it began  *)
(* still holds when it writes: the approval it signs is undecided, the one *)
(* it replays has left no row in the log.                                  *)
OneCall == \A s, x \in Sessions : s = x

SignsUndecided ==
  \A s \in DOMAIN session :
    session[s].pc \in {"insert", "status"} => approvals[session[s].id].status = "REQUESTED"

ReplaysUnreplayed ==
  \A s \in DOMAIN session :
    session[s].pc \in {"freeze", "sanction", "apply"} => ~Replayed(session[s].id)

(* Steps that are not of the maker-checker service leave its calls where   *)
(* they are, and every approval as it is.                                  *)
LEMMA OthersKeepSessions ==
  ASSUME Together, [GovernedNext]_governedVars
  PROVE  \/ SigningStep
         \/ /\ UNCHANGED <<sigs, late>> /\ DOMAIN session' = DOMAIN session
            /\ \A s \in DOMAIN session : /\ session'[s].pc = session[s].pc
                                         /\ session'[s].id = session[s].id
            /\ \A id \in DOMAIN approvals : id \in DOMAIN approvals' /\ approvals'[id] = approvals[id]
<1>1. CASE UNCHANGED governedVars
  BY <1>1 DEF governedVars
<1>2. CASE RequestStep
  <2>1. Next /\ UNCHANGED <<sigs, late, session>>
    BY <1>2 DEF RequestStep, Next
  <2>2. \A id \in DOMAIN approvals : id \in DOMAIN approvals' /\ approvals'[id] = approvals[id]
    BY <2>1, TablesGrow DEF Together
  <2> QED BY <2>1, <2>2
<1>3. ASSUME NEW e \in Entities, NEW k \in StopKinds, Impose(e, k)
      PROVE  UNCHANGED <<approvals, sigs, late, session>>
  BY <1>3 DEF Impose
<1>4. ASSUME NEW e \in Entities, NEW k \in StopKinds, Lift(e, k)
      PROVE  /\ UNCHANGED <<approvals, sigs, late>> /\ DOMAIN session' = DOMAIN session
             /\ \A s \in DOMAIN session : /\ session'[s].pc = session[s].pc
                                          /\ session'[s].id = session[s].id
  <2>1. ASSUME NEW s \in DOMAIN session
        PROVE  session'[s].pc = session[s].pc /\ session'[s].id = session[s].id
    <3>1. session[s] \in Session
      BY DEF Together, SigningTypeOK
    <3>2. session'[s] \in {session[s], [session[s] EXCEPT !.clear = @ \cup {k}]}
      BY <1>4 DEF Lift
    <3> QED BY <3>1, <3>2 DEF Session
  <2> QED BY <1>4, <2>1 DEF Lift
<1> QED BY <1>1, <1>2, <1>3, <1>4 DEF GovernedNext, StopStep

LEMMA StepKeepsUndecided ==
  ASSUME OneCall, Together, [GovernedNext]_governedVars, SignsUndecided
  PROVE  SignsUndecided'
<1>0. \A s \in DOMAIN session : s \in Sessions /\ session[s].id \in DOMAIN approvals
  BY DEF Together, SigningTypeOK, Known, CallsKnown, CallKnown
<1>1. CASE ~SigningStep
  BY <1>0, <1>1, OthersKeepSessions DEF SignsUndecided
<1>2. ASSUME NEW s \in Sessions, End(s), s \in DOMAIN session
      PROVE  SignsUndecided'
  <2>1. DOMAIN session' = {}
    BY <1>0, <1>2 DEF End, OneCall
  <2> QED BY <2>1 DEF SignsUndecided
<1>3. ASSUME NEW s \in Sessions, NEW c, Start(s, c), approvals' = approvals,
             c.pc \in {"insert", "status"} => approvals[c.id].status = "REQUESTED"
      PROVE  SignsUndecided'
  BY <1>3 DEF Start, SignsUndecided
<1>4. ASSUME NEW s \in DOMAIN session, NEW pc, Proceed(s, pc), approvals' = approvals,
             pc \in {"insert", "status"} => session[s].pc \in {"insert", "status"}
      PROVE  SignsUndecided'
  BY <1>4 DEF Proceed, SignsUndecided
<1>5. ASSUME NEW s \in Sessions, NEW id \in ApprovalIds, NEW p \in SigningAs, NEW d \in Decisions,
             SignRead(s, id, [signer |-> p, decision |-> d])
      PROVE  SignsUndecided'
  BY <1>3, <1>5 DEF SignRead
<1>6. ASSUME NEW s \in Sessions, NEW id \in ApprovalIds, NEW sig \in sigs[id], ReplayRead(s, id, sig)
      PROVE  SignsUndecided'
  BY <1>3, <1>6 DEF ReplayRead
<1>7. ASSUME NEW s \in Sessions, SignInsert(s)
      PROVE  SignsUndecided'
  BY <1>2, <1>4, <1>7 DEF SignInsert, At
<1>8. ASSUME NEW s \in Sessions, SignStatus(s) \/ ReplayApply(s) \/ Drop(s)
      PROVE  SignsUndecided'
  BY <1>2, <1>8 DEF SignStatus, ReplayApply, Drop, At
<1>9. ASSUME NEW s \in Sessions, ReplayLock(s) \/ ReplayMarker(s) \/ ReplayFreeze(s) \/ ReplaySanction(s)
      PROVE  SignsUndecided'
  BY <1>2, <1>4, <1>9 DEF ReplayLock, ReplayMarker, ReplayFreeze, ReplaySanction, At
<1>10. ASSUME NEW id \in ApprovalIds, Expire(id)
       PROVE  SignsUndecided'
  BY <1>10 DEF Expire, SignsUndecided
<1> QED BY <1>1, <1>5, <1>6, <1>7, <1>8, <1>9, <1>10 DEF SigningStep, SignOrReplay

LEMMA StepIsFinal ==
  ASSUME OneCall, Together, [GovernedNext]_governedVars, SignsUndecided
  PROVE  \A id \in DOMAIN approvals :
           approvals[id].status # "REQUESTED" =>
             sigs'[id] = sigs[id] /\ approvals'[id].status = approvals[id].status
<1>1. CASE UNCHANGED <<approvals, sigs>>
  BY <1>1
<1>2. CASE ~SigningStep
  BY <1>2, OthersKeepSessions
<1>3. ASSUME NEW s \in Sessions, SignInsert(s) \/ SignStatus(s)
      PROVE  LET id == session[s].id IN
             /\ approvals[id].status = "REQUESTED"
             /\ \A i \in DOMAIN approvals \ {id} : sigs'[i] = sigs[i] /\ approvals'[i] = approvals[i]
  <2>1. s \in DOMAIN session /\ session[s].pc \in {"insert", "status"}
    BY <1>3 DEF SignInsert, SignStatus, At
  <2>2. /\ DOMAIN approvals \subseteq ApprovalIds
        /\ approvals' = approvals \/ \E row : approvals' = [approvals EXCEPT ![session[s].id] = row]
        /\ sigs' = sigs \/ \E new : sigs' = [sigs EXCEPT ![session[s].id] = new]
        /\ sigs \in [ApprovalIds -> SUBSET Signature]
    BY <1>3 DEF SignInsert, SignStatus, Together, SigningTypeOK
  <2> QED BY <2>1, <2>2 DEF SignsUndecided
<1>4. CASE SigningStep /\ ~UNCHANGED <<approvals, sigs>>
  <2>1. \E s \in Sessions : SignInsert(s) \/ SignStatus(s)
    BY <1>4 DEF SigningStep, SignOrReplay, SignRead, ReplayRead, ReplayLock, ReplayMarker,
                ReplayFreeze, ReplaySanction, ReplayApply, Drop, Expire
  <2> QED BY <1>3, <2>1
<1> QED BY <1>1, <1>2, <1>4

(* "Only REQUESTED approvals can receive signatures": while signatures come *)
(* one at a time, a decided approval receives none and keeps its decision, *)
(* whatever the pipeline, replays and expiries do meanwhile.               *)
THEOREM DecisionsAreFinal ==
  ASSUME OneCall
  PROVE  GovernedSpec => DecisionIsFinal
<1>1. GovernedInit => SignsUndecided
  BY DEF GovernedInit, SigningInit, SignsUndecided
<1>2. Together /\ SignsUndecided /\ [GovernedNext]_governedVars => SignsUndecided'
  BY StepKeepsUndecided
<1>3. Together /\ SignsUndecided /\ [GovernedNext]_governedVars
        => [\A id \in DOMAIN approvals :
              approvals[id].status # "REQUESTED" =>
                sigs'[id] = sigs[id] /\ approvals'[id].status = approvals[id].status]_signingVars
  BY StepIsFinal
<1> QED BY <1>1, <1>2, <1>3, TwoPersonRuleHolds, PTL DEF GovernedSpec, DecisionIsFinal

-----------------------------------------------------------------------------
LEMMA AppendKeepsReplayedOnce ==
  ASSUME Together, ReplayedOnce, NEW x \in Entities, NEW new \in LogRow,
         log' = [log EXCEPT ![x] = Append(@, new)],
         new.via = None \/ \A i \in 1..Len(log[x]) : log[x][i].via # new.via
  PROVE  ReplayedOnce'
<1>1. ASSUME NEW e \in Entities, NEW i \in 1..Len(log'[e]), NEW j \in 1..Len(log'[e]),
             log'[e][i].via # None, log'[e][i].via = log'[e][j].via
      PROVE  i = j
  <2>1. CASE e # x
    BY <1>1, <2>1, AppendedRow DEF Together, TypeOK, ReplayedOnce
  <2>2. CASE e = x
    <3>1. /\ log'[e][Len(log[e]) + 1] = new
          /\ \A k \in 1..Len(log[e]) : log'[e][k] = log[e][k]
          /\ i \in 1..Len(log[e]) \/ i = Len(log[e]) + 1
          /\ j \in 1..Len(log[e]) \/ j = Len(log[e]) + 1
      BY <1>1, <2>2, AppendedRow DEF Together, TypeOK
    <3> QED BY <1>1, <2>2, <3>1 DEF ReplayedOnce
  <2> QED BY <2>1, <2>2
<1> QED BY <1>1 DEF ReplayedOnce

LEMMA StepKeepsReplayedOnce ==
  ASSUME OneCall, Together, [GovernedNext]_governedVars, ReplaysUnreplayed, ReplayedOnce
  PROVE  ReplayedOnce'
<1>1. CASE log' = log
  BY <1>1 DEF ReplayedOnce
<1>2. ASSUME NEW r \in Reqs, PipelineRow(r)
      PROVE  ReplayedOnce'
  <2>1. Row(tx[r]).via = None
    BY DEF Row
  <2> QED BY <1>2, <2>1, AppendKeepsReplayedOnce DEF PipelineRow
<1>3. ASSUME NEW s \in Sessions, ReplayApply(s), log' # log
      PROVE  ReplayedOnce'
  <2> DEFINE id  == session[s].id
             new == ReplayRow(id)
  <2>1. /\ s \in DOMAIN session /\ session[s].pc = "apply"
        /\ approvals[id].entity \in Entities /\ new \in LogRow
        /\ log' = [log EXCEPT ![approvals[id].entity] = Append(@, new)]
    BY <1>3, ReplayWrites DEF Together
  <2>2. new.via = id /\ ~Replayed(id)
    BY <2>1 DEF ReplayRow, ReplaysUnreplayed
  <2> HIDE DEF id, new
  <2>3. \A i \in 1..Len(log[approvals[id].entity]) : log[approvals[id].entity][i].via # new.via
    BY <2>2 DEF Replayed
  <2> QED BY <2>1, <2>3, AppendKeepsReplayedOnce
<1> QED BY <1>1, <1>2, <1>3, LogSteps

LEMMA StepKeepsUnreplayed ==
  ASSUME OneCall, Together, [GovernedNext]_governedVars, ReplaysUnreplayed
  PROVE  ReplaysUnreplayed'
<1>0. \A s \in DOMAIN session : /\ s \in Sessions /\ session[s].id \in DOMAIN approvals
                               /\ session[s].id \in ApprovalIds
  BY DEF Together, SigningTypeOK, Known, CallsKnown, CallKnown
<1>1. \A id \in DOMAIN approvals : /\ id \in ApprovalIds /\ approvals[id].entity \in Entities
                                  /\ approvals'[id].entity = approvals[id].entity
  BY StepKeepsTogether DEF Frame, Together, SigningTypeOK, Approval
<1>2. ASSUME NEW s \in Sessions, End(s), s \in DOMAIN session
      PROVE  ReplaysUnreplayed'
  <2>1. DOMAIN session' = {}
    BY <1>0, <1>2 DEF End, OneCall
  <2> QED BY <2>1 DEF ReplaysUnreplayed
<1>3. ASSUME NEW id \in DOMAIN approvals, ~Replayed(id), log' = log
      PROVE  ~Replayed(id)'
  BY <1>1, <1>3 DEF Replayed
<1>4. ASSUME NEW id \in DOMAIN approvals, ~Replayed(id), NEW r \in Reqs, PipelineRow(r)
      PROVE  ~Replayed(id)'
  <2> DEFINE e == approvals[id].entity
  <2>1. Row(tx[r]).via # id
    BY <1>1, RecordsAssumption DEF Row
  <2>2. \A i \in 1..Len(log'[e]) : log'[e][i].via # id
    <3>1. e \in Entities
      BY <1>1
    <3>2. \A i \in 1..Len(log[e]) : log[e][i].via # id
      BY <1>4 DEF Replayed
    <3>3. CASE e # tx[r].entity
      BY <1>4, <3>1, <3>2, <3>3, PipelineAppends
    <3>4. CASE e = tx[r].entity
      <4> HIDE DEF e
      <4>1. /\ log'[e][Len(log[e]) + 1] = Row(tx[r])
            /\ \A i \in 1..Len(log[e]) : log'[e][i] = log[e][i]
            /\ \A i \in 1..Len(log'[e]) : i \in 1..Len(log[e]) \/ i = Len(log[e]) + 1
        BY <1>4, <3>1, <3>4, PipelineAppends
      <4> TAKE i \in 1..Len(log'[e])
      <4>2. CASE i \in 1..Len(log[e])
        BY <3>2, <4>1, <4>2
      <4>3. CASE i = Len(log[e]) + 1
        BY <2>1, <4>1, <4>3
      <4> QED BY <4>1, <4>2, <4>3
    <3> QED BY <3>3, <3>4
  <2> QED BY <1>1, <2>2 DEF Replayed
<1>5. CASE ~SigningStep
  <2>1. /\ DOMAIN session' = DOMAIN session
        /\ \A s \in DOMAIN session : session'[s].pc = session[s].pc /\ session'[s].id = session[s].id
    BY <1>5, OthersKeepSessions
  <2>2. CASE log' = log
    BY <1>0, <1>3, <2>1, <2>2 DEF ReplaysUnreplayed
  <2>3. ASSUME NEW r \in Reqs, PipelineRow(r)
        PROVE  ReplaysUnreplayed'
    BY <1>0, <1>4, <2>1, <2>3 DEF ReplaysUnreplayed
  <2>4. ASSUME NEW s \in Sessions, ReplayApply(s), log' # log
        PROVE  ReplaysUnreplayed'
    BY <1>2, <2>4 DEF ReplayApply, At
  <2> QED BY <2>2, <2>3, <2>4, LogSteps
<1>6. ASSUME NEW s \in Sessions, NEW c, Start(s, c), UNCHANGED <<approvals, log>>, c.pc \in {"insert", "lock"}
      PROVE  ReplaysUnreplayed'
  <2>1. \A x \in DOMAIN session' : x = s \/ (x \in DOMAIN session /\ session'[x] = session[x])
    BY <1>6 DEF Start
  <2>2. session'[s] = c
    BY <1>6 DEF Start
  <2> QED BY <1>0, <1>3, <1>6, <2>1, <2>2 DEF ReplaysUnreplayed
<1>7. ASSUME NEW s \in DOMAIN session, NEW pc, Proceed(s, pc), UNCHANGED <<approvals, log>>,
             pc \in {"freeze", "sanction", "apply"} => ~Replayed(session[s].id)
      PROVE  ReplaysUnreplayed'
  <2>1. /\ DOMAIN session' = DOMAIN session /\ session'[s].pc = pc /\ session'[s].id = session[s].id
        /\ \A x \in DOMAIN session \ {s} : session'[x] = session[x]
    BY <1>7 DEF Proceed
  <2> QED BY <1>0, <1>3, <1>7, <2>1 DEF ReplaysUnreplayed
<1>8. ASSUME NEW s \in Sessions, NEW id \in ApprovalIds, NEW p \in SigningAs, NEW d \in Decisions,
             SignRead(s, id, [signer |-> p, decision |-> d])
      PROVE  ReplaysUnreplayed'
  BY <1>6, <1>8 DEF SignRead
<1>9. ASSUME NEW s \in Sessions, NEW id \in ApprovalIds, NEW sig \in sigs[id], ReplayRead(s, id, sig)
      PROVE  ReplaysUnreplayed'
  BY <1>6, <1>9 DEF ReplayRead
<1>10. ASSUME NEW s \in Sessions, SignInsert(s) \/ ReplayLock(s) \/ ReplayMarker(s)
       PROVE  ReplaysUnreplayed'
  BY <1>2, <1>7, <1>10 DEF SignInsert, ReplayLock, ReplayMarker, At
<1>11. ASSUME NEW s \in Sessions, ReplayFreeze(s) \/ ReplaySanction(s)
       PROVE  ReplaysUnreplayed'
  <2>1. s \in DOMAIN session /\ session[s].pc \in {"freeze", "sanction"}
    BY <1>11 DEF ReplayFreeze, ReplaySanction, At
  <2>2. ~Replayed(session[s].id)
    BY <2>1 DEF ReplaysUnreplayed
  <2> QED BY <1>2, <1>7, <1>11, <2>1, <2>2 DEF ReplayFreeze, ReplaySanction
<1>12. ASSUME NEW s \in Sessions, SignStatus(s) \/ ReplayApply(s) \/ Drop(s)
       PROVE  ReplaysUnreplayed'
  BY <1>2, <1>12 DEF SignStatus, ReplayApply, Drop, At
<1>13. ASSUME NEW id \in ApprovalIds, Expire(id)
       PROVE  ReplaysUnreplayed'
  BY <1>0, <1>3, <1>13 DEF Expire, ReplaysUnreplayed
<1> QED BY <1>5, <1>8, <1>9, <1>10, <1>11, <1>12, <1>13 DEF SigningStep, SignOrReplay

(* verifyAndReplay's idempotency marker: while replays come one at a time, *)
(* an approval leaves at most one row in the log of its entity, whatever   *)
(* rows the pipeline adds in between.                                      *)
THEOREM ApprovalsReplayedOnce ==
  ASSUME OneCall
  PROVE  GovernedSpec => []ReplayedOnce
<1>1. GovernedInit => ReplaysUnreplayed /\ ReplayedOnce
  BY DEF GovernedInit, Init, SigningInit, ReplaysUnreplayed, ReplayedOnce
<1>2. Together /\ ReplaysUnreplayed /\ ReplayedOnce /\ [GovernedNext]_governedVars
        => (ReplaysUnreplayed /\ ReplayedOnce)'
  BY StepKeepsUnreplayed, StepKeepsReplayedOnce
<1> QED BY <1>1, <1>2, TwoPersonRuleHolds, PTL DEF GovernedSpec

-----------------------------------------------------------------------------
(***************************************************************************)
(* What the pipeline and the approval service promise each on its own they *)
(* keep over the same tables.  A step of the composition is a step of the  *)
(* pipeline that leaves the service alone, or the other way round, or a    *)
(* step of both.                                                           *)
(***************************************************************************)
LEMMA StepShapes ==
  ASSUME [GovernedNext]_governedVars
  PROVE  \/ Next /\ RequestStep
         \/ SigningNext /\ SigningStep
         \/ [Next]_vars /\ [SigningNext]_signingVars
<1>1. RequestStep => Next
  BY DEF RequestStep, Next
<1>2. SigningStep => SigningNext
  BY DEF SigningStep, SigningNext
<1>3. StopStep => Next /\ SigningNext
  BY DEF StopStep, Next, SigningNext
<1>4. UNCHANGED governedVars => UNCHANGED vars /\ UNCHANGED signingVars
  BY DEF governedVars, vars, signingVars
<1> QED BY <1>1, <1>2, <1>3, <1>4 DEF GovernedNext

(* A signature or a replay only ever adds to the log, and takes an approval *)
(* out of the active ones at most.                                         *)
LEMMA SigningKeepsRecords ==
  ASSUME Together, SigningStep
  PROVE  /\ UNCHANGED <<state, tx, stop>>
         /\ DOMAIN approvals' = DOMAIN approvals
         /\ \A i \in DOMAIN approvals : approvals'[i].status \in Active => approvals[i].status \in Active
         /\ \A e \in Entities : /\ Len(log[e]) <= Len(log'[e])
                                /\ \A i \in 1..Len(log[e]) : log'[e][i] = log[e][i]
<1>1. UNCHANGED <<state, tx, stop>>
  BY DEF SigningStep, SignOrReplay, SignRead, ReplayRead, SignInsert, SignStatus, ReplayLock, ReplayMarker,
         ReplayFreeze, ReplaySanction, ReplayApply, Drop, Expire
<1>2. /\ DOMAIN approvals' = DOMAIN approvals
      /\ \A i \in DOMAIN approvals : approvals'[i].status \in Active => approvals[i].status \in Active
  <2>1. ASSUME NEW s \in Sessions, SignStatus(s)
        PROVE  /\ DOMAIN approvals' = DOMAIN approvals
               /\ \A i \in DOMAIN approvals : approvals'[i].status \in Active => approvals[i].status \in Active
    <3> DEFINE id == session[s].id
               new == IF session[s].sig.decision = "APPROVE" THEN "APPROVED" ELSE "REJECTED"
    <3>1. new \notin Active
      BY DEF Active
    <3>2. PICK row : row.status = new /\ approvals' = [approvals EXCEPT ![id] = row]
      BY <2>1 DEF SignStatus
    <3> HIDE DEF id, new
    <3> QED BY <3>1, <3>2
  <2>2. CASE approvals' = approvals
    BY <2>2
  <2>3. approvals' = approvals \/ \E s \in Sessions : SignStatus(s)
    BY DEF SigningStep, SignOrReplay, SignRead, ReplayRead, SignInsert, ReplayLock, ReplayMarker,
           ReplayFreeze, ReplaySanction, ReplayApply, Drop, Expire
  <2> QED BY <2>1, <2>2, <2>3
<1>3. ASSUME NEW e \in Entities
      PROVE  /\ Len(log[e]) <= Len(log'[e])
             /\ \A i \in 1..Len(log[e]) : log'[e][i] = log[e][i]
  <2>0. log \in [Entities -> Seq(LogRow)] /\ log[e] \in Seq(LogRow) /\ Len(log[e]) \in Nat
    BY DEF Together, TypeOK
  <2>1. CASE log' = log
    BY <2>0, <2>1
  <2>2. ASSUME NEW x \in Entities, NEW new \in LogRow, log' = [log EXCEPT ![x] = Append(@, new)]
        PROVE  /\ Len(log[e]) <= Len(log'[e])
               /\ \A i \in 1..Len(log[e]) : log'[e][i] = log[e][i]
    <3>1. CASE e = x
      BY <2>0, <2>2, <3>1, AppendedRow
    <3>2. CASE e # x
      BY <2>0, <2>2, <3>2
    <3> QED BY <3>1, <3>2
  <2>3. ASSUME NEW s \in Sessions, ReplayApply(s), log' # log
        PROVE  \E x \in Entities, new \in LogRow : log' = [log EXCEPT ![x] = Append(@, new)]
    BY <2>3, ReplayWrites DEF Together
  <2>4. log' = log \/ \E s \in Sessions : ReplayApply(s)
    BY DEF SigningStep, SignOrReplay, SignRead, ReplayRead, SignInsert, SignStatus, ReplayLock, ReplayMarker,
           ReplayFreeze, ReplaySanction, Drop, Expire
  <2> QED BY <2>1, <2>2, <2>3, <2>4
<1> QED BY <1>1, <1>2, <1>3

(* The promises of the pipeline that a signature or a replay could break.  *)
LEMMA SharedStepKeepsSingle ==
  ASSUME Together, [GovernedNext]_governedVars, DraftsApart, OneActiveApproval
  PROVE  DraftsApart' /\ OneActiveApproval'
<1>1. CASE [Next]_vars
  BY <1>1, StepKeepsDraftsApart DEF Together
<1>2. CASE SigningStep
  <2>1. /\ UNCHANGED tx /\ DOMAIN approvals' = DOMAIN approvals
        /\ \A i \in DOMAIN approvals : approvals'[i].status \in Active => approvals[i].status \in Active
    BY <1>2, SigningKeepsRecords
  <2>2. \A i \in DOMAIN approvals : /\ approvals'[i].entity = approvals[i].entity
                                    /\ approvals'[i].from = approvals[i].from
                                    /\ approvals'[i].to = approvals[i].to
    BY StepKeepsTogether DEF Frame
  <2>3. \A t : SlotFree(t) => SlotFree(t)'
    BY <2>1, <2>2 DEF SlotFree, SameSlot
  <2>4. DraftsApart'
    BY <2>1, <2>3 DEF DraftsApart
  <2>5. OneActiveApproval'
    BY <2>1, <2>2 DEF OneActiveApproval, SameSlot
  <2> QED BY <2>4, <2>5
<1> QED BY <1>1, <1>2, StepShapes

LEMMA SharedStepKeepsAnswers ==
  ASSUME Together, [GovernedNext]_governedVars, DraftsApart, AnswersAreDurable
  PROVE  AnswersAreDurable'
<1>1. CASE [Next]_vars
  BY <1>1, StepKeepsAnswers DEF Together
<1>2. CASE SigningStep
  <2>1. /\ UNCHANGED tx /\ DOMAIN approvals' = DOMAIN approvals
        /\ \A e \in Entities : /\ Len(log[e]) <= Len(log'[e])
                               /\ \A i \in 1..Len(log[e]) : log'[e][i] = log[e][i]
    BY <1>2, SigningKeepsRecords
  <2>2. Frame /\ Together'
    BY StepKeepsTogether
  <2>3. ASSUME NEW r \in DOMAIN tx
        PROVE  Told(tx[r], log', approvals')
    <3>1. Told(tx[r], log, approvals) /\ tx[r].entity \in Entities
      BY DEF AnswersAreDurable, Told, Together, TypeOK, Request
    <3>2. /\ log[tx[r].entity] \in Seq(LogRow) /\ Len(log[tx[r].entity]) \in Nat
          /\ log'[tx[r].entity] \in Seq(LogRow) /\ Len(log'[tx[r].entity]) \in Nat
      BY <2>2, <3>1 DEF Together, TypeOK
    <3>3. tx[r].answer = "APPLIED" => \E i \in 1..Len(log'[tx[r].entity]) : log'[tx[r].entity][i] = Row(tx[r])
      <4> SUFFICES ASSUME tx[r].answer = "APPLIED"
                   PROVE  \E i \in 1..Len(log'[tx[r].entity]) : log'[tx[r].entity][i] = Row(tx[r])
        OBVIOUS
      <4>1. PICK i \in 1..Len(log[tx[r].entity]) : log[tx[r].entity][i] = Row(tx[r])
        BY <3>1 DEF Told
      <4>2. i \in 1..Len(log'[tx[r].entity]) /\ log'[tx[r].entity][i] = Row(tx[r])
        BY <2>1, <3>1, <3>2, <4>1
      <4> QED BY <4>2
    <3>4. tx[r].answer = "PENDING_APPROVAL" =>
            \E i \in DOMAIN approvals' : SameSlot(approvals'[i], tx[r]) /\ approvals'[i].maker = tx[r].caller
      BY <2>2, <3>1 DEF Told, Frame, SameSlot
    <3> QED BY <3>3, <3>4 DEF Told
  <2> QED BY <2>1, <2>3 DEF AnswersAreDurable, Told, Row
<1> QED BY <1>1, <1>2, StepShapes

LEMMA SharedStepKeepsClear ==
  ASSUME Together, [GovernedNext]_governedVars, ClearKept, Reached
  PROVE  ClearKept' /\ Reached'
<1>1. CASE [Next]_vars
  BY <1>1, StepKeepsClear, StepKeepsReached DEF Together
<1>2. CASE SigningStep
  <2>1. UNCHANGED <<state, tx, stop>>
    BY <1>2, SigningKeepsRecords
  <2>2. ClearKept'
    BY <2>1 DEF ClearKept, ClearOf
  <2>3. Reached'
    BY <2>1 DEF Reached, ReachedBy, StopsAtSecondPerson
  <2> QED BY <2>2, <2>3
<1> QED BY <1>1, <1>2, StepShapes

(* The promises of the service that a request of the pipeline could break: *)
(* it may leave a new approval behind, which nobody has signed, and log    *)
(* rows that name none.                                                    *)
LEMMA RequestKeepsService ==
  ASSUME Together, RequestStep
  PROVE  /\ UNCHANGED <<sigs, late, session, stop>>
         /\ \A id \in DOMAIN approvals : id \in DOMAIN approvals' /\ approvals'[id] = approvals[id]
         /\ \A id \in DOMAIN approvals' \ DOMAIN approvals : approvals'[id].status = "REQUESTED"
<1>1. Next /\ UNCHANGED <<sigs, late, session>>
  BY DEF RequestStep, Next
<1>2. stop' = stop
  BY DEF RequestStep, Progress, Begin, FreezeGate, SanctionCheck, Govern, UpdateEntity,
         RequestApproval, Commit, Reply, Lose
<1>3. \A id \in DOMAIN approvals : id \in DOMAIN approvals' /\ approvals'[id] = approvals[id]
  BY <1>1, TablesGrow DEF Together
<1>4. CASE approvals' = approvals
  BY <1>1, <1>2, <1>3, <1>4
<1>5. ASSUME NEW r \in Reqs, Commit(r)
      PROVE  \A id \in DOMAIN approvals' \ DOMAIN approvals : approvals'[id].status = "REQUESTED"
  <2>1. \A id : Draft(id, tx[r]).row.status = "REQUESTED"
    BY DEF Draft
  <2>2. CASE approvals' = approvals
    BY <2>2
  <2>3. ASSUME NEW i \in ApprovalIds, DOMAIN approvals' = DOMAIN approvals \cup {i},
               i \notin DOMAIN approvals => approvals'[i] = Draft(i, tx[r]).row
        PROVE  \A id \in DOMAIN approvals' \ DOMAIN approvals : approvals'[id].status = "REQUESTED"
    BY <2>1, <2>3
  <2> QED BY <1>5, <2>2, <2>3, CommitPublishes DEF Together
<1>6. approvals' = approvals \/ \E r \in Reqs : Commit(r)
  BY <1>1, StepKinds DEF Together, Quiet, Drafting
<1>7. \A id \in DOMAIN approvals' \ DOMAIN approvals : approvals'[id].status = "REQUESTED"
  BY <1>4, <1>5, <1>6
<1> QED BY <1>1, <1>2, <1>3, <1>7

LEMMA SharedStepKeepsDecisions ==
  ASSUME Together, [GovernedNext]_governedVars, DecisionHasSignature
  PROVE  DecisionHasSignature'
<1>1. CASE [SigningNext]_signingVars
  BY <1>1, StepKeepsDecisions DEF Together
<1>2. CASE RequestStep
  BY <1>2, RequestKeepsService DEF DecisionHasSignature
<1> QED BY <1>1, <1>2, StepShapes

LEMMA SharedStepKeepsReplays ==
  ASSUME Together, [GovernedNext]_governedVars, ReplayIsCountersigned
  PROVE  ReplayIsCountersigned'
<1>1. CASE [SigningNext]_signingVars
  BY <1>1, StepKeepsReplays DEF Together
<1>2. CASE RequestStep
  <2>1. /\ UNCHANGED sigs
        /\ \A id \in DOMAIN approvals : id \in DOMAIN approvals' /\ approvals'[id] = approvals[id]
    BY <1>2, RequestKeepsService
  <2>2. ASSUME NEW e \in Entities, NEW row, Backed(row, e)
        PROVE  Backed(row, e)'
    BY <2>1, <2>2 DEF Backed, Countersigned
  <2>3. \A e \in Entities : \A i \in 1..Len(log[e]) : Backed(log[e][i], e)
    BY DEF ReplayIsCountersigned, Backed
  <2>4. ASSUME \A e \in Entities : \A i \in 1..Len(log'[e]) : Backed(log'[e][i], e)
        PROVE  ReplayIsCountersigned'
    BY <2>2, <2>4 DEF ReplayIsCountersigned, Backed
  <2>5. CASE log' = log
    BY <2>3, <2>4, <2>5
  <2>6. ASSUME NEW r \in Reqs, PipelineRow(r)
        PROVE  ReplayIsCountersigned'
    <3>1. \A e : Backed(Row(tx[r]), e)
      BY DEF Backed, Row
    <3>2. ASSUME NEW e \in Entities, NEW i \in 1..Len(log'[e])
          PROVE  Backed(log'[e][i], e)
      <4>2. CASE e # tx[r].entity
        BY <2>3, <2>6, <3>2, <4>2, PipelineAppends
      <4>3. CASE e = tx[r].entity
        <5>1. /\ log'[e][Len(log[e]) + 1] = Row(tx[r])
              /\ \A j \in 1..Len(log[e]) : log'[e][j] = log[e][j]
              /\ \A j \in 1..Len(log'[e]) : j \in 1..Len(log[e]) \/ j = Len(log[e]) + 1
          BY <2>6, <4>3, PipelineAppends
        <5> QED BY <2>3, <3>1, <3>2, <5>1
      <4> QED BY <4>2, <4>3
    <3> QED BY <2>4, <3>2
  <2>7. ASSUME NEW s \in Sessions, ReplayApply(s), log' # log
        PROVE  FALSE
    <3>1. session' = session /\ s \in DOMAIN session /\ End(s)
      BY <1>2, <2>7, RequestKeepsService DEF ReplayApply, At
    <3> QED BY <3>1 DEF End
  <2> QED BY <2>5, <2>6, <2>7, LogSteps
<1> QED BY <1>1, <1>2, StepShapes

LEMMA SharedStepKeepsCallsClear ==
  ASSUME Together, [GovernedNext]_governedVars, CallsClear
  PROVE  CallsClear'
<1>1. CASE [SigningNext]_signingVars
  BY <1>1, StepKeepsCallsClear DEF Together
<1>2. CASE RequestStep
  <2>1. \A s \in DOMAIN session : session[s].id \in DOMAIN approvals
    BY DEF Together, Known, CallsKnown, CallKnown
  <2> QED BY <1>2, <2>1, RequestKeepsService DEF CallsClear, CallClear
<1> QED BY <1>1, <1>2, StepShapes

(* Over shared tables, for every registry and any number of requests,      *)
(* signatures and replays at once: answers stay durable, active approvals  *)
(* single, blocked requests and replays without effect, decisions signed   *)
(* and replays countersigned; and no approval moves the row of an entity   *)
(* past the first edge that wants a second person.                         *)
THEOREM PromisesHoldTogether ==
  GovernedSpec => [](/\ OneActiveApproval /\ AnswersAreDurable
                     /\ BlockedThroughoutHasNoEffect /\ StopsAtSecondPerson
                     /\ DecisionHasSignature /\ ReplayIsCountersigned
                     /\ BlockedThroughoutIsNotReplayed)
<1> DEFINE Pipeline == /\ DraftsApart /\ OneActiveApproval /\ AnswersAreDurable
                       /\ ClearKept /\ Reached
           Service == DecisionHasSignature /\ ReplayIsCountersigned /\ CallsClear
<1>1. GovernedInit => Pipeline /\ Service
  <2> SUFFICES ASSUME GovernedInit PROVE Pipeline /\ Service
    OBVIOUS
  <2>1. InitialState \in WithinReach
    BY LifecycleAssumption DEF WithinReach, Closed
  <2>2. Pipeline
    BY <2>1 DEF GovernedInit, Init, DraftsApart, OneActiveApproval, AnswersAreDurable, ClearKept,
                Reached, ReachedBy, StopsAtSecondPerson
  <2>3. Service
    BY DEF GovernedInit, SigningInit, DecisionHasSignature, ReplayIsCountersigned, CallsClear
  <2> QED BY <2>2, <2>3
<1>2. Together /\ Pipeline /\ Service /\ [GovernedNext]_governedVars => (Pipeline /\ Service)'
  BY SharedStepKeepsSingle, SharedStepKeepsAnswers, SharedStepKeepsClear,
     SharedStepKeepsDecisions, SharedStepKeepsReplays, SharedStepKeepsCallsClear
<1>3. Together /\ Pipeline /\ Service => BlockedThroughoutHasNoEffect /\ BlockedThroughoutIsNotReplayed
  <2>1. Together /\ ClearKept => BlockedThroughoutHasNoEffect
    BY DEF Together, TypeOK, Request, ClearKept, ClearOf, BlockedThroughoutHasNoEffect, StopKinds
  <2>2. Together /\ CallsClear => BlockedThroughoutIsNotReplayed
    BY DEF Together, SigningTypeOK, Session, CallsClear, CallClear, BlockedThroughoutIsNotReplayed, StopKinds
  <2> QED BY <2>1, <2>2
<1>4. Reached => StopsAtSecondPerson
  BY DEF Reached
<1> QED BY <1>1, <1>2, <1>3, <1>4, TwoPersonRuleHolds, PTL DEF GovernedSpec

-----------------------------------------------------------------------------
(* Where the row of an entity and its log part: the row follows the rows   *)
(* the pipeline logged, whatever replays have logged since.                *)
RowOf(s, l) ==
  \/ s = InitialState /\ \A i \in 1..Len(l) : l[i].via # None
  \/ \E i \in 1..Len(l) : /\ l[i].via = None /\ l[i].to = s
                          /\ \A j \in i+1..Len(l) : l[j].via # None

LEMMA RowOfAppended ==
  ASSUME NEW s, NEW l \in Seq(LogRow), NEW row \in LogRow,
         \/ row.via = None /\ row.to = s
         \/ row.via # None /\ RowOf(s, l)
  PROVE  RowOf(s, Append(l, row))
<1> DEFINE m == Append(l, row)
<1>1. /\ Len(l) \in Nat /\ Len(m) = Len(l) + 1 /\ m[Len(l) + 1] = row
      /\ \A i \in 1..Len(l) : m[i] = l[i]
  OBVIOUS
<1> HIDE DEF m
<1>2. CASE row.via = None /\ row.to = s
  <2>1. Len(l) + 1 \in 1..Len(m) /\ \A j \in (Len(l) + 1)+1..Len(m) : FALSE
    BY <1>1
  <2>2. m[Len(l) + 1].via = None /\ m[Len(l) + 1].to = s
    BY <1>1, <1>2
  <2>3. RowOf(s, m)
    BY <2>1, <2>2 DEF RowOf
  <2> QED BY <2>3 DEF m
<1>3. CASE row.via # None /\ RowOf(s, l)
  <2>1. CASE s = InitialState /\ \A i \in 1..Len(l) : l[i].via # None
    <3>1. \A i \in 1..Len(m) : m[i].via # None
      <4> TAKE i \in 1..Len(m)
      <4>1. CASE i \in 1..Len(l)
        BY <1>1, <2>1, <4>1
      <4>2. CASE i = Len(l) + 1
        BY <1>1, <1>3, <4>2
      <4> QED BY <1>1, <4>1, <4>2
    <3>2. RowOf(s, m)
      BY <2>1, <3>1 DEF RowOf
    <3> QED BY <3>2 DEF m
  <2>2. ASSUME NEW i \in 1..Len(l), l[i].via = None, l[i].to = s,
               \A j \in i+1..Len(l) : l[j].via # None
        PROVE  RowOf(s, m)
    <3>1. i \in 1..Len(m) /\ m[i].via = None /\ m[i].to = s
      BY <1>1, <2>2
    <3>2. \A j \in i+1..Len(m) : m[j].via # None
      <4> TAKE j \in i+1..Len(m)
      <4>1. CASE j \in i+1..Len(l)
        <5>1. j \in 1..Len(l)
          BY <1>1, <4>1
        <5> QED BY <1>1, <2>2, <4>1, <5>1
      <4>2. CASE j = Len(l) + 1
        BY <1>1, <1>3, <4>2
      <4> QED BY <1>1, <4>1, <4>2
    <3> QED BY <3>1, <3>2 DEF RowOf
  <2>3. RowOf(s, m)
    BY <1>3, <2>1, <2>2 DEF RowOf, m
  <2> QED BY <2>3 DEF m
<1> QED BY <1>2, <1>3

LEMMA StepKeepsRow ==
  ASSUME Together, [GovernedNext]_governedVars, RowKeepsToPipeline
  PROVE  RowKeepsToPipeline'
<1>0. /\ log \in [Entities -> Seq(LogRow)] /\ state \in [Entities -> States]
      /\ \A e \in Entities : RowOf(state[e], log[e])
  BY DEF Together, TypeOK, RowKeepsToPipeline, RowOf
<1>1. CASE UNCHANGED <<state, log>>
  BY <1>1 DEF RowKeepsToPipeline
<1>2. ASSUME NEW x \in Entities, NEW row \in LogRow, log' = [log EXCEPT ![x] = Append(@, row)],
             \A e \in Entities \ {x} : state'[e] = state[e],
             \/ row.via = None /\ row.to = state'[x]
             \/ row.via # None /\ state'[x] = state[x]
      PROVE  RowKeepsToPipeline'
  <2>1. ASSUME NEW e \in Entities
        PROVE  RowOf(state'[e], log'[e])
    <3>1. CASE e # x
      BY <1>0, <1>2, <3>1
    <3>2. CASE e = x
      <4>1. log'[e] = Append(log[e], row) /\ log[e] \in Seq(LogRow)
        BY <1>0, <1>2, <3>2
      <4> QED BY <1>0, <1>2, <3>2, <4>1, RowOfAppended
    <3> QED BY <3>1, <3>2
  <2> QED BY <2>1 DEF RowOf, RowKeepsToPipeline
<1>3. ASSUME NEW r \in Reqs, Commit(r)
      PROVE  RowKeepsToPipeline'
  <2> DEFINE t == tx[r]
  <2>1. CASE UNCHANGED <<state, log>>
    BY <1>1, <2>1
  <2>2. CASE /\ state' = [state EXCEPT ![t.entity] = t.to] /\ t.draft = {}
             /\ log' = [log EXCEPT ![t.entity] = Append(@, Row(t))]
    <3>1. t \in Request /\ t.entity \in Entities /\ Staged(t) /\ t.pc = "commit"
      BY <1>3, CommitPublishes DEF Request, Together, AllStaged, Commit, Open
    <3>2. t.to \in States
      BY <2>2, <3>1 DEF Staged
    <3>3. Row(t) \in LogRow /\ Row(t).via = None /\ Row(t).to = t.to
      BY <3>1, <3>2, RowTyped DEF Row
    <3>4. state'[t.entity] = t.to /\ \A e \in Entities \ {t.entity} : state'[e] = state[e]
      BY <1>0, <2>2, <3>1
    <3> HIDE DEF t
    <3> QED BY <1>2, <2>2, <3>1, <3>3, <3>4
  <2> QED BY <1>3, <2>1, <2>2, CommitPublishes DEF Together
<1>4. CASE SigningStep
  <2>1. state' = state
    BY <1>4, SigningKeepsRecords
  <2>2. ASSUME NEW s \in Sessions, ReplayApply(s), log' # log
        PROVE  RowKeepsToPipeline'
    <3>1. PICK id \in ApprovalIds : /\ approvals[id].entity \in Entities /\ ReplayRow(id) \in LogRow
                                    /\ log' = [log EXCEPT ![approvals[id].entity] = Append(@, ReplayRow(id))]
      BY <2>2, ReplayWrites DEF Together
    <3>2. ReplayRow(id).via # None
      BY RecordsAssumption DEF ReplayRow
    <3> QED BY <1>2, <2>1, <3>1, <3>2
  <2>3. log' = log \/ \E s \in Sessions : ReplayApply(s)
    BY <1>4 DEF SigningStep, SignOrReplay, SignRead, ReplayRead, SignInsert, SignStatus, ReplayLock, ReplayMarker,
           ReplayFreeze, ReplaySanction, Drop, Expire
  <2> QED BY <1>1, <2>1, <2>2, <2>3
<1>5. CASE UNCHANGED vars \/ StopStep
  BY <1>1, <1>5 DEF vars, StopStep, Block, Unblock
<1>6. CASE RequestStep
  <2>1. Next
    BY <1>6 DEF RequestStep, Next
  <2> QED BY <1>1, <1>3, <2>1, StepKinds DEF Together, Quiet, Drafting
<1> QED BY <1>4, <1>5, <1>6 DEF GovernedNext, governedVars, vars

(* For any number of requests, signatures and replays at once: a replay    *)
(* leaves the row alone, and the pipeline never takes up what it logged.   *)
THEOREM RowFollowsPipeline == GovernedSpec => []RowKeepsToPipeline
<1>1. GovernedInit => RowKeepsToPipeline
  BY DEF GovernedInit, Init, RowKeepsToPipeline
<1>2. Together /\ RowKeepsToPipeline /\ [GovernedNext]_governedVars => RowKeepsToPipeline'
  BY StepKeepsRow
<1> QED BY <1>1, <1>2, TwoPersonRuleHolds, PTL DEF GovernedSpec

-----------------------------------------------------------------------------
(***************************************************************************)
(* Pipeline and service implement the register of approvals, one call of   *)
(* the service at a time.  The state of the register is a function of the  *)
(* approvals, their signatures and the log.                                *)
(***************************************************************************)
Makers  == [id \in DOMAIN approvals |-> Fingerprint(approvals[id].maker)]
Signed  == [id \in DOMAIN approvals |-> {Seen(sig) : sig \in sigs[id]}]
Status  == [id \in DOMAIN approvals |-> approvals[id].status]
Acted   == [id \in DOMAIN approvals |-> Cardinality(Markers(id))]
Parties == {Fingerprint(p) : p \in Callers \cup Signers}

(* What a replay read when it began still holds when it writes.            *)
ReplaysApproved ==
  \A s \in DOMAIN session :
    session[s].pc \in ReplayStages => approvals[session[s].id].status = "APPROVED"

LEMMA StepKeepsApproved ==
  ASSUME OneCall, Together, [GovernedNext]_governedVars, ReplaysApproved
  PROVE  ReplaysApproved'
<1>0. \A s \in DOMAIN session : s \in Sessions /\ session[s].id \in DOMAIN approvals
  BY DEF Together, SigningTypeOK, Known, CallsKnown, CallKnown
<1>1. CASE ~SigningStep
  BY <1>0, <1>1, OthersKeepSessions DEF ReplaysApproved
<1>2. ASSUME NEW s \in Sessions, End(s), s \in DOMAIN session
      PROVE  ReplaysApproved'
  <2>1. DOMAIN session' = {}
    BY <1>0, <1>2 DEF End, OneCall
  <2> QED BY <2>1 DEF ReplaysApproved
<1>3. ASSUME NEW s \in Sessions, NEW c, Start(s, c), approvals' = approvals,
             c.pc \in ReplayStages => approvals[c.id].status = "APPROVED"
      PROVE  ReplaysApproved'
  BY <1>3 DEF Start, ReplaysApproved
<1>4. ASSUME NEW s \in DOMAIN session, NEW pc, Proceed(s, pc), approvals' = approvals,
             pc \in ReplayStages => session[s].pc \in ReplayStages
      PROVE  ReplaysApproved'
  BY <1>4 DEF Proceed, ReplaysApproved
<1>5. ASSUME NEW s \in Sessions, NEW id \in ApprovalIds, NEW p \in SigningAs, NEW d \in Decisions,
             SignRead(s, id, [signer |-> p, decision |-> d])
      PROVE  ReplaysApproved'
  BY <1>3, <1>5 DEF SignRead, ReplayStages
<1>6. ASSUME NEW s \in Sessions, NEW id \in ApprovalIds, NEW sig \in sigs[id], ReplayRead(s, id, sig)
      PROVE  ReplaysApproved'
  BY <1>3, <1>6 DEF ReplayRead
<1>7. ASSUME NEW s \in Sessions, SignInsert(s)
      PROVE  ReplaysApproved'
  BY <1>2, <1>4, <1>7 DEF SignInsert, At, ReplayStages
<1>8. ASSUME NEW s \in Sessions, SignStatus(s) \/ ReplayApply(s) \/ Drop(s)
      PROVE  ReplaysApproved'
  BY <1>2, <1>8 DEF SignStatus, ReplayApply, Drop, At
<1>9. ASSUME NEW s \in Sessions, ReplayLock(s) \/ ReplayMarker(s) \/ ReplayFreeze(s) \/ ReplaySanction(s)
      PROVE  ReplaysApproved'
  <2>1. s \in DOMAIN session /\ session[s].pc \in ReplayStages
    BY <1>9 DEF ReplayLock, ReplayMarker, ReplayFreeze, ReplaySanction, At, ReplayStages
  <2> QED BY <1>2, <1>4, <1>9, <2>1 DEF ReplayLock, ReplayMarker, ReplayFreeze, ReplaySanction
<1>10. ASSUME NEW id \in ApprovalIds, Expire(id)
       PROVE  ReplaysApproved'
  BY <1>10 DEF Expire, ReplaysApproved
<1> QED BY <1>1, <1>5, <1>6, <1>7, <1>8, <1>9, <1>10 DEF SigningStep, SignOrReplay

(* A log row changes the markers of the approval it names, and of no other. *)
LEMMA MarkersAppended ==
  ASSUME log \in [Entities -> Seq(LogRow)], NEW x \in Entities, NEW row \in LogRow,
         log' = [log EXCEPT ![x] = Append(@, row)],
         NEW id \in DOMAIN approvals, approvals[id].entity \in Entities,
         id \in DOMAIN approvals', approvals'[id].entity = approvals[id].entity
  PROVE  /\ row.via # id => Markers(id)' = Markers(id)
         /\ row.via = id /\ approvals[id].entity = x => Markers(id)' = Markers(id) \cup {Len(log[x]) + 1}
<1> DEFINE e == approvals[id].entity
<1>1. Markers(id)' = {i \in 1..Len(log'[e]) : log'[e][i].via = id}
  BY DEF Markers
<1>2. Markers(id) = {i \in 1..Len(log[e]) : log[e][i].via = id}
  BY DEF Markers
<1> HIDE DEF e
<1>3. e \in Entities
  BY DEF e
<1>4. CASE e # x
  <2>1. log'[e] = log[e]
    BY <1>3, <1>4, AppendedRow
  <2> QED BY <1>1, <1>2, <1>4, <2>1 DEF e
<1>5. CASE e = x
  <2>1. /\ Len(log[e]) \in Nat /\ Len(log'[e]) = Len(log[e]) + 1 /\ log'[e][Len(log[e]) + 1] = row
        /\ \A i \in 1..Len(log[e]) : log'[e][i] = log[e][i]
    BY <1>3, <1>5, AppendedRow
  <2> QED BY <1>1, <1>2, <1>5, <2>1
<1> QED BY <1>4, <1>5

LEMMA NotReplayedIsUnmarked ==
  ASSUME NEW id
  PROVE  ~Replayed(id) => Markers(id) = {} /\ Cardinality(Markers(id)) = 0
BY FS_EmptySet DEF Replayed, Markers

LEMMA PipelineRowIsUnseen ==
  ASSUME Together, NEW r \in Reqs, PipelineRow(r), UNCHANGED <<approvals, sigs>>
  PROVE  UNCHANGED <<Makers, Signed, Status, Acted>>
<1>1. ASSUME NEW id \in DOMAIN approvals
      PROVE  Markers(id)' = Markers(id)
  <2>1. id \in ApprovalIds /\ approvals[id].entity \in Entities
    BY DEF Together, SigningTypeOK, Approval
  <2>2. Row(tx[r]).via # id
    BY <2>1, RecordsAssumption DEF Row
  <2>3. /\ log \in [Entities -> Seq(LogRow)]
        /\ tx[r].entity \in Entities /\ Row(tx[r]) \in LogRow
        /\ log' = [log EXCEPT ![tx[r].entity] = Append(@, Row(tx[r]))]
    BY DEF PipelineRow, Together, TypeOK
  <2>4. id \in DOMAIN approvals' /\ approvals'[id].entity = approvals[id].entity
    OBVIOUS
  <2> QED BY <2>1, <2>2, <2>3, <2>4, MarkersAppended
<1> QED BY <1>1 DEF Makers, Signed, Status, Acted

LEMMA CommitAsks ==
  ASSUME Together, ReplayIsCountersigned, NEW r \in Reqs, Commit(r),
         UNCHANGED <<sigs, late, session>>, log' = log
  PROVE  \/ UNCHANGED <<Makers, Signed, Status, Acted>>
         \/ \E id \in ApprovalIds, p \in Parties : Promise!Ask(id, p)
<1>1. CASE approvals' = approvals
  BY <1>1 DEF Makers, Signed, Status, Acted, Markers
<1>2. ASSUME NEW id \in ApprovalIds, id \notin DOMAIN approvals,
             DOMAIN approvals' = DOMAIN approvals \cup {id},
             \A i \in DOMAIN approvals : approvals'[i] = approvals[i],
             approvals'[id] = Draft(id, tx[r]).row
      PROVE  \E p \in Parties : Promise!Ask(id, p)
  <2>1. PICK p : p = Fingerprint(tx[r].caller)
    OBVIOUS
  <2>2. tx[r] \in Request
    BY CommitPublishes DEF Together
  <2>3. p \in Parties
    BY <2>1, <2>2 DEF Parties, Request
  <2>4. approvals'[id].maker = tx[r].caller /\ approvals'[id].status = "REQUESTED" /\ approvals'[id].entity = tx[r].entity
    BY <1>2 DEF Draft
  <2>5. Makers' = [i \in DOMAIN Makers \cup {id} |-> IF i = id THEN p ELSE Makers[i]]
    BY <1>2, <2>1, <2>4 DEF Makers
  <2>6. sigs[id] = {}
    BY <1>2 DEF Together, Known, SignaturesApart
  <2>7. Signed' = [i \in DOMAIN Signed \cup {id} |-> IF i = id THEN {} ELSE Signed[i]]
    BY <1>2, <2>6 DEF Signed
  <2>8. Status' = [i \in DOMAIN Status \cup {id} |-> IF i = id THEN "REQUESTED" ELSE Status[i]]
    BY <1>2, <2>4 DEF Status
  <2>9. Cardinality(Markers(id))' = 0
    <3>1. \A i \in 1..Len(log[tx[r].entity]) : log[tx[r].entity][i].via # id
      BY <1>2, <2>2, RecordsAssumption DEF ReplayIsCountersigned, Request
    <3>2. Markers(id)' = {}
      BY <2>4, <3>1 DEF Markers
    <3> QED BY <3>2, FS_EmptySet
  <2>10. \A i \in DOMAIN approvals : Markers(i)' = Markers(i)
    BY <1>2 DEF Markers
  <2>11. Acted' = [i \in DOMAIN Acted \cup {id} |-> IF i = id THEN 0 ELSE Acted[i]]
    BY <1>2, <2>9, <2>10 DEF Acted
  <2>12. Promise!Ask(id, p)
    BY <1>2, <2>5, <2>7, <2>8, <2>11 DEF Promise!Ask, Promise!With, Makers, Signed, Status, Acted
  <2> QED BY <2>3, <2>12
<1>3. ASSUME NEW id \in ApprovalIds, id \in DOMAIN approvals,
             DOMAIN approvals' = DOMAIN approvals \cup {id},
             \A i \in DOMAIN approvals : approvals'[i] = approvals[i]
      PROVE  UNCHANGED <<Makers, Signed, Status, Acted>>
  <2>1. DOMAIN approvals' = DOMAIN approvals /\ \A i \in DOMAIN approvals : Markers(i)' = Markers(i)
    BY <1>3 DEF Markers
  <2> QED BY <1>3, <2>1 DEF Makers, Signed, Status, Acted
<1> QED BY <1>1, <1>2, <1>3, CommitPublishes DEF Together

LEMMA InsertSigns ==
  ASSUME Together, SignsUndecided, NEW s \in Sessions, SignInsert(s)
  PROVE  \/ UNCHANGED <<Makers, Signed, Status, Acted>>
         \/ \E id \in DOMAIN Makers, p \in Parties, d \in Promise!Decisions : Promise!Sign(id, p, d)
<1>1. s \in DOMAIN session /\ UNCHANGED <<approvals, log, stop, late>>
  BY DEF SignInsert, At
<1>2. UNCHANGED <<Makers, Status, Acted>>
  BY <1>1 DEF Makers, Status, Acted, Markers
<1>3. CASE sigs' = sigs
  BY <1>1, <1>2, <1>3 DEF Signed
<1>4. CASE sigs' # sigs
  <2>1. PICK c : c = session[s]
    OBVIOUS
  <2>2. /\ c \in Session /\ c.id \in DOMAIN approvals /\ c.id \in ApprovalIds
        /\ approvals[c.id].status = "REQUESTED"
    BY <1>1, <2>1 DEF SignInsert, At, SignsUndecided, Together, SigningTypeOK, Known, CallsKnown, CallKnown
  <2>3. /\ Fingerprint(c.sig.signer) # Fingerprint(approvals[c.id].maker)
        /\ sigs' = [sigs EXCEPT ![c.id] = @ \cup {c.sig}]
    BY <1>4, <2>1 DEF SignInsert
  <2>4. PICK p, d : p = Fingerprint(c.sig.signer) /\ d = c.sig.decision
    OBVIOUS
  <2>5. p \in Parties /\ d \in Promise!Decisions /\ Seen(c.sig) = <<p, d>>
    BY <2>2, <2>4 DEF Parties, Session, Signature, Decisions, Promise!Decisions, Seen
  <2>6. sigs \in [ApprovalIds -> SUBSET Signature]
    BY DEF Together, SigningTypeOK
  <2>7. ASSUME NEW i \in DOMAIN approvals
        PROVE  Signed'[i] = IF i = c.id THEN Signed[i] \cup {<<p, d>>} ELSE Signed[i]
    <3>1. i \in ApprovalIds /\ sigs'[i] = IF i = c.id THEN sigs[i] \cup {c.sig} ELSE sigs[i]
      BY <2>3, <2>6 DEF Together, SigningTypeOK
    <3>2. Signed[i] = {Seen(sig) : sig \in sigs[i]} /\ Signed'[i] = {Seen(sig) : sig \in sigs'[i]}
      BY <1>1 DEF Signed, Seen, Fingerprint
    <3> QED BY <2>5, <3>1, <3>2
  <2>8. Signed' = [Signed EXCEPT ![c.id] = @ \cup {<<p, d>>}]
    BY <1>1, <2>2, <2>7 DEF Signed
  <2>9. Promise!Sign(c.id, p, d)
    BY <1>2, <2>2, <2>3, <2>4, <2>8 DEF Promise!Sign, Makers, Signed, Status, Acted
  <2> QED BY <2>2, <2>5, <2>9 DEF Makers
<1> QED BY <1>3, <1>4

LEMMA StatusDecides ==
  ASSUME Together, SignsUndecided, NEW s \in Sessions, SignStatus(s)
  PROVE  \E id \in DOMAIN Makers, p \in Parties, d \in Promise!Decisions : Promise!Decide(id, p, d)
<1>1. PICK c : c = session[s]
  OBVIOUS
<1>2. PICK new : new = IF c.sig.decision = "APPROVE" THEN "APPROVED" ELSE "REJECTED"
  OBVIOUS
<1>3. s \in DOMAIN session /\ c.pc = "status" /\ UNCHANGED <<log, stop, sigs, late>>
  BY <1>1 DEF SignStatus, At
<1>4. /\ c \in Session /\ c.id \in DOMAIN approvals /\ c.sig \in sigs[c.id]
      /\ approvals[c.id].status = "REQUESTED"
  BY <1>1, <1>3 DEF SignsUndecided, Together, SigningTypeOK, Known, CallsKnown, CallKnown
<1>5. /\ DOMAIN approvals' = DOMAIN approvals /\ approvals'[c.id].status = new
      /\ \A i \in DOMAIN approvals \ {c.id} : approvals'[i] = approvals[i]
  BY <1>1, <1>2, <1>4 DEF SignStatus
<1>6. \A i \in DOMAIN approvals : approvals'[i].maker = approvals[i].maker /\ approvals'[i].entity = approvals[i].entity
  BY <1>1, <1>4 DEF SignStatus
<1>7. Makers' = Makers /\ Signed' = Signed
  BY <1>3, <1>5, <1>6 DEF Makers, Signed
<1>8. Acted' = Acted
  <2>1. \A i \in DOMAIN approvals : Markers(i)' = Markers(i)
    BY <1>3, <1>6 DEF Markers
  <2> QED BY <1>5, <2>1 DEF Acted
<1>9. Status' = [Status EXCEPT ![c.id] = new]
  BY <1>4, <1>5 DEF Status
<1>10. PICK p, d : p = Fingerprint(c.sig.signer) /\ d = c.sig.decision
  OBVIOUS
<1>11. p \in Parties /\ d \in Promise!Decisions /\ Seen(c.sig) = <<p, d>> /\ new = Promise!Outcome(d)
  BY <1>2, <1>4, <1>10 DEF Parties, Session, Signature, Decisions, Promise!Decisions, Promise!Outcome, Seen
<1>12. <<p, d>> \in Signed[c.id]
  BY <1>4, <1>11 DEF Signed
<1>13. Promise!Decide(c.id, p, d)
  BY <1>4, <1>7, <1>8, <1>9, <1>11, <1>12 DEF Promise!Decide, Makers, Signed, Status, Acted
<1> QED BY <1>4, <1>11, <1>13 DEF Makers

LEMMA ReplayActs ==
  ASSUME Together, ReplaysUnreplayed, ReplaysApproved, NEW s \in Sessions, ReplayApply(s), log' # log
  PROVE  \E id \in DOMAIN Makers : Promise!Act(id)
<1>1. PICK id : id = session[s].id
  OBVIOUS
<1>2. PICK x : x = approvals[id].entity
  OBVIOUS
<1>3. /\ s \in DOMAIN session /\ session[s].pc = "apply"
      /\ id \in ApprovalIds /\ id \in DOMAIN approvals /\ x \in Entities /\ ReplayRow(id) \in LogRow
      /\ log' = [log EXCEPT ![x] = Append(@, ReplayRow(id))]
  BY <1>1, <1>2, ReplayWrites DEF Together
<1>4. UNCHANGED <<approvals, stop, sigs, late>>
  BY DEF ReplayApply
<1>5. ~Replayed(id) /\ approvals[id].status = "APPROVED"
  BY <1>1, <1>3 DEF ReplaysUnreplayed, ReplaysApproved, ReplayStages
<1>6. Markers(id) = {} /\ Cardinality(Markers(id)) = 0
  BY <1>5, NotReplayedIsUnmarked
<1>7. \A i \in DOMAIN approvals : approvals[i].entity \in Entities
  BY DEF Together, SigningTypeOK, Approval
<1>8. ReplayRow(id).via = id /\ log \in [Entities -> Seq(LogRow)]
  BY DEF ReplayRow, Together, TypeOK
<1>9. Cardinality(Markers(id))' = 1
  <2>1. id \in DOMAIN approvals' /\ approvals'[id].entity = approvals[id].entity /\ approvals[id].entity = x
    BY <1>2, <1>3, <1>4
  <2>2. Markers(id)' = Markers(id) \cup {Len(log[x]) + 1}
    BY <1>3, <1>8, <2>1, MarkersAppended
  <2>3. Markers(id)' = {Len(log[x]) + 1}
    BY <1>6, <2>2
  <2> QED BY <2>3, FS_Singleton
<1>10. \A i \in DOMAIN approvals \ {id} : Markers(i)' = Markers(i)
  BY <1>3, <1>4, <1>7, <1>8, MarkersAppended
<1>11. Acted' = [Acted EXCEPT ![id] = 1]
  BY <1>3, <1>4, <1>9, <1>10 DEF Acted
<1>12. UNCHANGED <<Makers, Signed, Status>>
  BY <1>4 DEF Makers, Signed, Status
<1>13. Promise!Act(id)
  BY <1>3, <1>5, <1>6, <1>11, <1>12 DEF Promise!Act, Makers, Signed, Status, Acted
<1> QED BY <1>3, <1>13 DEF Makers

(* With one call of the approval service at a time, and any number of      *)
(* transition requests, losses, expiries, freezes and sanctions between    *)
(* its statements, the tables implement the register of approvals.         *)
THEOREM PromiseIsKept ==
  ASSUME OneCall
  PROVE  GovernedSpec => ImplementsApprovalRegister
<1> DEFINE v == <<Makers, Signed, Status, Acted>>
           IInv == /\ SignsUndecided /\ ReplaysUnreplayed /\ ReplaysApproved
                   /\ ReplayIsCountersigned
<1>1. GovernedInit => Promise!Init /\ IInv
  BY DEF GovernedInit, Init, SigningInit, Promise!Init, SignsUndecided, ReplaysUnreplayed, ReplaysApproved,
         ReplayIsCountersigned
<1>2. Together /\ IInv /\ [GovernedNext]_governedVars => IInv'
  BY StepKeepsUndecided, StepKeepsUnreplayed, StepKeepsApproved, SharedStepKeepsReplays
<1>3. Together /\ IInv /\ [GovernedNext]_governedVars => [Promise!Next]_v
  <2> SUFFICES ASSUME Together, IInv, [GovernedNext]_governedVars
               PROVE  [Promise!Next]_v
    OBVIOUS
  <2>1. CASE UNCHANGED <<approvals, sigs, log>>
    BY <2>1 DEF Makers, Signed, Status, Acted, Markers
  <2>2. CASE RequestStep
    <3>1. Next /\ UNCHANGED <<sigs, late, session>>
      BY <2>2 DEF RequestStep, Next
    <3>2. ASSUME NEW r \in Reqs, Commit(r)
          PROVE  [Promise!Next]_v
      <4>1. CASE log' = log
        BY <3>1, <3>2, <4>1, CommitAsks DEF Promise!Next, Parties
      <4>2. CASE log' # log
        <5>1. approvals' = approvals
          BY <3>2, <4>2, CommitPublishes DEF Together
        <5>2. ASSUME NEW s \in Sessions, ReplayApply(s)
              PROVE  FALSE
          <6>1. s \in DOMAIN session /\ End(s)
            BY <5>2 DEF ReplayApply, At
          <6>2. DOMAIN session' = DOMAIN session \ {s}
            BY <6>1 DEF End
          <6> QED BY <3>1, <6>1, <6>2
        <5> QED BY <3>1, <4>2, <5>1, <5>2, LogSteps, PipelineRowIsUnseen
      <4> QED BY <4>1, <4>2
    <3> QED BY <2>1, <3>1, <3>2, StepKinds DEF Together, Quiet, Drafting
  <2>3. CASE SigningStep
    <3>1. CASE \E s \in Sessions : SignInsert(s)
      BY <3>1, InsertSigns DEF Promise!Next, Parties, Makers
    <3>2. CASE \E s \in Sessions : SignStatus(s)
      BY <3>2, StatusDecides DEF Promise!Next, Parties, Makers
    <3>3. CASE \E s \in Sessions : ReplayApply(s) /\ log' # log
      BY <3>3, ReplayActs DEF Promise!Next, Makers
    <3> QED BY <2>1, <2>3, <3>1, <3>2, <3>3
         DEF SigningStep, SignOrReplay, SignRead, ReplayRead, ReplayLock, ReplayMarker,
             ReplayFreeze, ReplaySanction, ReplayApply, Drop, Expire
  <2>4. CASE StopStep
    BY <2>1, <2>4 DEF StopStep, Impose, Lift
  <2> QED BY <2>1, <2>2, <2>3, <2>4 DEF GovernedNext, governedVars
<1> QED BY <1>1, <1>2, <1>3, TwoPersonRuleHolds, PTL
        DEF GovernedSpec, ImplementsApprovalRegister, Promise!Spec, Makers, Signed, Status, Acted

=============================================================================
