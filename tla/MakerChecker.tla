---------------------------- MODULE MakerChecker ----------------------------
(***************************************************************************)
(* MakerCheckerService (src/server/src/services/makerChecker.service.ts)   *)
(* as its internal routes run it: signApproval and verifyAndReplay on the  *)
(* base database client, so that every statement commits by itself and     *)
(* other sessions run between any two of them.  Only the idempotency check *)
(* of a replay is a transaction, and it ends before the replay writes.     *)
(***************************************************************************)
EXTENDS GovernedRecords

CONSTANTS Sessions,     \* slots for concurrent sign and replay calls
          SigningAs     \* bound: the principals that sign

VARIABLES sigs,     \* id -> its approval_signatures
          late,     \* the approvals whose expires_at has passed
          session   \* slot -> the sign or replay call in progress

signingVars == <<approvals, log, stop, sigs, late, session>>

(* The principal of a signature: the tenant route fills in a user id, the   *)
(* control route an admin id; a row with both is refused by a CHECK.        *)
Signers == [actor: {"CHECKER", "PLATFORM_ADMIN"}, user: Users, admin: {None}] \cup
           [actor: {"PLATFORM_ADMIN"}, user: {None}, admin: Admins]

Decisions == {"APPROVE", "REJECT"}
Signature == [signer: Signers, decision: Decisions]

ASSUME SigningAssumption == SigningAs \subseteq Signers

(* A call is named after the statement it runs next.                        *)
CallStages  == {"insert", "status", "lock", "marker", "freeze", "sanction", "apply"}
Session == [pc: CallStages, id: ApprovalIds, sig: Signature, clear: SUBSET StopKinds]

SigningTypeOK ==
  /\ DOMAIN approvals \subseteq ApprovalIds /\ approvals \in [DOMAIN approvals -> Approval]
  /\ log \in [Entities -> Seq(LogRow)]
  /\ stop \in [Entities -> SUBSET StopKinds]
  /\ sigs \in [ApprovalIds -> SUBSET Signature]
  /\ late \subseteq ApprovalIds
  /\ DOMAIN session \subseteq Sessions /\ session \in [DOMAIN session -> Session]

SigningInit ==
  /\ approvals = << >>
  /\ log = [e \in Entities |-> << >>]
  /\ stop = [e \in Entities |-> {}]
  /\ sigs = [i \in ApprovalIds |-> {}]
  /\ late = {}
  /\ session = << >>

(* computeMakerFingerprint and computeSignerFingerprint.                    *)
Fingerprint(p) == << p.actor, IF p.user # None THEN p.user ELSE p.admin >>

Start(s, call) ==
  /\ s \notin DOMAIN session
  /\ session' = [x \in DOMAIN session \cup {s} |-> IF x = s THEN call ELSE session[x]]

At(s, pc)   == s \in DOMAIN session /\ session[s].pc = pc
Proceed(s, pc) == session' = [session EXCEPT ![s] =
                 [pc |-> pc, id |-> @.id, sig |-> @.sig, clear |-> @.clear]]
End(s)      == session' = [x \in DOMAIN session \ {s} |-> session[x]]

-----------------------------------------------------------------------------
(* A committed createApprovalRequest, of a caller the state machine answered *)
(* PENDING_APPROVAL; the partial unique index keeps the slot single.         *)
Submit(id, e, edge, caller) ==
  LET row == [entity |-> e, from |-> edge.from, to |-> edge.to, maker |-> caller,
              status |-> "REQUESTED"]
  IN /\ id \notin DOMAIN approvals
     /\ Verdict([from |-> edge.from, to |-> edge.to, actor |-> caller.actor, user |-> caller.user,
                 admin |-> caller.admin, ai |-> "NO", level |-> 0, maker |-> None])
          = "PENDING_APPROVAL"
     /\ \A i \in DOMAIN approvals : approvals[i].status \in Active => ~SameSlot(approvals[i], row)
     /\ approvals' = [i \in DOMAIN approvals \cup {id} |->
                        IF i = id THEN row ELSE approvals[i]]
     /\ UNCHANGED <<log, stop, sigs, late, session>>

Clear(id) == StopKinds \ stop[approvals[id].entity]

(* signApproval, steps 1 to 4: the row is REQUESTED, not expired, and the   *)
(* signer is not the maker.  A refused call ends here and changes nothing.  *)
SignRead(s, id, sig) ==
  /\ id \in DOMAIN approvals \ late
  /\ approvals[id].status = "REQUESTED"
  /\ Fingerprint(sig.signer) # Fingerprint(approvals[id].maker)
  /\ Start(s, [pc |-> "insert", id |-> id, sig |-> sig, clear |-> Clear(id)])
  /\ UNCHANGED <<approvals, log, stop, sigs, late>>

(* Step 5: the signature, checked once more by the separation trigger.      *)
SignInsert(s) ==
  /\ At(s, "insert")
  /\ LET c == session[s] IN
     IF Fingerprint(c.sig.signer) = Fingerprint(approvals[c.id].maker)
     THEN End(s) /\ UNCHANGED sigs
     ELSE sigs' = [sigs EXCEPT ![c.id] = @ \cup {c.sig}] /\ Proceed(s, "status")
  /\ UNCHANGED <<approvals, log, stop, late>>

RowLocked(id) == \E x \in DOMAIN session : session[x].id = id /\ session[x].pc = "marker"

StatusIsDecision(s) ==
  /\ At(s, "status")
  /\ LET c == session[s] IN
     /\ ~RowLocked(c.id)
     /\ approvals' = [approvals EXCEPT ![c.id].status = c.sig.decision]
     /\ End(s)
  /\ UNCHANGED <<log, stop, sigs, late>>

SignatureApproves(s) ==
  /\ At(s, "status")
  /\ LET c == session[s] IN
     /\ ~RowLocked(c.id)
     /\ approvals' = [approvals EXCEPT ![c.id].status = "APPROVED"]
     /\ End(s)
  /\ UNCHANGED <<log, stop, sigs, late>>

(* Step 6: the status follows the decision; the update waits for a replay   *)
(* that has the row locked.                                                 *)
SignStatus(s) ==
  /\ At(s, "status")
  /\ LET c == session[s] IN
     /\ ~RowLocked(c.id)
     /\ approvals' = [approvals EXCEPT ![c.id] =
          [entity |-> @.entity, from |-> @.from, to |-> @.to, maker |-> @.maker,
           status |-> IF c.sig.decision = "APPROVE" THEN "APPROVED" ELSE "REJECTED"]]
     /\ End(s)
  /\ UNCHANGED <<log, stop, sigs, late>>

-----------------------------------------------------------------------------
(* verifyAndReplay, steps 1 to 5: the row is APPROVED, not expired, and has *)
(* an APPROVE signature.  The payload hash covers columns nobody updates.   *)
ReplayRead(s, id, sig) ==
  /\ id \in DOMAIN approvals \ late
  /\ approvals[id].status = "APPROVED"
  /\ sig.decision = "APPROVE"
  /\ Start(s, [pc |-> "lock", id |-> id, sig |-> sig, clear |-> Clear(id)])
  /\ UNCHANGED <<approvals, log, stop, sigs, late>>

(* Step 6a: SELECT ... FOR UPDATE NOWAIT.                                    *)
ReplayLock(s) ==
  /\ At(s, "lock")
  /\ IF RowLocked(session[s].id) THEN End(s) ELSE Proceed(s, "marker")
  /\ UNCHANGED <<approvals, log, stop, sigs, late>>

Replayed(id) == \E i \in 1..Len(log[approvals[id].entity]) :
                  log[approvals[id].entity][i].via = id

ReplayMarkerIgnored(s) ==
  /\ At(s, "marker")
  /\ Proceed(s, "freeze")
  /\ UNCHANGED <<approvals, log, stop, sigs, late>>

(* Steps 6b to 6d: look for the marker in the log, and let go of the row.    *)
ReplayMarker(s) ==
  /\ At(s, "marker")
  /\ IF Replayed(session[s].id) THEN End(s) ELSE Proceed(s, "freeze")
  /\ UNCHANGED <<approvals, log, stop, sigs, late>>

(* Step 7: the service's own freeze check ...                                *)
ReplayFreeze(s) ==
  /\ At(s, "freeze")
  /\ IF "FREEZE" \in stop[approvals[session[s].id].entity] THEN End(s) ELSE Proceed(s, "sanction")
  /\ UNCHANGED <<approvals, log, stop, sigs, late>>

ReplaySanctionSkipped(s) ==
  /\ At(s, "sanction")
  /\ Proceed(s, "apply")
  /\ UNCHANGED <<approvals, log, stop, sigs, late>>

(* ... then the state machine's sanction check ...                           *)
ReplaySanction(s) ==
  /\ At(s, "sanction")
  /\ IF "SANCTION" \in stop[approvals[session[s].id].entity] THEN End(s) ELSE Proceed(s, "apply")
  /\ UNCHANGED <<approvals, log, stop, sigs, late>>

ReplayInputOfAnyMaker(row, signer) ==
  [from |-> row.from, to |-> row.to, actor |-> "CHECKER", user |-> signer.user,
   admin |-> signer.admin, ai |-> "NO", level |-> 0,
   maker |-> IF row.maker.user # None THEN row.maker.user ELSE row.maker.admin]

(* The transition that is replayed: a CHECKER acts for the maker's user id.  *)
ReplayInput(row, signer) ==
  [from |-> row.from, to |-> row.to, actor |-> "CHECKER", user |-> signer.user,
   admin |-> signer.admin, ai |-> "NO", level |-> 0, maker |-> row.maker.user]

(* ... then its freeze check, its verdict and the log row, in a transaction  *)
(* of its own.  The entity's row is neither read nor written.                *)
ReplayApply(s) ==
  /\ At(s, "apply")
  /\ LET c   == session[s]
         row == approvals[c.id]
     IN log' = IF /\ "FREEZE" \notin stop[row.entity]
                  /\ Verdict(ReplayInput(row, c.sig.signer)) = "APPLIED"
               THEN [log EXCEPT ![row.entity] =
                       Append(@, [from |-> row.from, to |-> row.to, actor |-> "CHECKER",
                                  via |-> c.id])]
               ELSE log
  /\ End(s)
  /\ UNCHANGED <<approvals, stop, sigs, late>>

-----------------------------------------------------------------------------
(* The process dies or the connection is lost between two statements.        *)
Drop(s) == s \in DOMAIN session /\ End(s) /\ UNCHANGED <<approvals, log, stop, sigs, late>>

(* Time passes expires_at; no sweeper changes the row.                       *)
Expire(id) == /\ id \in DOMAIN approvals \ late
              /\ late' = late \cup {id}
              /\ UNCHANGED <<approvals, log, stop, sigs, session>>

Impose(e, k) == /\ k \notin stop[e]
                /\ stop' = [stop EXCEPT ![e] = @ \cup {k}]
                /\ UNCHANGED <<approvals, log, sigs, late, session>>

Lift(e, k) ==
  /\ k \in stop[e]
  /\ stop' = [stop EXCEPT ![e] = @ \ {k}]
  /\ session' = [s \in DOMAIN session |->
                   IF approvals[session[s].id].entity = e
                   THEN [session[s] EXCEPT !.clear = @ \cup {k}] ELSE session[s]]
  /\ UNCHANGED <<approvals, log, sigs, late>>

SignOrReplay ==
  \/ \E s \in Sessions, id \in ApprovalIds :
       \/ \E p \in SigningAs, d \in Decisions : SignRead(s, id, [signer |-> p, decision |-> d])
       \/ \E sig \in sigs[id] : ReplayRead(s, id, sig)
  \/ \E s \in Sessions :
       \/ SignInsert(s)
       \/ SignStatus(s)
       \/ ReplayLock(s)
       \/ ReplayMarker(s)
       \/ ReplayFreeze(s)
       \/ ReplaySanction(s)
       \/ ReplayApply(s)
       \/ Drop(s)
  \/ \E id \in ApprovalIds : Expire(id)

SigningNext ==
  \/ SignOrReplay
  \/ \E id \in ApprovalIds, e \in Entities, edge \in Edges, c \in Callers : Submit(id, e, edge, c)
  \/ \E e \in Entities, k \in StopKinds : Impose(e, k) \/ Lift(e, k)

SigningSpec == SigningInit /\ [][SigningNext]_signingVars

-----------------------------------------------------------------------------
(* D-021-C over the whole protocol: a replayed transition carries an APPROVE *)
(* signature by a principal other than the one who asked for it, and was     *)
(* asked for by a tenant user.                                               *)
Countersigned(id) == \E sig \in sigs[id] :
                       /\ sig.decision = "APPROVE"
                       /\ Fingerprint(sig.signer) # Fingerprint(approvals[id].maker)

ReplayIsCountersigned ==
  \A e \in Entities : \A i \in 1..Len(log[e]) :
    LET id == log[e][i].via IN
    id # None => /\ id \in DOMAIN approvals
                 /\ approvals[id].entity = e
                 /\ approvals[id].maker.user # None
                 /\ Countersigned(id)

(* A decided approval has a signature that says so: the status column never *)
(* runs ahead of approval_signatures, whichever statement is the last to    *)
(* run before a crash.                                                      *)
DecisionHasSignature ==
  \A id \in DOMAIN approvals :
    /\ approvals[id].status = "APPROVED" => \E sig \in sigs[id] : sig.decision = "APPROVE"
    /\ approvals[id].status = "REJECTED" => \E sig \in sigs[id] : sig.decision = "REJECT"

(* "sanctions imposed after MAKER submission block the CHECKER replay": a   *)
(* replay during which the entity was sanctioned, or frozen, from its first *)
(* read on does not come to write.                                          *)
BlockedThroughoutIsNotReplayed ==
  \A s \in DOMAIN session :
    session[s].pc = "apply" => session[s].clear = StopKinds

(* verifyAndReplay's idempotency strategy, "Next concurrent caller:         *)
(* acquires lock after first commits, then sees the marker": an approval    *)
(* leaves at most one row in the lifecycle log.  Held while replays come    *)
(* one at a time.                                                           *)
ReplayedOnce ==
  \A e \in Entities : \A i, j \in 1..Len(log[e]) :
    log[e][i].via # None /\ log[e][i].via = log[e][j].via => i = j

(* "Only REQUESTED approvals can receive signatures": a decided approval    *)
(* receives none, and keeps its decision, through retries, replays and new  *)
(* requests for the same edge.  Held while signatures come one at a time.   *)
DecisionIsFinal ==
  [][\A id \in DOMAIN approvals :
       approvals[id].status # "REQUESTED" =>
         sigs'[id] = sigs[id] /\ approvals'[id].status = approvals[id].status]_signingVars
=============================================================================
