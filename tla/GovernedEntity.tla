--------------------------- MODULE GovernedEntity ---------------------------
(***************************************************************************)
(* The lifecycle pipeline and the maker-checker service over the same      *)
(* tables: a transition request may leave an approval request behind,      *)
(* signatures decide it, and a replay writes the log row the state machine *)
(* held back.  A freeze or a sanction is seen by both.                     *)
(***************************************************************************)
EXTENDS EntityLifecycle, MakerChecker, FiniteSets

governedVars == <<state, log, approvals, stop, tx, sigs, late, session>>

GovernedInit == Init /\ SigningInit

RequestStep ==
  /\ \E r \in Reqs :
       \/ \E e \in Entities, c \in Callers, to \in Targets, ai \in AiChoices : Begin(r, e, c, to, ai)
       \/ Progress(r)
       \/ Lose(r)
  /\ UNCHANGED <<sigs, late, session>>

SigningStep == SignOrReplay /\ UNCHANGED <<state, tx>>

(* A sanction or a freeze comes or goes under the requests and the calls    *)
(* that are open.                                                           *)
StopStep == \E e \in Entities, k \in StopKinds :
              \/ Block(e, k) /\ Impose(e, k)
              \/ Unblock(e, k) /\ Lift(e, k)

GovernedNext == RequestStep \/ SigningStep \/ StopStep

GovernedSpec == GovernedInit /\ [][GovernedNext]_governedVars

-----------------------------------------------------------------------------
(* The two-person rule end to end: the log never shows a maker-checker edge *)
(* taken without a countersigned approval of exactly that edge, nor any     *)
(* other edge taken in the name of an approval, whatever mix of requests,   *)
(* signatures, replays, losses and expiries produced it.                    *)
TakenRightly(row) ==
  \E edge \in Edges :
    /\ edge.from = row.from /\ edge.to = row.to
    /\ IF edge.mc
       THEN /\ row.via \in DOMAIN approvals
            /\ approvals[row.via].from = row.from
            /\ approvals[row.via].to = row.to
            /\ Countersigned(row.via)
       ELSE row.via = None

TwoPersonRule == \A e \in Entities : \A i \in 1..Len(log[e]) : TakenRightly(log[e][i])

(* A replay leaves the row of its entity alone, and the pipeline never      *)
(* takes up what a replay has logged: the row holds what the last log row   *)
(* without a marker entered, whatever replays have logged since.            *)
RowKeepsToPipeline ==
  \A e \in Entities :
    \/ state[e] = InitialState /\ \A i \in 1..Len(log[e]) : log[e][i].via # None
    \/ \E i \in 1..Len(log[e]) :
         /\ log[e][i].via = None /\ log[e][i].to = state[e]
         /\ \A j \in i+1..Len(log[e]) : log[e][j].via # None

(* The approvals as maker and checker see them: who asked, who signed what, *)
(* where it stands, and how many rows of the log were written in its name.  *)
Markers(id) == {i \in 1..Len(log[approvals[id].entity]) : log[approvals[id].entity][i].via = id}

Seen(sig) == << Fingerprint(sig.signer), sig.decision >>

Promise == INSTANCE ApprovalRegister
             WITH Ids     <- ApprovalIds,
                  Parties <- {Fingerprint(p) : p \in Callers \cup Signers},
                  maker   <- [id \in DOMAIN approvals |-> Fingerprint(approvals[id].maker)],
                  signed  <- [id \in DOMAIN approvals |-> {Seen(sig) : sig \in sigs[id]}],
                  status  <- [id \in DOMAIN approvals |-> approvals[id].status],
                  acted   <- [id \in DOMAIN approvals |-> Cardinality(Markers(id))]

(* Pipeline and service together keep what maker and checker are promised,  *)
(* through retries, replays, expiries and crashes between statements: only  *)
(* open approvals are signed, a decision is final and backed by a signature *)
(* of another, and an approval is replayed once.  Held while signatures and *)
(* replays come one at a time.                                              *)
ImplementsApprovalRegister == Promise!Spec
=============================================================================
