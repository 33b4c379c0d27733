-------------------------- MODULE ApprovalRegister --------------------------
(***************************************************************************)
(* What maker and checker promise each other: an approval is asked for     *)
(* once; while it is open, anyone but its maker may sign it; a decision    *)
(* rests on a signature that says so and closes it; and an approved one is *)
(* acted on at most once.  The approval service implements this, one call  *)
(* at a time, with four tables and up to seven statements a call.          *)
(***************************************************************************)
EXTENDS Naturals

CONSTANTS Ids, Parties

VARIABLES maker,    \* approval -> who asked for it
          signed,   \* approval -> its signatures, each a party and a decision
          status,   \* approval -> where it stands
          acted     \* approval -> how often it has been acted on

Decisions  == {"APPROVE", "REJECT"}
Outcome(d) == IF d = "APPROVE" THEN "APPROVED" ELSE "REJECTED"

With(f, id, value) == [i \in DOMAIN f \cup {id} |-> IF i = id THEN value ELSE f[i]]

Init == maker = << >> /\ signed = << >> /\ status = << >> /\ acted = << >>

Ask(id, p) ==
  /\ id \notin DOMAIN maker
  /\ maker' = With(maker, id, p)
  /\ signed' = With(signed, id, {})
  /\ status' = With(status, id, "REQUESTED")
  /\ acted' = With(acted, id, 0)

Sign(id, p, d) ==
  /\ status[id] = "REQUESTED" /\ p # maker[id]
  /\ signed' = [signed EXCEPT ![id] = @ \cup {<<p, d>>}]
  /\ UNCHANGED <<maker, status, acted>>

Decide(id, p, d) ==
  /\ status[id] = "REQUESTED" /\ <<p, d>> \in signed[id]
  /\ status' = [status EXCEPT ![id] = Outcome(d)]
  /\ UNCHANGED <<maker, signed, acted>>

Act(id) ==
  /\ status[id] = "APPROVED" /\ acted[id] = 0
  /\ acted' = [acted EXCEPT ![id] = 1]
  /\ UNCHANGED <<maker, signed, status>>

Next ==
  \/ \E id \in Ids, p \in Parties : Ask(id, p)
  \/ \E id \in DOMAIN maker :
       \/ \E p \in Parties, d \in Decisions : Sign(id, p, d) \/ Decide(id, p, d)
       \/ Act(id)

Spec == Init /\ [][Next]_<<maker, signed, status, acted>>
=============================================================================
