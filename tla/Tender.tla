------------------------------- MODULE Tender -------------------------------
(***************************************************************************)
(* What bidders, maker and checker are promised of an award: a supplier    *)
(* offers once; an offer is turned down or wins, and neither is taken      *)
(* back; one motion to award is before the checkers at a time, for an      *)
(* offer that stands; and when someone other than its maker carries it,    *)
(* its offer alone wins, every other is turned down and the tender is      *)
(* closed.  PoolAward implements this as long as no two requests overlap,  *)
(* with handlers that read and check first and then update rows by id.     *)
(***************************************************************************)
CONSTANTS Suppliers, Users, Ids

VARIABLES open,     \* the suppliers whose offer stands
          refused,  \* whose offer was turned down
          won,      \* whose offer has won
          closed,   \* no more offers
          motion,   \* id -> the supplier it would award to, and its maker
          pending,  \* the motions before the checkers
          votes     \* every signature given, with its decision

tables == <<open, refused, won, closed, motion, pending, votes>>

Init ==
  /\ open = {} /\ refused = {} /\ won = {} /\ closed = FALSE
  /\ motion = << >> /\ pending = {} /\ votes = {}

Offer(s) ==
  /\ ~closed /\ s \notin open \cup refused \cup won
  /\ open' = open \cup {s}
  /\ UNCHANGED <<refused, won, closed, motion, pending, votes>>

TurnDown(s) ==
  /\ ~closed /\ s \in open
  /\ open' = open \ {s}
  /\ refused' = refused \cup {s}
  /\ UNCHANGED <<won, closed, motion, pending, votes>>

Move(id, s, maker) ==
  /\ ~closed /\ s \in open /\ pending = {} /\ id \notin DOMAIN motion
  /\ motion' = [i \in DOMAIN motion \cup {id} |-> IF i = id THEN <<s, maker>> ELSE motion[i]]
  /\ pending' = {id}
  /\ UNCHANGED <<open, refused, won, closed, votes>>

(* A checker decides a pending motion; nothing decides it again.           *)
Vote(id, checker, decision) ==
  /\ id \in pending /\ checker # motion[id][2]
  /\ pending' = pending \ {id}
  /\ votes' = votes \cup {<<id, checker, decision>>}
  /\ UNCHANGED motion

Carry(id, checker) ==
  /\ Vote(id, checker, "APPROVE")
  /\ ~closed /\ motion[id][1] \in open
  /\ won' = {motion[id][1]} /\ open' = {}
  /\ refused' = refused \cup (open \ won')
  /\ closed' = TRUE

Dismiss(id, checker) ==
  /\ Vote(id, checker, "REJECT")
  /\ UNCHANGED <<open, refused, won, closed>>

Next ==
  \/ \E s \in Suppliers : Offer(s) \/ TurnDown(s)
  \/ \E id \in Ids, u \in Users : (\E s \in Suppliers : Move(id, s, u)) \/ Carry(id, u) \/ Dismiss(id, u)

Spec == Init /\ [][Next]_tables
=============================================================================
