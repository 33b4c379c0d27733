--------------------------- MODULE FreezeRegister ---------------------------
(***************************************************************************)
(* What the escalation ledger promises the services that ask it "is this   *)
(* frozen?": a register of holds.  A hold is placed once, on one target;   *)
(* it is lifted at most once and never comes back; a target is frozen      *)
(* while one of its holds is not lifted.  Escalation implements this with  *)
(* append-only rows and a query.                                           *)
(***************************************************************************)
CONSTANTS Holds, Targets

VARIABLES held,     \* hold -> target, for every hold ever placed
          lifted    \* the holds that were lifted

Init == held = << >> /\ lifted = {}

Place(h, t) ==
  /\ h \notin DOMAIN held
  /\ held' = [g \in DOMAIN held \cup {h} |-> IF g = h THEN t ELSE held[g]]
  /\ UNCHANGED lifted

Lift(h) ==
  /\ h \in DOMAIN held \ lifted
  /\ lifted' = lifted \cup {h}
  /\ UNCHANGED held

Next == \E h \in Holds : Lift(h) \/ \E t \in Targets : Place(h, t)

Spec == Init /\ [][Next]_<<held, lifted>>
=============================================================================
