--------------------------- MODULE TokenFamilies ---------------------------
(***************************************************************************)
(* What the refresh tokens promise whoever logs in: every login starts a   *)
(* family with one live token; a family changes its live token only by     *)
(* exchanging it for a token never issued before; and a family that loses  *)
(* its live token is closed for good.  RefreshTokens implements this with  *)
(* rows, two flags on each, a parent and concurrent transactions.          *)
(***************************************************************************)
CONSTANT Tokens

VARIABLES issued,   \* every token ever given out
          live      \* family -> the tokens it is good for now

Init == issued = {} /\ live = << >>

Start(t) ==
  /\ t \notin issued
  /\ issued' = issued \cup {t}
  /\ live' = [f \in DOMAIN live \cup {t} |-> IF f = t THEN {t} ELSE live[f]]

Exchange(f, t) ==
  /\ live[f] # {} /\ t \notin issued
  /\ issued' = issued \cup {t}
  /\ live' = [live EXCEPT ![f] = {t}]

Close(F) ==
  /\ live' = [f \in DOMAIN live |-> IF f \in F THEN {} ELSE live[f]]
  /\ UNCHANGED issued

Next ==
  \/ \E t \in Tokens : Start(t) \/ \E f \in DOMAIN live : Exchange(f, t)
  \/ \E F \in SUBSET DOMAIN live : Close(F)

Spec == Init /\ [][Next]_<<issued, live>>
=============================================================================
