------------------------ MODULE RefreshTokens_proofs ------------------------
EXTENDS RefreshTokens, TLAPS

(***************************************************************************)
(* What a step does to the open requests: one begins, one moves on, one    *)
(* ends, or none is touched.                                               *)
(***************************************************************************)
LEMMA BeginEffect ==
  ASSUME TypeOK, NEW r \in Reqs, NEW step \in Steps, NEW t \in DOMAIN token, Begin(r, step, t)
  PROVE  /\ DOMAIN tx' = DOMAIN tx \cup {r} /\ r \notin DOMAIN tx
         /\ tx'[r] = [step |-> step, token |-> t, saw |-> {}]
         /\ \A q \in DOMAIN tx : tx'[q] = tx[q]
         /\ UNCHANGED <<accounts, token, replayed, missed>>
         /\ TypeOK'
<1>1. /\ DOMAIN tx' = DOMAIN tx \cup {r} /\ r \notin DOMAIN tx
      /\ tx'[r] = [step |-> step, token |-> t, saw |-> {}]
      /\ \A q \in DOMAIN tx : tx'[q] = tx[q]
      /\ UNCHANGED <<accounts, token, replayed, missed>>
  BY DEF Begin
<1>2. tx'[r] \in Request
  BY <1>1 DEF TypeOK, Request
<1>3. DOMAIN tx' \subseteq Reqs /\ tx' \in [DOMAIN tx' -> Request]
  BY <1>1, <1>2 DEF TypeOK, Begin
<1>4. \A q \in DOMAIN tx' : {tx'[q].token} \cup tx'[q].saw \subseteq DOMAIN token
  BY <1>1 DEF TypeOK
<1> QED BY <1>1, <1>3, <1>4 DEF TypeOK

LEMMA MoveEffect ==
  ASSUME TypeOK, NEW r \in DOMAIN tx, NEW step \in Steps, NEW saw \in SUBSET DOMAIN token,
         Move(r, step, saw)
  PROVE  /\ DOMAIN tx' = DOMAIN tx
         /\ tx'[r] = [step |-> step, token |-> tx[r].token, saw |-> saw]
         /\ \A q \in DOMAIN tx \ {r} : tx'[q] = tx[q]
         /\ UNCHANGED <<accounts, token, replayed, missed>>
         /\ TypeOK'
<1>1. /\ DOMAIN tx' = DOMAIN tx
      /\ tx'[r] = [step |-> step, token |-> tx[r].token, saw |-> saw]
      /\ \A q \in DOMAIN tx \ {r} : tx'[q] = tx[q]
      /\ UNCHANGED <<accounts, token, replayed, missed>>
  BY DEF Move, TypeOK
<1>2. tx[r] \in Request /\ tx[r].token \in DOMAIN token
  BY DEF TypeOK
<1>3. tx'[r] \in Request
  BY <1>1, <1>2 DEF TypeOK, Request
<1>4. tx' \in [DOMAIN tx' -> Request]
  BY <1>1, <1>3 DEF TypeOK, Move
<1>5. \A q \in DOMAIN tx' : {tx'[q].token} \cup tx'[q].saw \subseteq DOMAIN token
  BY <1>1, <1>2 DEF TypeOK
<1> QED BY <1>1, <1>4, <1>5 DEF TypeOK

LEMMA EndEffect ==
  ASSUME TypeOK, NEW r \in DOMAIN tx, End(r), DOMAIN token \subseteq DOMAIN token'
  PROVE  /\ DOMAIN tx' = DOMAIN tx \ {r}
         /\ \A q \in DOMAIN tx \ {r} : tx'[q] = tx[q]
         /\ DOMAIN tx' \subseteq Reqs /\ tx' \in [DOMAIN tx' -> Request]
         /\ \A q \in DOMAIN tx' : {tx'[q].token} \cup tx'[q].saw \subseteq DOMAIN token'
<1>1. /\ DOMAIN tx' = DOMAIN tx \ {r}
      /\ \A q \in DOMAIN tx \ {r} : tx'[q] = tx[q]
  BY DEF End
<1>2. tx' \in [DOMAIN tx' -> Request]
  BY <1>1 DEF TypeOK, End
<1> QED BY <1>1, <1>2 DEF TypeOK

(***************************************************************************)
(* What the steps that write refresh_tokens do to it.                      *)
(***************************************************************************)
LEMMA LoginEffect ==
  ASSUME TypeOK, NEW t \in Tokens, NEW a \in Accounts, Login(t, a)
  PROVE  /\ t \notin DOMAIN token /\ DOMAIN token' = DOMAIN token \cup {t}
         /\ token'[t] = [owner |-> a, family |-> t, parent |-> None, rotated |-> FALSE, revoked |-> FALSE]
         /\ token'[t].family = t
         /\ \A x \in DOMAIN token : token'[x] = token[x]
         /\ UNCHANGED <<accounts, tx, replayed, missed>>
         /\ TypeOK'
<1> DEFINE row == [owner |-> a, family |-> t, parent |-> None, rotated |-> FALSE, revoked |-> FALSE]
<1>1. t \notin DOMAIN token /\ token' = Insert(t, row, token) /\ UNCHANGED <<accounts, tx, replayed, missed>>
  BY DEF Login
<1>2. /\ DOMAIN token' = DOMAIN token \cup {t} /\ token'[t] = row
      /\ \A x \in DOMAIN token : token'[x] = token[x]
  BY <1>1 DEF Insert
<1>3. row \in Row
  BY DEF Row
<1>4. token' \in [DOMAIN token' -> Row]
  BY <1>1, <1>2, <1>3 DEF Insert, TypeOK
<1>5. TypeOK'
  BY <1>1, <1>2, <1>4 DEF TypeOK
<1>6. token'[t].family = t
  BY <1>2
<1> QED BY <1>1, <1>2, <1>5, <1>6

LEMMA RotateEffect ==
  ASSUME TypeOK, NEW r \in Reqs, NEW new \in Tokens, Rotate(r, new)
  PROVE  LET old == tx[r].token IN
         /\ r \in DOMAIN tx /\ tx[r].step = "commit" /\ old \in DOMAIN token /\ token[old].owner \in accounts
         /\ new \notin DOMAIN token /\ DOMAIN token' = DOMAIN token \cup {new}
         /\ token'[new] = [owner |-> token[old].owner, family |-> token[old].family, parent |-> old,
                           rotated |-> FALSE, revoked |-> FALSE]
         /\ token'[new].family = token[old].family
         /\ token'[old] = [token[old] EXCEPT !.rotated = TRUE]
         /\ \A x \in DOMAIN token \ {old} : token'[x] = token[x]
         /\ missed' = IF old \in missed \/ \E q \in DOMAIN tx : tx[q].step = "revoking" /\ old \in tx[q].saw
                      THEN missed \cup {new} ELSE missed
         /\ DOMAIN tx' = DOMAIN tx \ {r} /\ \A q \in DOMAIN tx \ {r} : tx'[q] = tx[q]
         /\ UNCHANGED <<accounts, replayed>>
         /\ TypeOK'
<1> DEFINE old == tx[r].token
           row == [owner |-> token[old].owner, family |-> token[old].family, parent |-> old,
                   rotated |-> FALSE, revoked |-> FALSE]
           base == [token EXCEPT ![old].rotated = TRUE]
<1>1. /\ r \in DOMAIN tx /\ tx[r].step = "commit" /\ new \notin DOMAIN token /\ token[old].owner \in accounts
      /\ token' = Insert(new, row, base)
      /\ missed' = IF old \in missed \/ \E q \in DOMAIN tx : tx[q].step = "revoking" /\ old \in tx[q].saw
                   THEN missed \cup {new} ELSE missed
      /\ End(r) /\ UNCHANGED <<accounts, replayed>>
  BY DEF Rotate, Succeed, At
<1>2. old \in DOMAIN token /\ token[old] \in Row
  BY <1>1 DEF TypeOK
<1>3. /\ DOMAIN base = DOMAIN token /\ base[old] = [token[old] EXCEPT !.rotated = TRUE]
      /\ \A x \in DOMAIN token \ {old} : base[x] = token[x]
  BY <1>2 DEF TypeOK
<1>4. /\ DOMAIN token' = DOMAIN token \cup {new} /\ token'[new] = row
      /\ \A x \in DOMAIN token : token'[x] = base[x]
  BY <1>1, <1>3 DEF Insert
<1>5. row \in Row /\ \A x \in DOMAIN token : base[x] \in Row
  <2>1. row \in Row
    BY <1>2 DEF TypeOK, Row
  <2>2. base[old] \in Row
    BY <1>2, <1>3 DEF Row
  <2> QED BY <2>1, <2>2, <1>3 DEF TypeOK
<1>6. token' \in [DOMAIN token' -> Row]
  BY <1>1, <1>4, <1>5 DEF Insert
<1>7. /\ DOMAIN tx' = DOMAIN tx \ {r} /\ \A q \in DOMAIN tx \ {r} : tx'[q] = tx[q]
      /\ DOMAIN tx' \subseteq Reqs /\ tx' \in [DOMAIN tx' -> Request]
      /\ \A q \in DOMAIN tx' : {tx'[q].token} \cup tx'[q].saw \subseteq DOMAIN token'
  BY <1>1, <1>4, EndEffect
<1>8. TypeOK'
  BY <1>1, <1>4, <1>6, <1>7 DEF TypeOK
<1>9. token'[new].family = token[old].family
  BY <1>4
<1> QED BY <1>1, <1>2, <1>3, <1>4, <1>7, <1>8, <1>9

(* A revocation, of a family or at logout, spares the claimed tokens.        *)
LEMMA RevokeEffect ==
  ASSUME TypeOK, NEW r \in Reqs, RevokeFamily(r) \/ Logout(r)
  PROVE  /\ r \in DOMAIN tx
         /\ \E gone \in SUBSET DOMAIN token :
              /\ \A t \in gone : ~Claimed(t)
              /\ DOMAIN token' = DOMAIN token
              /\ \A t \in gone : token'[t] = [token[t] EXCEPT !.revoked = TRUE]
              /\ \A t \in DOMAIN token \ gone : token'[t] = token[t]
              /\ RevokeFamily(r) => gone = tx[r].saw
         /\ DOMAIN tx' = DOMAIN tx \ {r} /\ \A q \in DOMAIN tx \ {r} : tx'[q] = tx[q]
         /\ UNCHANGED <<accounts, missed>>
         /\ TypeOK'
<1>1. PICK gone \in SUBSET DOMAIN token :
              /\ r \in DOMAIN tx
              /\ \A t \in gone : ~Claimed(t)
              /\ DOMAIN token' = DOMAIN token
              /\ \A t \in gone : token'[t] = [token[t] EXCEPT !.revoked = TRUE]
              /\ \A t \in DOMAIN token \ gone : token'[t] = token[t]
              /\ RevokeFamily(r) => gone = tx[r].saw
              /\ End(r) /\ UNCHANGED <<accounts, missed>> /\ replayed' \subseteq Tokens
              /\ token' \in [DOMAIN token -> Row]
  <2>1. CASE RevokeFamily(r)
    <3>1. tx[r].saw \in SUBSET DOMAIN token
      BY <2>1 DEF RevokeFamily, At, TypeOK
    <3>2. \A t \in DOMAIN token : token[t] \in Row /\ [token[t] EXCEPT !.revoked = TRUE] \in Row
      BY DEF TypeOK, Row
    <3>3. /\ DOMAIN token' = DOMAIN token
          /\ \A t \in tx[r].saw : token'[t] = [token[t] EXCEPT !.revoked = TRUE]
          /\ \A t \in DOMAIN token \ tx[r].saw : token'[t] = token[t]
      BY <2>1, <3>1 DEF RevokeFamily
    <3>4. token' \in [DOMAIN token -> Row]
      BY <2>1, <3>2 DEF RevokeFamily
    <3>5. token[tx[r].token].family \in Tokens /\ r \in DOMAIN tx
      BY <2>1 DEF RevokeFamily, At, TypeOK, Row
    <3>6. replayed' \subseteq Tokens /\ End(r) /\ UNCHANGED <<accounts, missed>> /\ \A t \in tx[r].saw : ~Claimed(t)
      BY <2>1, <3>5 DEF RevokeFamily, TypeOK
    <3> QED BY <3>1, <3>3, <3>4, <3>5, <3>6
  <2>2. CASE Logout(r) /\ ~RevokeFamily(r)
    <3>1. tx[r].token \in DOMAIN token /\ token[tx[r].token] \in Row
      BY <2>2 DEF Logout, At, TypeOK
    <3>2. [token[tx[r].token] EXCEPT !.revoked = TRUE] \in Row
      BY <3>1 DEF Row
    <3>3. /\ DOMAIN token' = DOMAIN token
          /\ token'[tx[r].token] = [token[tx[r].token] EXCEPT !.revoked = TRUE]
          /\ \A t \in DOMAIN token \ {tx[r].token} : token'[t] = token[t]
          /\ token' \in [DOMAIN token -> Row]
      BY <2>2, <3>1, <3>2 DEF Logout, TypeOK
    <3>4. /\ r \in DOMAIN tx /\ End(r) /\ UNCHANGED <<accounts, missed>> /\ replayed' \subseteq Tokens
          /\ ~Claimed(tx[r].token)
      BY <2>2 DEF Logout, At, TypeOK
    <3>5. {tx[r].token} \in SUBSET DOMAIN token /\ \A t \in {tx[r].token} : ~Claimed(t)
      BY <3>1, <3>4
    <3> QED BY <2>2, <3>3, <3>4, <3>5
  <2> QED BY <2>1, <2>2
<1>2. /\ DOMAIN tx' = DOMAIN tx \ {r} /\ \A q \in DOMAIN tx \ {r} : tx'[q] = tx[q]
      /\ DOMAIN tx' \subseteq Reqs /\ tx' \in [DOMAIN tx' -> Request]
      /\ \A q \in DOMAIN tx' : {tx'[q].token} \cup tx'[q].saw \subseteq DOMAIN token'
  BY <1>1, EndEffect
<1>3. TypeOK'
  BY <1>1, <1>2 DEF TypeOK
<1> QED BY <1>1, <1>2, <1>3

(* The steps that write no token: an open request begins, moves or ends.     *)
Quiet ==
  \/ \E r \in Reqs, t \in Tokens : BeginRefresh(r, t) \/ BeginReplay(r, t) \/ BeginLogout(r, t)
  \/ \E r \in Reqs : Claim(r) \/ LoseClaim(r) \/ SeeFamily(r) \/ Abort(r)

LEMMA NextSplit ==
  ASSUME Next
  PROVE  \/ \E t \in Tokens, a \in Accounts : Login(t, a)
         \/ Quiet
         \/ \E r \in Reqs, t \in Tokens : Rotate(r, t)
         \/ \E r \in Reqs : RevokeFamily(r) \/ Logout(r)
         \/ \E a \in Admins : RemoveAdmin(a)
BY DEF Next, Refreshing, LoggingOut, Quiet

(* A quiet step that leaves a request claimed has it claim a fresh token     *)
(* nobody holds; one that starts a revocation has it see every unrevoked row *)
(* of the family.                                                            *)
LEMMA QuietEffect ==
  ASSUME TypeOK, Quiet
  PROVE  /\ TypeOK' /\ UNCHANGED <<accounts, token, replayed, missed>>
         /\ \A q \in DOMAIN tx' :
              \/ q \in DOMAIN tx /\ tx'[q] = tx[q]
              \/ tx'[q].step \notin {"commit", "revoking"}
              \/ /\ tx'[q].step = "commit" /\ Fresh(tx'[q].token) /\ ~Claimed(tx'[q].token)
                 /\ \A x \in DOMAIN tx' \ {q} : x \in DOMAIN tx /\ tx'[x] = tx[x]
              \/ /\ tx'[q].step = "revoking"
                 /\ tx'[q].saw = {t \in Family(token[tx'[q].token].family) : Present(t) /\ ~token[t].revoked}
<1>1. CASE \E r \in Reqs, t \in Tokens : BeginRefresh(r, t) \/ BeginReplay(r, t) \/ BeginLogout(r, t)
  <2>1. PICK r \in Reqs, t \in Tokens : BeginRefresh(r, t) \/ BeginReplay(r, t) \/ BeginLogout(r, t)
    BY <1>1
  <2>2. PICK step \in {"claim", "revoke", "logout"} : t \in DOMAIN token /\ Begin(r, step, t)
    BY <2>1 DEF BeginRefresh, BeginReplay, BeginLogout, Accepted, Present
  <2>3. step \in Steps /\ step \notin {"commit", "revoking"}
    BY DEF Steps
  <2>4. /\ DOMAIN tx' = DOMAIN tx \cup {r}
        /\ tx'[r] = [step |-> step, token |-> t, saw |-> {}]
        /\ \A q \in DOMAIN tx : tx'[q] = tx[q]
        /\ UNCHANGED <<accounts, token, replayed, missed>>
        /\ TypeOK'
    BY <2>2, <2>3, BeginEffect
  <2> QED BY <2>3, <2>4
<1>2. CASE \E r \in Reqs : Claim(r)
  <2>1. PICK r \in Reqs : Claim(r)
    BY <1>2
  <2>2. /\ r \in DOMAIN tx /\ Move(r, "commit", {}) /\ Fresh(tx[r].token) /\ ~Claimed(tx[r].token)
        /\ "commit" \in Steps
    BY <2>1 DEF Claim, At, Steps
  <2>3. /\ DOMAIN tx' = DOMAIN tx
        /\ tx'[r] = [step |-> "commit", token |-> tx[r].token, saw |-> {}]
        /\ \A q \in DOMAIN tx \ {r} : tx'[q] = tx[q]
        /\ UNCHANGED <<accounts, token, replayed, missed>>
        /\ TypeOK'
    BY <2>2, MoveEffect
  <2>4. Fresh(tx'[r].token) /\ ~Claimed(tx'[r].token) /\ tx'[r].step = "commit"
    BY <2>2, <2>3
  <2> QED BY <2>3, <2>4
<1>3. CASE \E r \in Reqs : LoseClaim(r)
  <2>1. PICK r \in Reqs : LoseClaim(r)
    BY <1>3
  <2>2. r \in DOMAIN tx /\ Move(r, "revoke", {}) /\ "revoke" \in Steps
    BY <2>1 DEF LoseClaim, At, Steps
  <2>3. /\ DOMAIN tx' = DOMAIN tx
        /\ tx'[r] = [step |-> "revoke", token |-> tx[r].token, saw |-> {}]
        /\ \A q \in DOMAIN tx \ {r} : tx'[q] = tx[q]
        /\ UNCHANGED <<accounts, token, replayed, missed>>
        /\ TypeOK'
    BY <2>2, MoveEffect
  <2> QED BY <2>3
<1>4. CASE \E r \in Reqs : SeeFamily(r)
  <2>1. PICK r \in Reqs : SeeFamily(r)
    BY <1>4
  <2> DEFINE saw == {t \in Family(token[tx[r].token].family) : Present(t) /\ ~token[t].revoked}
  <2>2. r \in DOMAIN tx /\ Move(r, "revoking", saw) /\ "revoking" \in Steps /\ saw \in SUBSET DOMAIN token
    BY <2>1 DEF SeeFamily, At, Steps, Family
  <2> HIDE DEF saw
  <2>3. /\ DOMAIN tx' = DOMAIN tx
        /\ tx'[r] = [step |-> "revoking", token |-> tx[r].token, saw |-> saw]
        /\ \A q \in DOMAIN tx \ {r} : tx'[q] = tx[q]
        /\ UNCHANGED <<accounts, token, replayed, missed>>
        /\ TypeOK'
    BY <2>2, MoveEffect
  <2>4. tx'[r].step = "revoking" /\ tx'[r].saw = {t \in Family(token[tx'[r].token].family) : Present(t) /\ ~token[t].revoked}
    BY <2>3 DEF saw
  <2> QED BY <2>3, <2>4
<1>5. CASE \E r \in Reqs : Abort(r)
  <2>1. PICK r \in Reqs : Abort(r)
    BY <1>5
  <2>2. /\ r \in DOMAIN tx /\ End(r) /\ UNCHANGED <<accounts, token, replayed, missed>>
    BY <2>1 DEF Abort
  <2>3. /\ DOMAIN tx' = DOMAIN tx \ {r} /\ \A q \in DOMAIN tx \ {r} : tx'[q] = tx[q]
        /\ DOMAIN tx' \subseteq Reqs /\ tx' \in [DOMAIN tx' -> Request]
        /\ \A q \in DOMAIN tx' : {tx'[q].token} \cup tx'[q].saw \subseteq DOMAIN token'
    BY <2>2, EndEffect
  <2>4. TypeOK'
    BY <2>2, <2>3 DEF TypeOK
  <2> QED BY <2>2, <2>3, <2>4
<1> QED BY <1>1, <1>2, <1>3, <1>4, <1>5 DEF Quiet

LEMMA RemoveEffect ==
  ASSUME TypeOK, NEW a \in Admins, RemoveAdmin(a)
  PROVE  /\ TypeOK' /\ UNCHANGED <<token, tx, replayed, missed>>
         /\ accounts' = accounts \ {a}
         /\ \A t \in DOMAIN token : token[t].owner = a => ~Claimed(t)
BY DEF RemoveAdmin, TypeOK

(* The column types, for any number of accounts, tokens and requests.        *)
THEOREM TypeCorrect == Spec => []TypeOK
<1>1. Init => TypeOK
  BY DEF Init, TypeOK
<1>2. TypeOK /\ [Next]_vars => TypeOK'
  <2> SUFFICES ASSUME TypeOK, [Next]_vars PROVE TypeOK'
    OBVIOUS
  <2>1. CASE Next
    BY <2>1, NextSplit, LoginEffect, QuietEffect, RotateEffect, RevokeEffect, RemoveEffect
  <2>2. CASE UNCHANGED vars
    BY <2>2 DEF vars, TypeOK
  <2> QED BY <2>1, <2>2
<1> QED BY <1>1, <1>2, PTL DEF Spec

-----------------------------------------------------------------------------
(***************************************************************************)
(* Single use.  A claim is a lock on a fresh token, and rows of a family   *)
(* hang together by their parents.                                         *)
(***************************************************************************)
ClaimsHold ==
  \A q, r \in DOMAIN tx : tx[q].step = "commit" =>
    /\ Fresh(tx[q].token)
    /\ tx[r].step = "commit" /\ tx[r].token = tx[q].token => q = r

Rooted ==
  \A t \in DOMAIN token :
    /\ token[t].family \in DOMAIN token
    /\ token[t].parent \in DOMAIN token \cup {None}

IInv == TypeOK /\ ClaimsHold /\ Rooted /\ SingleUse

LEMMA LoginKeeps ==
  ASSUME IInv, NEW t \in Tokens, NEW a \in Accounts, Login(t, a)
  PROVE  IInv'
<1>1. /\ t \notin DOMAIN token /\ DOMAIN token' = DOMAIN token \cup {t}
      /\ token'[t] = [owner |-> a, family |-> t, parent |-> None, rotated |-> FALSE, revoked |-> FALSE]
      /\ \A x \in DOMAIN token : token'[x] = token[x]
      /\ UNCHANGED <<accounts, tx, replayed, missed>>
      /\ TypeOK'
  BY LoginEffect DEF IInv
<1>2. \A x \in DOMAIN token : Fresh(x)' <=> Fresh(x)
  BY <1>1 DEF Fresh, Present
<1>3. ClaimsHold'
  BY <1>1, <1>2 DEF IInv, ClaimsHold, TypeOK
<1>4. Rooted'
  BY <1>1 DEF IInv, Rooted
<1>5. SingleUse'
  <2>1. \A x \in DOMAIN token' : token'[x].rotated <=> \E s \in DOMAIN token' : token'[s].parent = x
    <3>1. \A s \in DOMAIN token : token[s].parent # t
      BY <1>1, RefreshTokensAssumption DEF IInv, Rooted
    <3>2. ~token'[t].rotated /\ token'[t].parent = None /\ \A x \in DOMAIN token' : x # None
      BY <1>1, RefreshTokensAssumption DEF IInv, TypeOK
    <3> QED BY <1>1, <3>1, <3>2 DEF IInv, SingleUse
  <2>2. \A s, x \in DOMAIN token' : s # x /\ token'[s].parent = token'[x].parent => token'[s].parent = None
    BY <1>1 DEF IInv, SingleUse
  <2>3. \A s, x \in DOMAIN token' :
          token'[s].family = token'[x].family /\ Fresh(s)' /\ Fresh(x)' => s = x
    BY <1>1, <1>2 DEF IInv, SingleUse, Rooted
  <2> QED BY <2>1, <2>2, <2>3 DEF SingleUse
<1> QED BY <1>1, <1>3, <1>4, <1>5 DEF IInv

LEMMA QuietKeeps ==
  ASSUME IInv, Quiet
  PROVE  IInv'
<1>1. /\ TypeOK' /\ UNCHANGED <<accounts, token, replayed, missed>>
      /\ \A q \in DOMAIN tx' :
           \/ q \in DOMAIN tx /\ tx'[q] = tx[q]
           \/ tx'[q].step # "commit"
           \/ /\ Fresh(tx'[q].token) /\ ~Claimed(tx'[q].token)
              /\ \A x \in DOMAIN tx' \ {q} : x \in DOMAIN tx /\ tx'[x] = tx[x]
  BY QuietEffect DEF IInv
<1>2. \A x : Fresh(x)' <=> Fresh(x)
  BY <1>1 DEF Fresh, Present
<1>3. ClaimsHold'
  <2> SUFFICES ASSUME NEW q \in DOMAIN tx', NEW r \in DOMAIN tx', tx'[q].step = "commit"
               PROVE  /\ Fresh(tx[q].token)'
                      /\ tx'[r].step = "commit" /\ tx'[r].token = tx'[q].token => q = r
    BY DEF ClaimsHold
  <2> USE DEF Claimed
  <2>1. Fresh(tx'[q].token)
    BY <1>1 DEF IInv, ClaimsHold
  <2>3. Fresh(tx[q].token)'
    BY <1>1, <2>1 DEF Fresh, Present
  <2>2. tx'[r].step = "commit" /\ tx'[r].token = tx'[q].token => q = r
    BY <1>1 DEF IInv, ClaimsHold
  <2> QED BY <2>3, <2>2
<1>4. Rooted' /\ SingleUse'
  BY <1>1, <1>2 DEF IInv, Rooted, SingleUse
<1> QED BY <1>1, <1>3, <1>4 DEF IInv

LEMMA RotateKeeps ==
  ASSUME IInv, NEW r \in Reqs, NEW new \in Tokens, Rotate(r, new)
  PROVE  IInv'
<1>1. PICK old \in DOMAIN token :
        /\ r \in DOMAIN tx /\ tx[r].step = "commit" /\ old = tx[r].token
        /\ new \notin DOMAIN token /\ DOMAIN token' = DOMAIN token \cup {new}
        /\ token'[new] = [owner |-> token[old].owner, family |-> token[old].family, parent |-> old,
                          rotated |-> FALSE, revoked |-> FALSE]
        /\ token'[old] = [token[old] EXCEPT !.rotated = TRUE]
        /\ \A x \in DOMAIN token \ {old} : token'[x] = token[x]
        /\ DOMAIN tx' = DOMAIN tx \ {r} /\ \A q \in DOMAIN tx \ {r} : tx'[q] = tx[q]
        /\ UNCHANGED accounts
        /\ TypeOK'
  BY RotateEffect DEF IInv
<1>2. Fresh(old) /\ token[old] \in Row
  BY <1>1 DEF IInv, ClaimsHold, TypeOK
<1>3. /\ token'[old].rotated /\ token'[old].owner = token[old].owner /\ token'[old].family = token[old].family
      /\ token'[old].parent = token[old].parent
  BY <1>1, <1>2 DEF Row
<1>4. \A x \in DOMAIN token \ {old} : Fresh(x)' <=> Fresh(x)
  BY <1>1 DEF Fresh, Present
<1>5. ~Fresh(old)'
  BY <1>3 DEF Fresh
<1>6. ClaimsHold'
  <2>1. \A q \in DOMAIN tx' : tx'[q] = tx[q] /\ q \in DOMAIN tx /\ tx[q].token \in DOMAIN token
    BY <1>1 DEF IInv, TypeOK
  <2>2. \A q \in DOMAIN tx' : tx[q].step = "commit" => tx[q].token # old
    BY <1>1 DEF IInv, ClaimsHold
  <2>3. \A q \in DOMAIN tx' : tx'[q].step = "commit" => Fresh(tx[q].token)'
    <3> TAKE q \in DOMAIN tx'
    <3> HAVE tx'[q].step = "commit"
    <3> PICK t : t = tx[q].token
      OBVIOUS
    <3>1. t \in DOMAIN token \ {old} /\ Fresh(t) /\ tx'[q].token = t
      BY <2>1, <2>2 DEF IInv, ClaimsHold
    <3>2. Fresh(t)'
      BY <3>1, <1>4
    <3> QED BY <3>1, <3>2
  <2> QED BY <2>1, <2>3 DEF IInv, ClaimsHold
<1>7. Rooted'
  <2>1. \A x \in DOMAIN token : token'[x].family = token[x].family /\ token'[x].parent = token[x].parent
    BY <1>1, <1>3
  <2>2. token'[new].family = token[old].family /\ token'[new].parent = old
    BY <1>1
  <2> QED BY <1>1, <2>1, <2>2 DEF IInv, Rooted
<1>8. SingleUse'
  <2>1. \A x \in DOMAIN token' : token'[x].rotated <=> \E s \in DOMAIN token' : token'[s].parent = x
    <3>1. \A s \in DOMAIN token : token'[s].parent = token[s].parent
      BY <1>1, <1>3
    <3>2. \A s \in DOMAIN token : token[s].parent # new
      BY <1>1, RefreshTokensAssumption DEF IInv, Rooted
    <3>3. token'[new].parent = old /\ ~token'[new].rotated /\ new # old
      BY <1>1
    <3>4. \A x \in DOMAIN token : token[x].rotated <=> \E s \in DOMAIN token : token[s].parent = x
      BY DEF IInv, SingleUse
    <3> TAKE x \in DOMAIN token'
    <3>5. CASE x = new
      BY <1>1, <3>1, <3>2, <3>3, <3>5
    <3>6. CASE x = old
      BY <1>1, <1>3, <3>3, <3>6
    <3>7. CASE x \notin {new, old}
      <4>1. x \in DOMAIN token /\ token'[x] = token[x]
        BY <1>1, <3>7
      <4> QED BY <1>1, <4>1, <3>1, <3>3, <3>4, <3>7
    <3> QED BY <3>5, <3>6, <3>7
  <2>2. \A s, x \in DOMAIN token' : s # x /\ token'[s].parent = token'[x].parent => token'[s].parent = None
    <3>1. ~token[old].rotated
      BY <1>2 DEF Fresh
    <3>2. \A s \in DOMAIN token : token'[s].parent = token[s].parent /\ token[s].parent # old
      BY <1>1, <1>3, <3>1 DEF IInv, SingleUse
    <3>3. token'[new].parent = old
      BY <1>1
    <3> QED BY <1>1, <3>2, <3>3 DEF IInv, SingleUse
  <2>3. \A s, x \in DOMAIN token' :
          token'[s].family = token'[x].family /\ Fresh(s)' /\ Fresh(x)' => s = x
    <3>1. \A s \in DOMAIN token : /\ token'[s].family = token[s].family
                                  /\ Fresh(s)' => Fresh(s) /\ s # old
      BY <1>1, <1>3, <1>4, <1>5
    <3>2. token'[new].family = token[old].family
      BY <1>1
    <3>3. \A s \in DOMAIN token : Fresh(s) /\ token[s].family = token[old].family => s = old
      BY <1>2 DEF IInv, SingleUse
    <3> QED BY <1>1, <3>1, <3>2, <3>3 DEF IInv, SingleUse
  <2> QED BY <2>1, <2>2, <2>3 DEF SingleUse
<1> QED BY <1>1, <1>6, <1>7, <1>8 DEF IInv

LEMMA RevokeKeeps ==
  ASSUME IInv, NEW r \in Reqs, RevokeFamily(r) \/ Logout(r)
  PROVE  IInv'
<1>1. PICK gone \in SUBSET DOMAIN token :
        /\ \A t \in gone : ~Claimed(t)
        /\ DOMAIN token' = DOMAIN token
        /\ \A t \in gone : token'[t] = [token[t] EXCEPT !.revoked = TRUE]
        /\ \A t \in DOMAIN token \ gone : token'[t] = token[t]
        /\ DOMAIN tx' = DOMAIN tx \ {r} /\ \A q \in DOMAIN tx \ {r} : tx'[q] = tx[q]
        /\ UNCHANGED accounts
        /\ TypeOK'
  BY RevokeEffect DEF IInv
<1>2. \A t \in DOMAIN token :
        /\ token'[t].rotated = token[t].rotated /\ token'[t].parent = token[t].parent
        /\ token'[t].family = token[t].family /\ token'[t].owner = token[t].owner
  <2> TAKE t \in DOMAIN token
  <2>1. token[t] \in Row
    BY DEF IInv, TypeOK
  <2>2. CASE t \in gone
    <3>1. token'[t] = [token[t] EXCEPT !.revoked = TRUE]
      BY <1>1, <2>2
    <3> QED BY <2>1, <3>1 DEF Row
  <2>3. CASE t \notin gone
    BY <1>1, <2>3
  <2> QED BY <2>2, <2>3
<1>3. \A t \in DOMAIN token : Fresh(t) /\ t \notin gone => Fresh(t)'
  BY <1>1 DEF Fresh, Present
<1>4. \A t \in DOMAIN token : Fresh(t)' => Fresh(t)
  <2> TAKE t \in DOMAIN token
  <2>1. CASE t \in gone
    <3>1. token[t] \in Row /\ token'[t] = [token[t] EXCEPT !.revoked = TRUE]
      BY <1>1, <2>1 DEF IInv, TypeOK
    <3>2. token'[t].revoked
      BY <3>1 DEF Row
    <3> QED BY <3>2 DEF Fresh
  <2>2. CASE t \notin gone
    BY <1>1, <2>2 DEF Fresh, Present
  <2> QED BY <2>1, <2>2
<1>5. ClaimsHold'
  BY <1>1, <1>3 DEF IInv, ClaimsHold, TypeOK, Claimed
<1>6. Rooted'
  BY <1>1, <1>2 DEF IInv, Rooted
<1>7. SingleUse'
  <2>1. \A s, t \in DOMAIN token' :
          token'[s].family = token'[t].family /\ Fresh(s)' /\ Fresh(t)' => s = t
    <3> SUFFICES ASSUME NEW s \in DOMAIN token, NEW t \in DOMAIN token,
                        token'[s].family = token'[t].family, Fresh(s)', Fresh(t)'
                 PROVE  s = t
      BY <1>1
    <3>1. Fresh(s) /\ Fresh(t)
      BY <1>4
    <3>2. token[s].family = token[t].family
      BY <1>2
    <3> QED BY <3>1, <3>2 DEF IInv, SingleUse
  <2> QED BY <1>1, <1>2, <2>1 DEF IInv, SingleUse
<1> QED BY <1>1, <1>5, <1>6, <1>7 DEF IInv

LEMMA RemoveKeeps ==
  ASSUME IInv, NEW a \in Admins, RemoveAdmin(a)
  PROVE  IInv'
<1>1. /\ TypeOK' /\ UNCHANGED <<token, tx, replayed, missed>>
      /\ accounts' = accounts \ {a}
      /\ \A t \in DOMAIN token : token[t].owner = a => ~Claimed(t)
  BY RemoveEffect DEF IInv
<1>2. \A t : Fresh(t)' => Fresh(t)
  BY <1>1 DEF Fresh, Present
<1>3. ClaimsHold'
  BY <1>1 DEF IInv, ClaimsHold, Fresh, Present, Claimed
<1> QED BY <1>1, <1>2, <1>3 DEF IInv, Rooted, SingleUse

LEMMA IInvInductive == IInv /\ [Next]_vars => IInv'
<1> SUFFICES ASSUME IInv, [Next]_vars PROVE IInv'
  OBVIOUS
<1>1. CASE Next
  BY <1>1, NextSplit, LoginKeeps, QuietKeeps, RotateKeeps, RevokeKeeps, RemoveKeeps
<1>2. CASE UNCHANGED vars
  BY <1>2 DEF vars, IInv, TypeOK, ClaimsHold, Rooted, SingleUse, Fresh, Present
<1> QED BY <1>1, <1>2

(* A refresh token has one successor at most, whatever requests race, and a  *)
(* family at most one token that still works.                                *)
THEOREM RotationIsSingleUse == Spec => []SingleUse
<1>1. Init => IInv
  BY DEF Init, IInv, TypeOK, ClaimsHold, Rooted, SingleUse
<1> QED BY <1>1, IInvInductive, PTL DEF Spec, IInv

-----------------------------------------------------------------------------
(***************************************************************************)
(* What a replay leaves behind.  While its UPDATE runs, a fresh token of   *)
(* the family is one it saw, or one created since.                         *)
(***************************************************************************)
Watched ==
  \A r \in DOMAIN tx : tx[r].step = "revoking" =>
    \A t \in DOMAIN token : token[t].family = token[tx[r].token].family /\ Fresh(t) =>
      t \in tx[r].saw \cup missed

RInv == IInv /\ Watched /\ replayed \subseteq DOMAIN token /\ ReplayEndsFamily

LEMMA LoginWatched ==
  ASSUME RInv, NEW t \in Tokens, NEW a \in Accounts, Login(t, a)
  PROVE  RInv'
<1>1. /\ t \notin DOMAIN token /\ DOMAIN token' = DOMAIN token \cup {t}
      /\ token'[t].family = t
      /\ \A x \in DOMAIN token : token'[x] = token[x]
      /\ UNCHANGED <<accounts, tx, replayed, missed>>
  BY LoginEffect DEF RInv, IInv
<1>2. \A x \in DOMAIN token : Fresh(x)' <=> Fresh(x)
  BY <1>1 DEF Fresh, Present
<1>3. Watched'
  <2> SUFFICES ASSUME NEW r \in DOMAIN tx, tx[r].step = "revoking", NEW x \in DOMAIN token',
                      token'[x].family = token'[tx[r].token].family, Fresh(x)'
               PROVE  x \in tx[r].saw \cup missed
    BY <1>1 DEF Watched
  <2>1. tx[r].token \in DOMAIN token /\ token[tx[r].token].family \in DOMAIN token
    BY DEF RInv, IInv, TypeOK, Rooted
  <2>2. x \in DOMAIN token
    BY <1>1, <2>1
  <2> QED BY <1>1, <1>2, <2>1, <2>2 DEF RInv, Watched
<1>4. ReplayEndsFamily'
  BY <1>1, <1>2 DEF RInv, ReplayEndsFamily
<1>5. IInv'
  BY LoginKeeps DEF RInv
<1> QED BY <1>1, <1>3, <1>4, <1>5 DEF RInv

LEMMA QuietWatched ==
  ASSUME RInv, Quiet
  PROVE  RInv'
<1>1. /\ UNCHANGED <<accounts, token, replayed, missed>>
      /\ \A q \in DOMAIN tx' : tx'[q].step = "revoking" =>
           \/ q \in DOMAIN tx /\ tx'[q] = tx[q]
           \/ tx'[q].saw = {t \in Family(token[tx'[q].token].family) : Present(t) /\ ~token[t].revoked}
  BY QuietEffect DEF RInv, IInv
<1>2. \A x : Fresh(x)' <=> Fresh(x)
  BY <1>1 DEF Fresh, Present
<1>3. Watched'
  <2> SUFFICES ASSUME NEW q \in DOMAIN tx', tx'[q].step = "revoking", NEW t \in DOMAIN token,
                      token[t].family = token[tx'[q].token].family, Fresh(t)
               PROVE  t \in tx'[q].saw \cup missed
    BY <1>1, <1>2 DEF Watched
  <2>1. CASE q \in DOMAIN tx /\ tx'[q] = tx[q]
    BY <2>1 DEF RInv, Watched
  <2>2. CASE tx'[q].saw = {x \in Family(token[tx'[q].token].family) : Present(x) /\ ~token[x].revoked}
    BY <2>2 DEF Family, Fresh
  <2> QED BY <1>1, <2>1, <2>2
<1>4. ReplayEndsFamily' /\ replayed' \subseteq DOMAIN token'
  BY <1>1, <1>2 DEF RInv, ReplayEndsFamily
<1>5. IInv'
  BY QuietKeeps DEF RInv
<1> QED BY <1>3, <1>4, <1>5 DEF RInv

LEMMA RotateWatched ==
  ASSUME RInv, NEW r \in Reqs, NEW new \in Tokens, Rotate(r, new)
  PROVE  RInv'
<1>1. PICK old \in DOMAIN token :
        /\ r \in DOMAIN tx /\ tx[r].step = "commit" /\ old = tx[r].token
        /\ new \notin DOMAIN token /\ DOMAIN token' = DOMAIN token \cup {new}
        /\ token'[new].family = token[old].family
        /\ token'[old] = [token[old] EXCEPT !.rotated = TRUE]
        /\ \A x \in DOMAIN token \ {old} : token'[x] = token[x]
        /\ missed' = IF old \in missed \/ \E q \in DOMAIN tx : tx[q].step = "revoking" /\ old \in tx[q].saw
                     THEN missed \cup {new} ELSE missed
        /\ DOMAIN tx' = DOMAIN tx \ {r} /\ \A q \in DOMAIN tx \ {r} : tx'[q] = tx[q]
        /\ UNCHANGED <<accounts, replayed>>
  BY RotateEffect DEF RInv, IInv
<1>2. Fresh(old) /\ token[old] \in Row
  BY <1>1 DEF RInv, IInv, ClaimsHold, TypeOK
<1>3. token'[old].rotated /\ \A x \in DOMAIN token : token'[x].family = token[x].family
  BY <1>1, <1>2 DEF Row
<1>4. \A x \in DOMAIN token : Fresh(x)' => Fresh(x)
  <2> TAKE x \in DOMAIN token
  <2>1. CASE x = old
    BY <1>3, <2>1 DEF Fresh
  <2>2. CASE x # old
    BY <1>1, <2>2 DEF Fresh, Present
  <2> QED BY <2>1, <2>2
<1>5. Watched'
  <2> SUFFICES ASSUME NEW q \in DOMAIN tx', tx'[q].step = "revoking", NEW t \in DOMAIN token',
                      token'[t].family = token'[tx'[q].token].family, Fresh(t)'
               PROVE  t \in tx'[q].saw \cup missed'
    BY DEF Watched
  <2>1. q \in DOMAIN tx /\ tx'[q] = tx[q] /\ tx[q].token \in DOMAIN token
    BY <1>1 DEF RInv, IInv, TypeOK
  <2>2. CASE t \in DOMAIN token
    <3>1. token[t].family = token[tx[q].token].family /\ Fresh(t)
      BY <1>3, <1>4, <2>1, <2>2
    <3>2. t \in tx[q].saw \cup missed
      BY <2>1, <2>2, <3>1 DEF RInv, Watched
    <3> QED BY <1>1, <2>1, <3>2
  <2>3. CASE t = new
    <3>1. token[old].family = token[tx[q].token].family
      BY <1>1, <1>3, <2>1, <2>3
    <3>2. old \in tx[q].saw \cup missed
      BY <1>2, <2>1, <3>1 DEF RInv, Watched
    <3> QED BY <1>1, <2>1, <2>3, <3>2
  <2> QED BY <1>1, <2>2, <2>3
<1>6. ReplayEndsFamily'
  <2> SUFFICES ASSUME NEW t \in DOMAIN token', token'[t].family \in replayed, Fresh(t)'
               PROVE  t \in missed'
    BY <1>1 DEF ReplayEndsFamily
  <2>1. CASE t \in DOMAIN token
    BY <1>1, <1>3, <1>4, <2>1 DEF RInv, ReplayEndsFamily
  <2>2. CASE t = new
    BY <1>1, <1>2, <2>2 DEF RInv, ReplayEndsFamily
  <2> QED BY <1>1, <2>1, <2>2
<1>7. IInv'
  BY RotateKeeps DEF RInv
<1> QED BY <1>1, <1>5, <1>6, <1>7 DEF RInv

LEMMA RevokeWatched ==
  ASSUME RInv, NEW r \in Reqs, RevokeFamily(r) \/ Logout(r)
  PROVE  RInv'
<1>1. PICK gone \in SUBSET DOMAIN token :
        /\ r \in DOMAIN tx
        /\ DOMAIN token' = DOMAIN token
        /\ \A t \in gone : token'[t] = [token[t] EXCEPT !.revoked = TRUE]
        /\ \A t \in DOMAIN token \ gone : token'[t] = token[t]
        /\ RevokeFamily(r) => gone = tx[r].saw
        /\ DOMAIN tx' = DOMAIN tx \ {r} /\ \A q \in DOMAIN tx \ {r} : tx'[q] = tx[q]
        /\ UNCHANGED <<accounts, missed>>
  BY RevokeEffect DEF RInv, IInv
<1>2. \A t \in DOMAIN token : token'[t].family = token[t].family
  <2> TAKE t \in DOMAIN token
  <2>1. token[t] \in Row
    BY DEF RInv, IInv, TypeOK
  <2> QED BY <1>1, <2>1 DEF Row
<1>3. \A t \in DOMAIN token : Fresh(t)' => Fresh(t) /\ t \notin gone
  <2> TAKE t \in DOMAIN token
  <2>1. CASE t \in gone
    <3>1. token[t] \in Row /\ token'[t] = [token[t] EXCEPT !.revoked = TRUE]
      BY <1>1, <2>1 DEF RInv, IInv, TypeOK
    <3>2. token'[t].revoked
      BY <3>1 DEF Row
    <3> QED BY <3>2 DEF Fresh
  <2>2. CASE t \notin gone
    BY <1>1, <2>2 DEF Fresh, Present
  <2> QED BY <2>1, <2>2
<1>4. Watched'
  <2> SUFFICES ASSUME NEW q \in DOMAIN tx', tx'[q].step = "revoking", NEW t \in DOMAIN token',
                      token'[t].family = token'[tx'[q].token].family, Fresh(t)'
               PROVE  t \in tx'[q].saw \cup missed'
    BY DEF Watched
  <2>1. q \in DOMAIN tx /\ tx'[q] = tx[q] /\ tx[q].token \in DOMAIN token
    BY <1>1 DEF RInv, IInv, TypeOK
  <2>2. t \in DOMAIN token /\ token[t].family = token[tx[q].token].family
    BY <1>1, <1>2, <2>1
  <2>3. Fresh(t)
    BY <1>3, <2>2
  <2> QED BY <1>1, <2>1, <2>2, <2>3 DEF RInv, Watched
<1>5. replayed' \subseteq DOMAIN token' /\ ReplayEndsFamily'
  <2>1. CASE RevokeFamily(r)
    <3>1. tx[r].step = "revoking" /\ replayed' = replayed \cup {token[tx[r].token].family}
      BY <2>1 DEF RevokeFamily, At
    <3>2. token[tx[r].token].family \in DOMAIN token
      BY <1>1 DEF RInv, IInv, TypeOK, Rooted
    <3>3. ASSUME NEW t \in DOMAIN token, token[t].family \in replayed', Fresh(t)'
          PROVE  t \in missed
      <4>1. Fresh(t) /\ t \notin tx[r].saw
        BY <1>1, <1>3, <2>1, <3>3
      <4>2. CASE token[t].family \in replayed
        BY <4>1, <4>2 DEF RInv, ReplayEndsFamily
      <4>3. CASE token[t].family = token[tx[r].token].family
        BY <1>1, <3>1, <4>1, <4>3 DEF RInv, Watched
      <4> QED BY <3>1, <3>3, <4>2, <4>3
    <3>4. ReplayEndsFamily'
      <4> SUFFICES ASSUME NEW t \in DOMAIN token, token'[t].family \in replayed', Fresh(t)'
                   PROVE  t \in missed
        BY <1>1 DEF ReplayEndsFamily
      <4> QED BY <1>2, <3>3
    <3>5. replayed' \subseteq DOMAIN token'
      BY <1>1, <3>1, <3>2 DEF RInv
    <3> QED BY <3>4, <3>5
  <2>2. CASE Logout(r)
    <3>1. UNCHANGED replayed
      BY <2>2 DEF Logout
    <3>2. replayed' \subseteq DOMAIN token'
      BY <1>1, <3>1 DEF RInv
    <3>3. ReplayEndsFamily'
      <4> SUFFICES ASSUME NEW t \in DOMAIN token, token'[t].family \in replayed, Fresh(t)'
                   PROVE  t \in missed
        BY <1>1, <3>1 DEF ReplayEndsFamily
      <4>1. Fresh(t) /\ token[t].family \in replayed
        BY <1>2, <1>3
      <4> QED BY <4>1 DEF RInv, ReplayEndsFamily
    <3> QED BY <3>2, <3>3
  <2> QED BY <2>1, <2>2
<1>6. IInv'
  BY RevokeKeeps DEF RInv
<1> QED BY <1>4, <1>5, <1>6 DEF RInv

LEMMA RemoveWatched ==
  ASSUME RInv, NEW a \in Admins, RemoveAdmin(a)
  PROVE  RInv'
<1>1. UNCHANGED <<token, tx, replayed, missed>> /\ accounts' = accounts \ {a} /\ IInv'
  BY RemoveEffect, RemoveKeeps DEF RInv, IInv
<1>2. \A t : Fresh(t)' => Fresh(t)
  BY <1>1 DEF Fresh, Present
<1> QED BY <1>1, <1>2 DEF RInv, Watched, ReplayEndsFamily

(* After a replay no later step gives the family a fresh token, but for the  *)
(* one its UPDATE could not see.                                             *)
THEOREM ReplayIsFinal == Spec => []ReplayEndsFamily
<1>1. Init => RInv
  BY DEF Init, RInv, IInv, TypeOK, ClaimsHold, Rooted, SingleUse, Watched, ReplayEndsFamily
<1>2. RInv /\ [Next]_vars => RInv'
  <2> SUFFICES ASSUME RInv, [Next]_vars PROVE RInv'
    OBVIOUS
  <2>1. CASE Next
    BY <2>1, NextSplit, LoginWatched, QuietWatched, RotateWatched, RevokeWatched, RemoveWatched
  <2>2. CASE UNCHANGED vars
    <3>1. IInv'
      BY <2>2, IInvInductive DEF RInv
    <3> QED BY <2>2, <3>1 DEF vars, RInv, Watched, ReplayEndsFamily, Fresh, Present
  <2> QED BY <2>1, <2>2
<1> QED BY <1>1, <1>2, PTL DEF Spec, RInv

-----------------------------------------------------------------------------
(***************************************************************************)
(* The rows implement the token families.  The state of the abstract       *)
(* specification is a function of the rows: live[f] below.                 *)
(***************************************************************************)
Live(f) == {t \in Family(f) : Fresh(t)}

LEMMA LoginStarts ==
  ASSUME IInv, NEW t \in Tokens, NEW a \in Accounts, Login(t, a)
  PROVE  Register!Start(t)
<1>1. /\ t \notin DOMAIN token /\ DOMAIN token' = DOMAIN token \cup {t}
      /\ token'[t] = [owner |-> a, family |-> t, parent |-> None, rotated |-> FALSE, revoked |-> FALSE]
      /\ token'[t].family = t
      /\ \A x \in DOMAIN token : token'[x] = token[x]
      /\ UNCHANGED accounts
  BY LoginEffect DEF IInv
<1>2. a \in accounts
  BY DEF Login
<1>3. \A x \in DOMAIN token : token[x].family # t
  BY <1>1 DEF IInv, Rooted
<1>4. \A x \in DOMAIN token : Fresh(x)' <=> Fresh(x)
  BY <1>1 DEF Fresh, Present
<1>5. Fresh(t)'
  BY <1>1, <1>2 DEF Fresh, Present
<1>6. FamilyIds' = FamilyIds \cup {t}
  BY <1>1 DEF FamilyIds
<1>7. Live(t)' = {t}
  BY <1>1, <1>3, <1>5 DEF Live, Family
<1>8. \A f \in FamilyIds : f # t /\ Live(f)' = Live(f)
  <2> TAKE f \in FamilyIds
  <2>1. f # t
    BY <1>3 DEF FamilyIds
  <2> QED BY <1>1, <1>4, <2>1 DEF Live, Family
<1>9. [f \in FamilyIds |-> Live(f)]'
        = [f \in FamilyIds \cup {t} |-> IF f = t THEN {t} ELSE [g \in FamilyIds |-> Live(g)][f]]
  BY <1>6, <1>7, <1>8
<1> QED BY <1>1, <1>9 DEF Register!Start, Live

LEMMA RotateExchanges ==
  ASSUME IInv, NEW r \in Reqs, NEW new \in Tokens, Rotate(r, new)
  PROVE  \E f \in FamilyIds : Register!Exchange(f, new)
<1>1. PICK old \in DOMAIN token :
        /\ r \in DOMAIN tx /\ tx[r].step = "commit" /\ old = tx[r].token
        /\ token[old].owner \in accounts
        /\ new \notin DOMAIN token /\ DOMAIN token' = DOMAIN token \cup {new}
        /\ token'[new] = [owner |-> token[old].owner, family |-> token[old].family, parent |-> old,
                          rotated |-> FALSE, revoked |-> FALSE]
        /\ token'[new].family = token[old].family
        /\ token'[old] = [token[old] EXCEPT !.rotated = TRUE]
        /\ \A x \in DOMAIN token \ {old} : token'[x] = token[x]
        /\ UNCHANGED accounts
  BY RotateEffect DEF IInv
<1>0. PICK fam : fam = token[old].family
  OBVIOUS
<1>2. Fresh(old) /\ token[old] \in Row
  BY <1>1 DEF IInv, ClaimsHold, TypeOK
<1>3. token'[old].rotated /\ \A x \in DOMAIN token : token'[x].family = token[x].family
  BY <1>1, <1>2 DEF Row
<1>4. fam \in FamilyIds /\ FamilyIds' = FamilyIds
  <2>1. fam \in FamilyIds
    BY <1>0 DEF FamilyIds
  <2>2. \A f : f \in FamilyIds' <=> f \in FamilyIds
    BY <1>1, <1>3 DEF FamilyIds
  <2> QED BY <2>1, <2>2
<1>5. \A x \in DOMAIN token \ {old} : Fresh(x)' <=> Fresh(x)
  BY <1>1 DEF Fresh, Present
<1>6. Fresh(new)' /\ ~Fresh(old)'
  BY <1>1, <1>3 DEF Fresh, Present
<1>7. Live(fam)' = {new}
  <2>1. \A x \in DOMAIN token \ {old} : token[x].family = fam => ~Fresh(x)
    BY <1>0, <1>2 DEF IInv, SingleUse
  <2>2. \A x : x \in Live(fam)' <=> x = new
    BY <1>0, <1>1, <1>3, <1>5, <1>6, <2>1 DEF Live, Family
  <2> QED BY <2>2
<1>8. old \in Live(fam)
  BY <1>0, <1>2 DEF Live, Family
<1>9. \A f \in FamilyIds : f # fam => Live(f)' = Live(f)
  <2> TAKE f \in FamilyIds
  <2> HAVE f # fam
  <2>1. \A x : x \in Live(f)' <=> x \in Live(f)
    BY <1>0, <1>1, <1>3, <1>5 DEF Live, Family
  <2> QED BY <2>1
<1>10. [f \in FamilyIds |-> Live(f)]' = [[f \in FamilyIds |-> Live(f)] EXCEPT ![fam] = {new}]
  BY <1>4, <1>7, <1>9
<1>11. [f \in FamilyIds |-> Live(f)][fam] # {}
  BY <1>4, <1>8
<1>12. Register!Exchange(fam, new)
  BY <1>1, <1>10, <1>11 DEF Register!Exchange, Live
<1> QED BY <1>4, <1>12

(* Revocations and removals only take freshness away.  As a family has one   *)
(* fresh token at most, each of its families either keeps it or is closed.   *)
LEMMA LossCloses ==
  ASSUME IInv, DOMAIN token' = DOMAIN token,
         \A t \in DOMAIN token : token'[t].family = token[t].family,
         \A t \in DOMAIN token : Fresh(t)' => Fresh(t)
  PROVE  \E F \in SUBSET FamilyIds : Register!Close(F)
<1> DEFINE F == {f \in FamilyIds : Live(f)' = {}}
<1>1. FamilyIds' = FamilyIds
  <2>1. \A f : f \in FamilyIds' <=> f \in FamilyIds
    BY DEF FamilyIds
  <2> QED BY <2>1
<1>2. \A f \in FamilyIds \ F : Live(f)' = Live(f)
  <2> TAKE f \in FamilyIds \ F
  <2>1. PICK t : t \in Live(f)'
    OBVIOUS
  <2>2. t \in Live(f)
    BY <2>1 DEF Live, Family
  <2>3. \A x \in Live(f) : x = t
    BY <2>2 DEF IInv, SingleUse, Live, Family
  <2>4. Live(f)' \subseteq Live(f)
    BY DEF Live, Family
  <2> QED BY <2>1, <2>2, <2>3, <2>4
<1>3. \A f \in F : Live(f)' = {}
  OBVIOUS
<1>4. F \in SUBSET FamilyIds
  OBVIOUS
<1> HIDE DEF F
<1>5. [f \in FamilyIds |-> Live(f)]' = [f \in FamilyIds |-> IF f \in F THEN {} ELSE [g \in FamilyIds |-> Live(g)][f]]
  BY <1>1, <1>2, <1>3
<1>6. Register!Close(F)
  BY <1>5 DEF Register!Close, Live
<1> QED BY <1>4, <1>6

LEMMA RevokeCloses ==
  ASSUME IInv, NEW r \in Reqs, RevokeFamily(r) \/ Logout(r)
  PROVE  \E F \in SUBSET FamilyIds : Register!Close(F)
<1>1. PICK gone \in SUBSET DOMAIN token :
        /\ DOMAIN token' = DOMAIN token
        /\ \A t \in gone : token'[t] = [token[t] EXCEPT !.revoked = TRUE]
        /\ \A t \in DOMAIN token \ gone : token'[t] = token[t]
        /\ UNCHANGED accounts
  BY RevokeEffect DEF IInv
<1>2. \A t \in DOMAIN token : token'[t].family = token[t].family /\ (t \in gone => token'[t].revoked)
  <2> TAKE t \in DOMAIN token
  <2>1. token[t] \in Row
    BY DEF IInv, TypeOK
  <2> QED BY <1>1, <2>1 DEF Row
<1>3. \A t \in DOMAIN token : Fresh(t)' => Fresh(t)
  BY <1>1, <1>2 DEF Fresh, Present
<1> QED BY <1>1, <1>2, <1>3, LossCloses

LEMMA RemoveCloses ==
  ASSUME IInv, NEW a \in Admins, RemoveAdmin(a)
  PROVE  \E F \in SUBSET FamilyIds : Register!Close(F)
<1>1. UNCHANGED token /\ accounts' = accounts \ {a}
  BY RemoveEffect DEF IInv
<1>2. \A t \in DOMAIN token : Fresh(t)' => Fresh(t)
  BY <1>1 DEF Fresh, Present
<1> QED BY <1>1, <1>2, LossCloses

(* For any number of accounts, tokens and concurrent requests the rows       *)
(* implement the token families: a family has one live token, which only its *)
(* own rotation exchanges, and a closed family stays closed.                 *)
THEOREM TokensImplementFamilies == Spec => ImplementsTokenFamilies
<1> DEFINE live == [f \in FamilyIds |-> {t \in Family(f) : Fresh(t)}]
<1>1. Init => Register!Init /\ IInv
  BY DEF Init, Register!Init, FamilyIds, IInv, TypeOK, ClaimsHold, Rooted, SingleUse
<1>2. IInv /\ [Next]_vars => [Register!Next]_<<DOMAIN token, live>>
  <2> SUFFICES ASSUME IInv, [Next]_vars
               PROVE  [Register!Next]_<<DOMAIN token, live>>
    OBVIOUS
  <2>1. CASE \E t \in Tokens, a \in Accounts : Login(t, a)
    BY <2>1, LoginStarts DEF Register!Next
  <2>2. CASE Quiet \/ UNCHANGED vars
    <3>1. UNCHANGED <<accounts, token>>
      BY <2>2, QuietEffect DEF IInv, vars
    <3> QED BY <3>1 DEF FamilyIds, Family, Fresh, Present
  <2>3. CASE \E r \in Reqs, t \in Tokens : Rotate(r, t)
    BY <2>3, RotateExchanges DEF Register!Next
  <2>4. CASE (\E r \in Reqs : RevokeFamily(r) \/ Logout(r)) \/ \E a \in Admins : RemoveAdmin(a)
    BY <2>4, RevokeCloses, RemoveCloses DEF Register!Next
  <2> QED BY <2>1, <2>2, <2>3, <2>4, NextSplit
<1> QED BY <1>1, <1>2, IInvInductive, PTL DEF Spec, ImplementsTokenFamilies, Register!Spec
=============================================================================
