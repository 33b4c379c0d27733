--------------------------- MODULE RefreshTokens ---------------------------
(***************************************************************************)
(* Refresh tokens: login, refresh with single-use rotation and replay      *)
(* detection, and logout of routes/auth.ts, and the removal of an admin of *)
(* routes/control.ts.                                                      *)
(*                                                                         *)
(* A refresh looks its token up, then claims it by a conditional update in *)
(* a transaction that also creates the successor; whoever finds the token  *)
(* spent revokes its family with one UPDATE.  Under READ COMMITTED that    *)
(* UPDATE sees the rows committed when it starts and waits for those that  *)
(* are locked, hence its two steps here.  A token may be presented any     *)
(* number of times: clients retry, and tabs share a cookie.                *)
(***************************************************************************)
CONSTANTS None,       \* SQL NULL
          Accounts,   \* users and admins, each a member of one realm
          Admins,     \* the accounts the control plane can remove
          Tokens,     \* bound: ids of refresh tokens
          Reqs        \* slots for concurrent requests

ASSUME RefreshTokensAssumption == Admins \subseteq Accounts /\ None \notin Tokens

VARIABLES accounts,   \* the accounts there are; the rows of others are gone (ON DELETE CASCADE)
          token,      \* token id -> its refresh_tokens row
          tx,         \* slot -> the open request
          replayed,   \* history: the families a replay has revoked
          missed      \* history: tokens created while their family was being revoked, and successors

vars == <<accounts, token, tx, replayed, missed>>

(* A family is named by the token the login created.  The parent is history. *)
Row == [owner: Accounts, family: Tokens, parent: Tokens \cup {None},
        rotated: BOOLEAN, revoked: BOOLEAN]

(* claim: looked up, found fresh; commit: claimed, its row locked; revoke:   *)
(* found spent; revoking: the UPDATE has begun and saw these rows; logout.   *)
Steps   == {"claim", "commit", "revoke", "revoking", "logout"}
Request == [step: Steps, token: Tokens, saw: SUBSET Tokens]

TypeOK ==
  /\ accounts \subseteq Accounts
  /\ DOMAIN token \subseteq Tokens /\ token \in [DOMAIN token -> Row]
  /\ DOMAIN tx \subseteq Reqs /\ tx \in [DOMAIN tx -> Request]
  /\ \A r \in DOMAIN tx : {tx[r].token} \cup tx[r].saw \subseteq DOMAIN token
  /\ replayed \subseteq Tokens
  /\ missed \subseteq DOMAIN token

Init ==
  /\ accounts = Accounts /\ token = << >>
  /\ tx = << >> /\ replayed = {} /\ missed = {}

Present(t) == t \in DOMAIN token /\ token[t].owner \in accounts
Fresh(t)   == Present(t) /\ ~token[t].rotated /\ ~token[t].revoked
Family(f)  == {t \in DOMAIN token : token[t].family = f}
Claimed(t) == \E r \in DOMAIN tx : tx[r].step = "commit" /\ tx[r].token = t

Begin(r, step, t) ==
  /\ r \notin DOMAIN tx
  /\ tx' = [x \in DOMAIN tx \cup {r} |->
              IF x = r THEN [step |-> step, token |-> t, saw |-> {}] ELSE tx[x]]
  /\ UNCHANGED <<accounts, token, replayed, missed>>

At(r, step) == r \in DOMAIN tx /\ tx[r].step = step

Move(r, step, saw) ==
  /\ tx' = [tx EXCEPT ![r] = [step |-> step, token |-> @.token, saw |-> saw]]
  /\ UNCHANGED <<accounts, token, replayed, missed>>

End(r) == tx' = [x \in DOMAIN tx \ {r} |-> tx[x]]

(* The request fails or its connection is lost; a claim is rolled back.      *)
Abort(r) == r \in DOMAIN tx /\ End(r) /\ UNCHANGED <<accounts, token, replayed, missed>>

-----------------------------------------------------------------------------
Insert(t, row, base) == [x \in DOMAIN base \cup {t} |-> IF x = t THEN row ELSE base[x]]

(* Each login starts a family of its own.                                    *)
Login(t, a) ==
  /\ t \notin DOMAIN token /\ a \in accounts
  /\ token' = Insert(t, [owner |-> a, family |-> t, parent |-> None,
                         rotated |-> FALSE, revoked |-> FALSE], token)
  /\ UNCHANGED <<accounts, tx, replayed, missed>>

(* The lookup: an unknown or revoked token is turned away.  So is an expired *)
(* one, and a fresh one in the cookie of the other realm: as that changes    *)
(* nothing, it is as if they had not been presented, and neither the clock   *)
(* nor the cookie is modelled.                                               *)
Accepted(t) == Present(t) /\ ~token[t].revoked

BeginRefresh(r, t) == Accepted(t) /\ ~token[t].rotated /\ Begin(r, "claim", t)
BeginReplay(r, t)  == Accepted(t) /\ token[t].rotated /\ Begin(r, "revoke", t)

ClaimRotated(r) ==
  /\ At(r, "claim") /\ ~Claimed(tx[r].token)
  /\ Present(tx[r].token) /\ ~token[tx[r].token].revoked
  /\ Move(r, "commit", {})

ClaimRevoked(r) ==
  /\ At(r, "claim") /\ ~Claimed(tx[r].token)
  /\ Present(tx[r].token) /\ ~token[tx[r].token].rotated
  /\ Move(r, "commit", {})

(* The conditional update waits for a claim in progress, then looks again.   *)
(* Its expiry condition uses the time of the lookup and adds nothing.        *)
Claim(r) ==
  /\ At(r, "claim") /\ ~Claimed(tx[r].token)
  /\ Fresh(tx[r].token)
  /\ Move(r, "commit", {})

LoseClaim(r) ==
  /\ At(r, "claim") /\ ~Claimed(tx[r].token)
  /\ ~Fresh(tx[r].token)
  /\ Move(r, "revoke", {})

(* The claim and the successor, in the same family, become visible together. *)
Succeed(r, new, family) ==
  LET old == tx[r].token IN
  /\ At(r, "commit")
  /\ new \notin DOMAIN token /\ token[old].owner \in accounts    \* foreign key
  /\ token' = Insert(new, [owner |-> token[old].owner, family |-> family, parent |-> old,
                           rotated |-> FALSE, revoked |-> FALSE],
                     [token EXCEPT ![old].rotated = TRUE])
  /\ missed' = IF old \in missed \/ \E q \in DOMAIN tx : tx[q].step = "revoking" /\ old \in tx[q].saw
               THEN missed \cup {new} ELSE missed
  /\ End(r) /\ UNCHANGED <<accounts, replayed>>

RotateOutOfFamily(r, new) == Succeed(r, new, None)

Rotate(r, new) == Succeed(r, new, token[tx[r].token].family)

RevokeTokenOnly(r) ==
  /\ At(r, "revoke")
  /\ Move(r, "revoking", {t \in {tx[r].token} : Present(t) /\ ~token[t].revoked})

(* The UPDATE of a replay starts: the rows of the family not yet revoked ... *)
SeeFamily(r) ==
  /\ At(r, "revoke")
  /\ Move(r, "revoking", {t \in Family(token[tx[r].token].family) :
                            Present(t) /\ ~token[t].revoked})

(* ... are revoked when none is locked by a rotation any more.               *)
RevokeFamily(r) ==
  /\ At(r, "revoking") /\ \A t \in tx[r].saw : ~Claimed(t)
  /\ token' = [t \in DOMAIN token |->
                 IF t \in tx[r].saw THEN [token[t] EXCEPT !.revoked = TRUE] ELSE token[t]]
  /\ replayed' = replayed \cup {token[tx[r].token].family}
  /\ End(r) /\ UNCHANGED <<accounts, missed>>

(* Logout revokes the token of its cookie by id, rotated or not; a logout    *)
(* with two cookies is two of these.                                         *)
BeginLogout(r, t) == Present(t) /\ ~token[t].revoked /\ Begin(r, "logout", t)

Logout(r) ==
  /\ At(r, "logout") /\ Present(tx[r].token) /\ ~Claimed(tx[r].token)
  /\ token' = [token EXCEPT ![tx[r].token].revoked = TRUE]
  /\ End(r) /\ UNCHANGED <<accounts, replayed, missed>>

(* Deletes the tokens and the admin, and waits for a rotation that holds one.*)
RemoveAdmin(a) ==
  /\ a \in Admins \cap accounts
  /\ \A t \in DOMAIN token : token[t].owner = a => ~Claimed(t)
  /\ accounts' = accounts \ {a}
  /\ UNCHANGED <<token, tx, replayed, missed>>

-----------------------------------------------------------------------------
Refreshing ==
  \E r \in Reqs :
    \/ \E t \in Tokens : BeginRefresh(r, t) \/ BeginReplay(r, t) \/ Rotate(r, t)
    \/ Claim(r) \/ LoseClaim(r) \/ SeeFamily(r) \/ RevokeFamily(r)

LoggingOut ==
  \E r \in Reqs : Logout(r) \/ \E t \in Tokens : BeginLogout(r, t)

Next ==
  \/ \E t \in Tokens, a \in Accounts : Login(t, a)
  \/ Refreshing \/ LoggingOut
  \/ \E a \in Admins : RemoveAdmin(a)
  \/ \E r \in Reqs : Abort(r)

Spec == Init /\ [][Next]_vars

-----------------------------------------------------------------------------
(* "Strict single-use rotation", over every interleaving of refreshes,       *)
(* replays and logouts: a token has a successor exactly when it is marked    *)
(* rotated, and no more than one; a family has at most one fresh token.      *)
SingleUse ==
  /\ \A t \in DOMAIN token : token[t].rotated <=> \E s \in DOMAIN token : token[s].parent = t
  /\ \A s, t \in DOMAIN token : s # t /\ token[s].parent = token[t].parent => token[s].parent = None
  /\ \A s, t \in DOMAIN token :
       token[s].family = token[t].family /\ Fresh(s) /\ Fresh(t) => s = t

(* A replay revokes the entire family, and nothing a client does later gets  *)
(* it a fresh token again, but for one a rotation created while the UPDATE   *)
(* that revokes was running, which that UPDATE cannot see.                   *)
ReplayEndsFamily ==
  \A t \in DOMAIN token : token[t].family \in replayed /\ Fresh(t) => t \in missed

(* The rows implement the families: each family is named by the token its    *)
(* login created, and its live tokens are the fresh ones.                    *)
FamilyIds == {token[t].family : t \in DOMAIN token}

Register == INSTANCE TokenFamilies
              WITH issued <- DOMAIN token,
                   live   <- [f \in FamilyIds |-> {t \in Family(f) : Fresh(t)}]

(* A family's fresh token changes only by a rotation of that very token, to  *)
(* a token of no other family, and a family that has lost it never gets one  *)
(* again: a refresh that looked a token up before it was revoked or rotated  *)
(* neither forks its family nor brings it back (the claim and the rotation   *)
(* of the refresh routes, against replays, logouts and removals).            *)
ImplementsTokenFamilies == Register!Spec
=============================================================================
