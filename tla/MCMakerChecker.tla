--------------------------- MODULE MCMakerChecker ---------------------------
(* Approvals over the escrow registry, the only one of the two seeded      *)
(* tables with a maker-checker edge open to tenants.                       *)
EXTENDS MakerChecker, LifecycleSeed, TLC

(* One edge a tenant admin may ask for, one only a platform admin may.     *)
SignedEdges == {e \in EscrowEdges : e.from = "MILESTONE_PENDING"}

(* A tenant user signing as checker and a platform admin: each is the maker *)
(* of some requests, the admin under the very fingerprint it signs with.    *)
UserAndAdmin == [actor: {"CHECKER"}, user: Users, admin: {None}] \cup
                [actor: {"PLATFORM_ADMIN"}, user: {None}, admin: Admins]

Symmetric == Permutations(ApprovalIds) \cup Permutations(Sessions)
=============================================================================
