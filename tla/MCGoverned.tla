---------------------------- MODULE MCGoverned ----------------------------
(* Escrow accounts with their approvals.                                   *)
EXTENDS GovernedEntity, LifecycleSeed, TLC

(* An edge any tenant may take at once, and one that needs two people.     *)
RoadToRelease == {"MILESTONE_PENDING", "RELEASE_PENDING"}

(* Both kinds of signer, or tenant users alone.                            *)
UserAndAdmin == [actor: {"CHECKER"}, user: Users, admin: {None}] \cup
                [actor: {"PLATFORM_ADMIN"}, user: {None}, admin: Admins]
UserOnly == [actor: {"CHECKER"}, user: Users, admin: {None}]

Symmetric == Permutations(ApprovalIds)
=============================================================================
