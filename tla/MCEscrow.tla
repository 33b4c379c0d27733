----------------------------- MODULE MCEscrow -----------------------------
(* Escrow accounts: the seeded registry bound to EntityLifecycle.          *)
EXTENDS EntityLifecycle, LifecycleSeed, TLC

(* An edge any tenant may take at once, and one that needs two people.     *)
RoadToRelease == {"MILESTONE_PENDING", "RELEASE_PENDING"}
=============================================================================
