--------------------------- MODULE MCPoolAward ---------------------------
(* One pool under the seeded registry.                                     *)
EXTENDS PoolAward, TLC

Seed == INSTANCE LifecycleSeed

SeedStates   == Seed!PoolStates
SeedTerminal == Seed!PoolTerminal
SeedEdges    == Seed!PoolEdges

Symmetric == Permutations(Suppliers) \cup Permutations(Users) \cup
             Permutations(ApprovalIds) \cup Permutations(Reqs)
=============================================================================
