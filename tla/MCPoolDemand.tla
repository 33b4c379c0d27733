--------------------------- MODULE MCPoolDemand ---------------------------
(* One pool under the seeded registry.                                     *)
EXTENDS PoolDemand, TLC

Seed == INSTANCE LifecycleSeed

SeedStates   == Seed!PoolStates
SeedTerminal == Seed!PoolTerminal
SeedEdges    == Seed!PoolEdges

Symmetric == Permutations(Lines) \cup Permutations(Quantities) \cup Permutations(Reqs)
=============================================================================
