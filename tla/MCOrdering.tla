---------------------------- MODULE MCOrdering ----------------------------
(* One user under the seeded registry; the second item has a minimum of two.*)
EXTENDS Ordering

CONSTANTS i1, i2

Seed == INSTANCE LifecycleSeed

SeedStates   == Seed!OrderStates
SeedTerminal == Seed!OrderTerminal
SeedEdges    == Seed!OrderEdges

MinimumOf == (i1 :> 1) @@ (i2 :> 2)

Symmetric == Permutations(Carts) \cup Permutations(Orders) \cup Permutations(Reqs)
=============================================================================
