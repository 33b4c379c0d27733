----------------------------- MODULE MCAiMeter -----------------------------
(* A budget of two calls for requests of every kind.                       *)
EXTENDS AiMeter, TLC

OneToken == [kind \in Kinds \ {"extract"} |-> 1]

Symmetric == Permutations(Reqs) \cup Permutations(Keys)
=============================================================================
