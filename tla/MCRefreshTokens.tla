-------------------------- MODULE MCRefreshTokens --------------------------
(* Two families may run at once, or one through three rotations.           *)
EXTENDS RefreshTokens, TLC

Symmetric == Permutations(Tokens) \cup Permutations(Reqs)
=============================================================================
