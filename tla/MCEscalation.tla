--------------------------- MODULE MCEscalation ---------------------------
(* Model values and the symmetry of the ledger's row ids.                  *)
EXTENDS Escalation, TLC

IdSymmetry == Permutations(Ids)
=============================================================================
