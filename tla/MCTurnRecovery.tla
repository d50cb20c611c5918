--------------------------- MODULE MCTurnRecovery ---------------------------
(* Constants for checking TurnRecovery on small instances. *)
EXTENDS TurnRecovery, TLC

CONSTANTS p1, p2

MCSymmetry == Permutations({p1, p2})
=============================================================================
