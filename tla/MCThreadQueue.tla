--------------------------- MODULE MCThreadQueue ---------------------------
(* Constants for checking ThreadQueue on small instances. *)
EXTENDS ThreadQueue

CONSTANTS p1, p2, p3, i1

MCSymmetry == Permutations({p1, p2, p3})
=============================================================================
