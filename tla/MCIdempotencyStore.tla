------------------------- MODULE MCIdempotencyStore -------------------------
(* Model values for the run of IdempotencyStore. *)
EXTENDS IdempotencyStore, TLC
CONSTANTS a1, a2, a3, k1, b1, b2, none

Symmetry == Permutations(Attempt) \cup Permutations(Body)
=============================================================================
