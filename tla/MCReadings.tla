----------------------------- MODULE MCReadings -----------------------------
(* Three submissions for one meter. *)
EXTENDS Readings, TLC
CONSTANTS r1, r2, r3, m1, m2

RequestSymmetry == Permutations(Request)
=============================================================================
