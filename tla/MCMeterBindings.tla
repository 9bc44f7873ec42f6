--------------------------- MODULE MCMeterBindings ---------------------------
(* Model values for the runs of MeterBindings. *)
EXTENDS MeterBindings, TLC
CONSTANTS r1, r2, r3, r4, a1, a2, m1, lower, upper

RequestSymmetry == Permutations(Request)
=============================================================================
