-------------------------- MODULE MCRevocationFeed --------------------------
(* Model values for the run of RevocationFeed. *)
EXTENDS RevocationFeed
CONSTANTS r1, r2, s1, s2, none
=============================================================================
