----------------------------- MODULE MCMembership -----------------------------
(* Model values for the runs of Membership. *)
EXTENDS Membership, TLC
CONSTANTS r1, r2, r3, r4, owner, u1, u2, i1, i2, nobody

Symmetry == Permutations(Request) \cup Permutations(User \ {Owner}) \cup Permutations(Invite)
=============================================================================
