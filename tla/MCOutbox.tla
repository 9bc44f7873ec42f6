------------------------------ MODULE MCOutbox ------------------------------
(* Model values for the runs of Outbox. *)
EXTENDS Outbox, TLC
CONSTANTS e1, e2, e3

EventSymmetry == Permutations(Event)
=============================================================================
