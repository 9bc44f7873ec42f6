--------------------------- MODULE MCConsumerLoop ---------------------------
(* Model values for the runs of ConsumerLoop: one message of each class. *)
EXTENDS ConsumerLoop
CONSTANTS good, bad, garbled, poison
=============================================================================
