--------------------------- MODULE EventDelivery ---------------------------
(***************************************************************************)
(* What the asynchronous backbone delivers, seen from the reading that was *)
(* stored and the consumer that acts on it: an event exists once its       *)
(* reading does, and then gets one outcome, once.                          *)
(***************************************************************************)
CONSTANT Event

VARIABLE status

Outcome == {"handled", "deadLettered", "lost"}

Init == status = [e \in Event |-> "absent"]

Store(e) ==
    /\ status[e] = "absent"
    /\ status' = [status EXCEPT ![e] = "stored"]

Settle(e) ==
    /\ status[e] = "stored"
    /\ \E o \in Outcome : status' = [status EXCEPT ![e] = o]

Next == \E e \in Event : Store(e) \/ Settle(e)

Spec == Init /\ [][Next]_status

\* No stored event stays without an outcome.
EverythingSettles == \A e \in Event : (status[e] = "stored") ~> (status[e] \in Outcome)
=============================================================================
