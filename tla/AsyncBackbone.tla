--------------------------- MODULE AsyncBackbone ---------------------------
(***************************************************************************)
(* reading-service's outbox and the events-demo consumer joined by the     *)
(* topic meter.reading.created.  The two processes share the partition log *)
(* and one budget of faults; each crashes on its own.  The producer is     *)
(* Outbox as it stands, the consumer an instance of ConsumerLoop.          *)
(***************************************************************************)
EXTENDS Outbox

CONSTANTS
    Poison,
    MaxAttempts

ASSUME PoisonAssumption   == Poison \subseteq Event
ASSUME AttemptsAssumption == MaxAttempts \in Nat \ {0}

VARIABLES
    committed, position, pc, attempt, processed, dlq,
    calls, handled, interrupted

\* Every event the relay produces carries a UUID and JSON.
Consumer == INSTANCE ConsumerLoop WITH
    Message <- Event, Malformed <- {}, Garbled <- {}, MaxLog <- 0

producerVars == <<writerVars, roundVars, published, wire>>
consumerVars == <<committed, position, pc, attempt, processed, dlq,
                  calls, handled, interrupted>>
backboneVars == <<producerVars, consumerVars, log, faults>>

BackboneInit == Init /\ Consumer!LoopInit

BackboneNext ==
    \/ Next /\ UNCHANGED consumerVars
    \/ Consumer!LoopNext /\ UNCHANGED producerVars

BackboneSpec ==
    /\ BackboneInit
    /\ [][BackboneNext]_backboneVars
    /\ Fairness
    /\ Consumer!LoopFairness

-----------------------------------------------------------------------------
(* Properties.                                                             *)

\* An event was claimed but no later step can give it an outcome.
GivenUp(e) == e \in interrupted /\ handled[e] = 0 /\ dlq[e] = 0

Status(e) ==
    CASE handled[e] + dlq[e] > 1 -> "duplicated"
      [] handled[e] = 1 /\ dlq[e] = 0 -> "handled"
      [] handled[e] = 0 /\ dlq[e] = 1 -> "deadLettered"
      [] GivenUp(e) -> "lost"
      [] OTHER -> IF tx[e] = "committed" THEN "stored" ELSE "absent"

Delivery == INSTANCE EventDelivery WITH status <- [e \in Event |-> Status(e)]

\* End to end, through crashes of either side, resends and redeliveries: a
\* stored event gets one outcome, once, and keeps it. (Being given up after
\* the claim is the outcome "lost".)
DeliversOnce == Delivery!Spec

\* The relay's backlog drains whatever the consumer does: a committed event
\* reaches the topic and is marked (relayRound).
BacklogDrains == CommittedGetsPublished

\* End to end: every stored reading's event gets its outcome in the end.
DeliversEventually == Delivery!EverythingSettles
=============================================================================
