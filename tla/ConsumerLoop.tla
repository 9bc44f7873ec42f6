---------------------------- MODULE ConsumerLoop ----------------------------
(***************************************************************************)
(* The shared consumer loop of events-demo: one consumer of one partition, *)
(* dedup on eventId before processing, bounded in-process retries, a       *)
(* dead-letter topic.  kafkajs, the broker and the dedup table's database  *)
(* are modelled from how the loop uses them.                               *)
(*                                                                         *)
(* A message stands for its eventId: redelivery and the producer's copies  *)
(* put the same message before the loop again.                             *)
(***************************************************************************)
EXTENDS Naturals, Sequences, FiniteSets, Functions

CONSTANTS
    Message,
    Malformed,   \* no eventId, no value, or an eventId that is not a UUID
    Garbled,     \* the value is not JSON
    Poison,      \* the handler always throws
    MaxAttempts, \* retryPolicy.attempts
    MaxFaults    \* bound on crashes and on store, broker and DLQ failures

ASSUME ClassAssumption ==
    /\ Malformed \subseteq Message
    /\ Garbled \subseteq Message \ Malformed
    /\ Poison \subseteq Message \ (Malformed \cup Garbled)
ASSUME MaxAttemptsAssumption == MaxAttempts \in Nat \ {0}
ASSUME LoopFaultsAssumption  == MaxFaults \in Nat

VARIABLES
    log,         \* the topic's partition
    committed,   \* the group's committed offset: records 1..committed are done with
    position,    \* records the running consumer has resolved
    pc,          \* where handleMessage stands
    attempt,     \* failed attempts at the current message
    processed,   \* processed_events, the dedup table
    dlq,         \* copies of each message on the dead-letter topic
    faults,      \* faults so far
    calls,       \* history: handler invocations, over all deliveries
    handled,     \* history: handler invocations that returned
    interrupted  \* history: messages a fault hit between claim and outcome

historyVars == <<calls, handled, interrupted>>
loopVars == <<committed, position, pc, attempt, processed, dlq, historyVars>>
vars     == <<log, faults, loopVars>>

TypeOK ==
    /\ log \in Seq(Message)
    /\ committed \in 0..Len(log)
    /\ position \in committed..Len(log)
    /\ pc \in {"idle", "dedup", "parse", "handle", "deadLetter"}
    /\ attempt \in 0..MaxAttempts
    /\ processed \subseteq Message
    /\ dlq \in [Message -> Nat]
    /\ faults \in 0..MaxFaults
    /\ calls \in [Message -> Nat]
    /\ handled \in [Message -> Nat]
    /\ interrupted \subseteq Message

LoopInit ==
    /\ committed = 0
    /\ position = 0
    /\ pc = "idle"
    /\ attempt = 0
    /\ processed = {}
    /\ dlq = [m \in Message |-> 0]
    /\ calls = [m \in Message |-> 0]
    /\ handled = [m \in Message |-> 0]
    /\ interrupted = {}

Fault == faults < MaxFaults /\ faults' = faults + 1

Current == log[position + 1]

-----------------------------------------------------------------------------
(* How a delivery ends.                                                    *)

\* Mutant of Resolve: the attempt count survives the message.
ResolveKeepingAttempt ==
    /\ position' = position + 1
    /\ pc' = "idle"
    /\ UNCHANGED attempt

\* handleMessage returns: kafkajs resolves the record's offset.
Resolve ==
    /\ position' = position + 1
    /\ pc' = "idle"
    /\ attempt' = 0

\* The consumer starts again from the committed offset.
RedeliverFrom(offset) ==
    /\ committed' = offset
    /\ position' = offset
    /\ pc' = "idle"
    /\ attempt' = 0

\* handleMessage throws: kafkajs tries to commit what is resolved, then
\* rejoins the group.
Redeliver == \E offset \in {committed, position} : RedeliverFrom(offset)

\* The fault strikes after the claim and before the outcome.
Interrupt ==
    interrupted' = IF pc \in {"parse", "handle", "deadLetter"} /\ Current \in processed
                   THEN interrupted \cup {Current} ELSE interrupted

-----------------------------------------------------------------------------
(* handleMessage, one action per step between two awaits.                  *)

\* A message without a usable eventId goes straight to the DLQ.
Receive ==
    /\ pc = "idle"
    /\ position < Len(log)
    /\ pc' = IF Current \in Malformed THEN "deadLetter" ELSE "dedup"
    /\ UNCHANGED <<log, faults, committed, position, attempt, processed, dlq, historyVars>>

\* Mutant of Claim: the id is looked up before processing but not recorded.
LookUpOnly ==
    /\ pc = "dedup"
    /\ Current \notin processed
    /\ pc' = "parse"
    /\ UNCHANGED <<log, faults, committed, position, attempt, processed, dlq, historyVars>>

\* The insert into processed_events checks and claims in one statement.
Claim ==
    /\ pc = "dedup"
    /\ Current \notin processed
    /\ processed' = processed \cup {Current}
    /\ pc' = "parse"
    /\ UNCHANGED <<log, faults, committed, position, attempt, dlq, historyVars>>

\* Mutant of Skip: the unique violation is rethrown like any store error.
RethrowDuplicate ==
    /\ pc = "dedup"
    /\ Current \in processed
    /\ Redeliver
    /\ UNCHANGED <<log, faults, processed, dlq, historyVars>>

\* P2002: the event was claimed before. The delivery is skipped.
Skip ==
    /\ pc = "dedup"
    /\ Current \in processed
    /\ Resolve
    /\ UNCHANGED <<log, faults, committed, processed, dlq, historyVars>>

\* Any other store error is rethrown. The insert may have been applied
\* before the connection broke.
ClaimFails ==
    /\ pc = "dedup"
    /\ Fault
    /\ \/ UNCHANGED <<processed, interrupted>>
       \/ /\ Current \notin processed
          /\ processed' = processed \cup {Current}
          /\ interrupted' = interrupted \cup {Current}
    /\ Redeliver
    /\ UNCHANGED <<log, dlq, calls, handled>>

Parse ==
    /\ pc = "parse"
    /\ pc' = IF Current \in Garbled THEN "deadLetter" ELSE "handle"
    /\ UNCHANGED <<log, faults, committed, position, attempt, processed, dlq, historyVars>>

HandlerReturns ==
    /\ pc = "handle"
    /\ Current \notin Poison
    /\ calls' = [calls EXCEPT ![Current] = @ + 1]
    /\ handled' = [handled EXCEPT ![Current] = @ + 1]
    /\ Resolve
    /\ UNCHANGED <<log, faults, committed, processed, dlq, interrupted>>

\* Mutant of HandlerThrows: one retry too many.
ThrowsOnceMore ==
    /\ pc = "handle"
    /\ calls' = [calls EXCEPT ![Current] = @ + 1]
    /\ attempt' = attempt + 1
    /\ pc' = IF attempt' <= MaxAttempts THEN "handle" ELSE "deadLetter"
    /\ UNCHANGED <<log, faults, committed, position, processed, dlq, handled, interrupted>>

\* Mutant of HandlerThrows: the exhausted message is dropped.
ThrowsAndDrops ==
    /\ pc = "handle"
    /\ calls' = [calls EXCEPT ![Current] = @ + 1]
    /\ IF attempt + 1 < MaxAttempts
       THEN attempt' = attempt + 1 /\ UNCHANGED <<pc, position>>
       ELSE Resolve
    /\ UNCHANGED <<log, faults, committed, processed, dlq, handled, interrupted>>

\* Any message may fail an attempt; the loop sleeps and tries again until
\* the budget is spent.
HandlerThrows ==
    /\ pc = "handle"
    /\ calls' = [calls EXCEPT ![Current] = @ + 1]
    /\ attempt' = attempt + 1
    /\ pc' = IF attempt' < MaxAttempts THEN "handle" ELSE "deadLetter"
    /\ UNCHANGED <<log, faults, committed, position, processed, dlq, handled, interrupted>>

DeadLetter ==
    /\ pc = "deadLetter"
    /\ dlq' = [dlq EXCEPT ![Current] = @ + 1]
    /\ Resolve
    /\ UNCHANGED <<log, faults, committed, processed, historyVars>>

\* Mutant of DeadLetterFails: the claim is taken back so that redelivery
\* tries again.
DeadLetterFailsUnclaiming ==
    /\ pc = "deadLetter"
    /\ Fault
    /\ \/ UNCHANGED dlq
       \/ dlq' = [dlq EXCEPT ![Current] = @ + 1]
    /\ processed' = processed \ {Current}
    /\ Redeliver
    /\ UNCHANGED <<log, historyVars>>

\* connect or send throws out of handleMessage; the broker may have written
\* the message all the same.
DeadLetterFails ==
    /\ pc = "deadLetter"
    /\ Fault
    /\ \/ UNCHANGED dlq
       \/ dlq' = [dlq EXCEPT ![Current] = @ + 1]
    /\ Interrupt
    /\ Redeliver
    /\ UNCHANGED <<log, processed, calls, handled>>

-----------------------------------------------------------------------------
(* kafkajs and the process.                                                *)

\* Resolved offsets are committed at the end of a fetched batch, so the
\* committed offset trails the position.
AutoCommit ==
    /\ pc = "idle"
    /\ committed < position
    /\ committed' = position
    /\ UNCHANGED <<log, faults, position, pc, attempt, processed, dlq, historyVars>>

\* The process dies between any two steps.
Restart ==
    /\ Fault
    /\ Interrupt
    /\ RedeliverFrom(committed)
    /\ UNCHANGED <<log, processed, dlq, calls, handled>>

PollEmpty ==
    /\ pc = "idle"
    /\ position = Len(log)
    /\ UNCHANGED vars

HandleMessage ==
    \/ Receive \/ Claim \/ Skip \/ ClaimFails \/ Parse
    \/ HandlerReturns \/ HandlerThrows \/ DeadLetter \/ DeadLetterFails

LoopNext == HandleMessage \/ AutoCommit \/ Restart \/ PollEmpty

\* kafkajs keeps delivering what is on the partition, a resolved await
\* continues, and batches end. HandlerThrows needs none: its budget is finite.
LoopFairness ==
    /\ WF_vars(Receive)
    /\ WF_vars(Claim)
    /\ WF_vars(Skip)
    /\ WF_vars(Parse)
    /\ WF_vars(HandlerReturns \/ HandlerThrows)
    /\ WF_vars(DeadLetter)
    /\ WF_vars(AutoCommit)

-----------------------------------------------------------------------------
(* The loop over an arbitrary partition: a producer appends any message,   *)
(* any number of times.                                                    *)

CONSTANT MaxLog \* bound on the partition's length

Append1(m) ==
    /\ Len(log) < MaxLog
    /\ log' = Append(log, m)
    /\ UNCHANGED <<faults, loopVars>>

Init == log = <<>> /\ faults = 0 /\ LoopInit
Next == LoopNext \/ \E m \in Message : Append1(m)
Spec == Init /\ [][Next]_vars /\ LoopFairness

-----------------------------------------------------------------------------
(* Properties.                                                             *)

\* "Dedup first": however often an event is delivered, its handler returns at
\* most once.
HandledAtMostOnce == \A m \in Message : handled[m] <= 1

\* The retry budget is per event, not per delivery: redelivery never buys an
\* event more handler calls.
BudgetPerEvent == \A m \in Message : calls[m] <= MaxAttempts

\* An event is either handled or dead-lettered, never both, and not
\* dead-lettered twice. (A message without an eventId may be: nothing dedups it.)
OneOutcome ==
    \A m \in Message \ Malformed :
        /\ handled[m] > 0 => dlq[m] = 0
        /\ dlq[m] <= 1

Done(m) == handled[m] > 0 \/ dlq[m] > 0

\* The loop moves past a record without an outcome only if a fault hit that
\* event between its claim and its outcome.
SkippedOnlyIfInterrupted ==
    \A k \in 1..position : Done(log[k]) \/ log[k] \in interrupted

\* conventions 15.1 and the class comment: the offset is committed only after
\* success or dead-lettering, so a record that is behind the committed offset
\* has an outcome.
CommittedHasOutcome == \A k \in 1..committed : Done(log[k])

\* "A poisoned message must never block its partition": every record is
\* eventually behind the committed offset.
PartitionKeepsFlowing == \A k \in 1..MaxLog : (Len(log) >= k) ~> (committed >= k)
=============================================================================
