------------------------------ MODULE Readings ------------------------------
(***************************************************************************)
(* reading-service: concurrent submissions of meter readings.  Each        *)
(* request looks its meter up, checks the caller's membership, reads the   *)
(* preceding reading and only then opens the transaction that stores the   *)
(* reading and its event.  No step holds a lock across two awaits.         *)
(***************************************************************************)
EXTENDS Naturals, FiniteSets

CONSTANTS
    Request,   \* submissions; the id of a stored reading is its request
    Meter,
    MaxTime,   \* now: recordedAt is in 1..MaxTime, or in the future
    MaxValue   \* values are in 0..MaxValue

ASSUME MaxTimeAssumption  == MaxTime \in Nat
ASSUME MaxValueAssumption == MaxValue \in Nat

VARIABLES
    pc,      \* where createReadingRecord stands
    input,   \* what it carries
    stored,  \* committed rows, in both readings and reading_outbox
    seen     \* history: the rows stored when the request was checked

vars == <<pc, input, stored, seen>>

Command == [meter : Meter, at : 1..MaxTime, value : 0..MaxValue]
Payload == [meter : Meter, at : 1..(MaxTime + 1), value : 0..MaxValue]

TypeOK ==
    /\ pc \in [Request -> {"new", "getMeter", "canWrite", "compare", "save", "done", "refused"}]
    /\ input \in [Request -> Payload]
    /\ \A r \in Request : pc[r] \notin {"new", "refused"} => input[r] \in Command
    /\ stored \subseteq Request
    /\ seen \in [Request -> SUBSET Request]

Init ==
    /\ pc = [r \in Request |-> "new"]
    /\ input \in [Request -> Payload]
    /\ stored = {}
    /\ seen = [r \in Request |-> {}]

Goto(r, label) == pc' = [pc EXCEPT ![r] = label]

\* Mutant of Validate: recordedAt may lie in the future.
ValidateShapeOnly(r) ==
    /\ pc[r] = "new"
    /\ Goto(r, "getMeter")
    /\ UNCHANGED <<input, stored, seen>>

\* recordedAt must not be in the future. (Its other bound, five years back,
\* and the other fields only narrow the payloads further.)
Validate(r) ==
    /\ pc[r] = "new"
    /\ Goto(r, IF input[r].at <= MaxTime THEN "getMeter" ELSE "refused")
    /\ UNCHANGED <<input, stored, seen>>

\* 404 or an unreachable meter-service refuses the request.
GetMeter(r) ==
    /\ pc[r] = "getMeter"
    /\ Goto(r, "canWrite") \/ Goto(r, "refused")
    /\ UNCHANGED <<input, stored, seen>>

AssertCanWrite(r) ==
    /\ pc[r] = "canWrite"
    /\ Goto(r, "compare") \/ Goto(r, "refused")
    /\ UNCHANGED <<input, stored, seen>>

OfMeter(S, m) == {q \in S : input[q].meter = m}

\* Mutant of Preceding: findPrevious without orderBy, any earlier row.
AnyEarlier(r, S) == {q \in OfMeter(S, input[r].meter) : input[q].at < input[r].at}

\* findPrevious: the rows recorded last among those strictly before r. Rows
\* of one instant are all candidates.
Preceding(r, S) ==
    LET earlier == {q \in OfMeter(S, input[r].meter) : input[q].at < input[r].at}
    IN  {p \in earlier : \A q \in earlier : input[q].at <= input[p].at}

NotBelow(r, p) == input[r].value >= input[p].value

AssertNotDecreasing(r) ==
    /\ pc[r] = "compare"
    /\ seen' = [seen EXCEPT ![r] = stored]
    /\ \/ /\ Preceding(r, stored) = {} \/ \E p \in Preceding(r, stored) : NotBelow(r, p)
          /\ Goto(r, "save")
       \/ /\ \E p \in Preceding(r, stored) : ~NotBelow(r, p)
          /\ Goto(r, "refused")
    /\ UNCHANGED <<input, stored>>

\* One transaction: the reading row and its outbox row.
SaveReading(r) ==
    /\ pc[r] = "save"
    /\ stored' = stored \cup {r}
    /\ Goto(r, "done")
    /\ UNCHANGED <<input, seen>>

\* The transaction fails or the service dies first: nothing is stored.
Fail(r) ==
    /\ pc[r] \in {"getMeter", "canWrite", "compare", "save"}
    /\ Goto(r, "refused")
    /\ UNCHANGED <<input, stored, seen>>

CreateReading(r) ==
    \/ Validate(r) \/ GetMeter(r) \/ AssertCanWrite(r)
    \/ AssertNotDecreasing(r) \/ SaveReading(r) \/ Fail(r)

Next == \E r \in Request : CreateReading(r)

Spec == Init /\ [][Next]_vars

-----------------------------------------------------------------------------
(* Properties.                                                             *)

\* Each reading of the meter was checked after every earlier-recorded one had
\* been stored, and no two carry one instant: nobody raced, nobody backdated.
SubmittedInOrder(m) ==
    \A q, r \in OfMeter(stored, m) : q # r =>
        /\ input[q].at # input[r].at
        /\ input[q].at < input[r].at => q \in seen[r]

Monotone(m) ==
    \A q, r \in OfMeter(stored, m) :
        input[q].at < input[r].at => input[q].value <= input[r].value

\* What the check buys: comparing with the one preceding reading keeps the
\* whole series non-decreasing, as long as it was submitted in order.
InOrderSeriesNeverDecreases == \A m \in Meter : SubmittedInOrder(m) => Monotone(m)
=============================================================================
