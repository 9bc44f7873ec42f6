-------------------------- MODULE IdempotencyStore --------------------------
(***************************************************************************)
(* reading-service: the idempotency_keys table behind POST /readings.  The *)
(* interceptor of @nestjs/idempotency calls the store around the handler;  *)
(* each call is one statement whose clock was read before it was sent.     *)
(* One request per Attempt; the retries of a client share a key.           *)
(***************************************************************************)
EXTENDS Clock

CONSTANTS
    Attempt,
    Key,       \* of one user: the interceptor scopes keys
    Body,      \* fingerprints of the payload
    None,
    LockTtl,   \* lifetime of a lock, renewed while the handler runs
    Ttl        \* '24h': lifetime of a completed record

ASSUME TtlAssumption == LockTtl \in Nat \ {0} /\ Ttl \in Nat \ {0}

\* A lock has an owner and no response, a completed record the reverse.
Row == [body : Body, owner : Attempt, response : {None}, expires : Nat]
       \cup [body : Body, owner : {None}, response : Attempt, expires : Nat]

ASSUME NoneAssumption == None \notin Attempt \cup Row

VARIABLES
    pc,        \* where the request stands
    input,     \* its key and its body
    at,        \* the clock it read for its next statement
    row,       \* idempotency_keys, by key; None for no row
    answer,    \* what the client got: the reading of an attempt, or None
    stored,    \* attempts whose reading is committed
    recorded,  \* history: attempts whose answer was recorded
    lapsed     \* history: those whose record had expired when it went

vars == <<now, pc, input, at, row, answer, stored, recorded, lapsed>>

InFlight == {"insert", "find", "handler", "complete", "release"}

TypeOK ==
    /\ now \in 0..MaxTime
    /\ pc \in [Attempt -> InFlight \cup {"new", "created", "replayed", "refused", "lost"}]
    /\ input \in [Attempt -> [key : Key, body : Body]]
    /\ at \in [Attempt -> 0..MaxTime]
    /\ row \in [Key -> Row \cup {None}]
    /\ answer \in [Attempt -> Attempt \cup {None}]
    /\ stored \subseteq Attempt
    /\ recorded \subseteq Attempt
    /\ lapsed \subseteq recorded

Init ==
    /\ ClockInit
    /\ pc = [a \in Attempt |-> "new"]
    /\ input \in [Attempt -> [key : Key, body : Body]]
    /\ at = [a \in Attempt |-> 0]
    /\ row = [k \in Key |-> None]
    /\ answer = [a \in Attempt |-> None]
    /\ stored = {}
    /\ recorded = {}
    /\ lapsed = {}

Mine(a)        == row[input[a].key]
Goto(a, label) == pc' = [pc EXCEPT ![a] = label]
ReadClock(a)   == at' = [at EXCEPT ![a] = now]

\* The row of k becomes new; a completed record that has expired lapses.
SetRow(k, new) ==
    /\ row' = [row EXCEPT ![k] = new]
    /\ lapsed' = lapsed \cup {a \in recorded :
           row[k] # None /\ row[k].response = a /\ row[k].expires <= now}

-----------------------------------------------------------------------------
(* acquire                                                                 *)

Begin(a) ==
    /\ pc[a] = "new"
    /\ ReadClock(a) /\ Goto(a, "insert")
    /\ UNCHANGED <<now, input, row, answer, stored, recorded, lapsed>>

\* Mutant of Vacant: expires_at is compared with the new deadline.
VacantByDeadline(a) == Mine(a) = None \/ Mine(a).expires <= at[a] + LockTtl

\* An expired row counts as absent.
Vacant(a) == Mine(a) = None \/ Mine(a).expires <= at[a]

\* INSERT ... ON CONFLICT DO UPDATE ... WHERE expires_at <= now.
Insert(a) ==
    /\ pc[a] = "insert"
    /\ IF Vacant(a)
       THEN /\ SetRow(input[a].key, [body |-> input[a].body, owner |-> a, response |-> None,
                                     expires |-> at[a] + LockTtl])
            /\ Goto(a, "handler")
       ELSE Goto(a, "find") /\ UNCHANGED <<row, lapsed>>
    /\ UNCHANGED <<now, input, at, answer, stored, recorded>>

\* Mutant of MayReplay: the fingerprint is not compared.
MayReplayAny(a) == ~Vacant(a) /\ Mine(a).response # None

MayReplay(a) == ~Vacant(a) /\ Mine(a).response # None /\ Mine(a).body = input[a].body

\* findRow, a statement of its own: the row may have changed or gone since.
\* A record is replayed; a lock, another body, or no live row refuses.
Find(a) ==
    /\ pc[a] = "find"
    /\ IF MayReplay(a)
       THEN Goto(a, "replayed") /\ answer' = [answer EXCEPT ![a] = Mine(a).response]
       ELSE Goto(a, "refused") /\ UNCHANGED answer
    /\ UNCHANGED <<now, input, at, row, stored, recorded, lapsed>>

-----------------------------------------------------------------------------
(* The handler, and the calls of the interceptor around it.                *)

\* Mutant of Owns: the owner is not compared.
Holds(a, t) == Mine(a) # None /\ Mine(a).expires > t

\* The compare-and-swap of complete, release and extend, at the clock t.
Owns(a, t) == Mine(a) # None /\ Mine(a).owner = a /\ Mine(a).expires > t

\* The renewal timer. Its calls follow one another, but a stalled process or
\* database makes them late, with the clock t they have read.
Extend(a) ==
    /\ pc[a] \in {"handler", "complete", "release"}
    /\ \E t \in 0..now :
          /\ Owns(a, t) /\ t + LockTtl >= Mine(a).expires
          /\ SetRow(input[a].key, [Mine(a) EXCEPT !.expires = t + LockTtl])
    /\ UNCHANGED <<now, pc, input, at, answer, stored, recorded>>

\* The handler's transaction commits; or it does, and the connection breaks
\* before the handler learns of it.
Commit(a) ==
    /\ pc[a] = "handler"
    /\ stored' = stored \cup {a}
    /\ ReadClock(a)
    /\ Goto(a, "complete") \/ Goto(a, "release")
    /\ UNCHANGED <<now, input, row, answer, recorded, lapsed>>

HandlerFails(a) ==
    /\ pc[a] = "handler"
    /\ ReadClock(a) /\ Goto(a, "release")
    /\ UNCHANGED <<now, input, row, answer, stored, recorded, lapsed>>

\* Mutant of Completed: the owner is left in place.
CompletedInPlace(a) == [Mine(a) EXCEPT !.response = a, !.expires = at[a] + Ttl]

Completed(a) == [Mine(a) EXCEPT !.owner = None, !.response = a, !.expires = at[a] + Ttl]

\* The client gets its reading whether or not the record could be kept.
Complete(a) ==
    /\ pc[a] = "complete"
    /\ IF Owns(a, at[a])
       THEN SetRow(input[a].key, Completed(a)) /\ recorded' = recorded \cup {a}
       ELSE UNCHANGED <<row, recorded, lapsed>>
    /\ answer' = [answer EXCEPT ![a] = a]
    /\ Goto(a, "created")
    /\ UNCHANGED <<now, input, at, stored>>

Release(a) ==
    /\ pc[a] = "release"
    /\ IF Owns(a, at[a]) THEN SetRow(input[a].key, None) ELSE UNCHANGED <<row, lapsed>>
    /\ Goto(a, "refused")
    /\ UNCHANGED <<now, input, at, answer, stored, recorded>>

Request(a) ==
    \/ Begin(a) \/ Insert(a) \/ Find(a)
    \/ Extend(a) \/ Commit(a) \/ HandlerFails(a) \/ Complete(a) \/ Release(a)

-----------------------------------------------------------------------------

\* The hourly cron; a failing sweep is logged and leaves its rows to the next.
Prune(k) ==
    /\ row[k] # None /\ row[k].expires <= now
    /\ SetRow(k, None)
    /\ UNCHANGED <<now, pc, input, at, answer, stored, recorded>>

\* The service dies: its requests are gone, what they wrote stays.
Crash ==
    /\ \E a \in Attempt : pc[a] \in InFlight
    /\ pc' = [a \in Attempt |-> IF pc[a] \in InFlight THEN "lost" ELSE pc[a]]
    /\ UNCHANGED <<now, input, at, row, answer, stored, recorded, lapsed>>

Next ==
    \/ \E a \in Attempt : Request(a)
    \/ \E k \in Key : Prune(k)
    \/ Crash
    \/ Tick /\ UNCHANGED <<pc, input, at, row, answer, stored, recorded, lapsed>>

Spec == Init /\ [][Next]_vars

-----------------------------------------------------------------------------
(* Properties.                                                             *)

SameKey(a, b) == a # b /\ input[a].key = input[b].key

\* The request recorded its answer, or still owns the row.
Kept(a) == a \in recorded \/ (Mine(a) # None /\ Mine(a).owner = a)

\* Two readings are stored under one key, the record of neither having lapsed,
\* only if one of the two requests lost its lock: it died or failed after the
\* commit, or did not renew in time.
TwiceOnlyAfterLostLock ==
    \A a, b \in stored :
        SameKey(a, b) /\ Kept(a) /\ Kept(b) => a \in lapsed \/ b \in lapsed

\* Whatever overtakes whatever, a replay shows a reading that is stored, and
\* one submitted under the same key with the same body.
ReplaysWhatIsStored ==
    \A a \in Attempt : answer[a] # None =>
        answer[a] \in stored /\ input[answer[a]] = input[a]

\* Until it expires, a completed record survives late completions and
\* renewals, stale acquisitions and the sweep.
RecordsLast ==
    [][\A k \in Key :
          row[k] # None /\ row[k].response # None /\ row[k].expires > now => row'[k] = row[k]]_vars
=============================================================================
