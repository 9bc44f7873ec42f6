----------------------- MODULE IdempotencyStoreProofs -----------------------
(***************************************************************************)
(* Proofs about IdempotencyStore, for any number of requests, keys and     *)
(* bodies and any lifetimes.  What the argument turns on: a clock that was *)
(* read before a statement is never ahead of the one it is executed at, so *)
(* no statement takes a record for expired that is not.                    *)
(***************************************************************************)
EXTENDS IdempotencyStore, TLAPS

\* The row of k belongs to a request that was sent with its key and body, and
\* a response to one whose reading is stored.
RowTrue(k) ==
    LET holder == IF row[k].owner = None THEN row[k].response ELSE row[k].owner
    IN  /\ input[holder].key = k
        /\ input[holder].body = row[k].body
        /\ row[k].owner = None => row[k].response \in stored

\* A record that was made and has not lapsed is in place.
InPlace(a) == Mine(a) # None /\ Mine(a).response = a

\* A statement may replace the row of k: it is not a record that still lives.
Replaceable(k) == row[k] # None /\ row[k].response # None => row[k].expires <= now

IInv ==
    /\ TypeOK
    /\ \A a \in Attempt : at[a] <= now
    /\ \A a \in Attempt : pc[a] = "complete" => a \in stored
    /\ \A k \in Key : row[k] # None => RowTrue(k)
    /\ \A a \in recorded \ lapsed : InPlace(a)
    /\ ReplaysWhatIsStored

LEMMA RowFacts ==
  ASSUME NEW x \in Row
  PROVE  /\ x.body \in Body /\ x.expires \in Nat
         /\ \/ x.owner \in Attempt /\ x.owner # None /\ x.response = None
            \/ x.owner = None /\ x.response \in Attempt /\ x.response # None
BY NoneAssumption DEF Row

\* What a statement keeps: everything but the row it replaces.
LEMMA SetRowKeeps ==
  ASSUME IInv, NEW k \in Key, NEW new \in Row \cup {None}, SetRow(k, new),
         Replaceable(k), UNCHANGED <<now, input>>, stored' = stored
  PROVE  /\ row' \in [Key -> Row \cup {None}]
         /\ lapsed' \subseteq recorded
         /\ row'[k] = new
         /\ \A j \in Key : j # k /\ row'[j] # None => RowTrue(j)'
         /\ \A a \in recorded \ lapsed' : InPlace(a)'
<1>1. /\ row' \in [Key -> Row \cup {None}] /\ lapsed' \subseteq recorded /\ row'[k] = new
      /\ \A j \in Key : j # k => row'[j] = row[j]
  BY DEF SetRow, IInv, TypeOK
<1>2. \A j \in Key : j # k /\ row'[j] # None => RowTrue(j)'
  BY <1>1 DEF IInv, RowTrue
<1>3. ASSUME NEW a \in recorded \ lapsed' PROVE InPlace(a)'
  <2>1. a \in Attempt /\ a # None /\ input[a].key \in Key /\ a \notin lapsed
    BY <1>3, NoneAssumption DEF SetRow, IInv, TypeOK
  <2>2. InPlace(a)
    BY <1>3, <2>1 DEF IInv
  <2>3. input[a].key # k
    BY <1>3, <2>1, <2>2 DEF SetRow, Replaceable, InPlace, Mine
  <2>4. QED
    BY <1>1, <2>1, <2>2, <2>3 DEF InPlace, Mine
<1>4. QED
  BY <1>1, <1>2, <1>3

LEMMA InitIInv == Init => IInv
BY MaxTimeAssumption
DEF Init, ClockInit, IInv, TypeOK, InFlight, ReplaysWhatIsStored

\* A step that leaves the rows alone.
LEMMA RowUntouched ==
  ASSUME IInv, TypeOK', UNCHANGED <<input, row, recorded, lapsed>>, stored \subseteq stored'
  PROVE  /\ \A k \in Key : row'[k] # None => RowTrue(k)'
         /\ \A a \in recorded' \ lapsed' : InPlace(a)'
BY DEF IInv, RowTrue, InPlace, Mine

-----------------------------------------------------------------------------

LEMMA InsertKeeps == ASSUME IInv, NEW a \in Attempt, Insert(a) PROVE IInv'
<1> DEFINE k   == input[a].key
           new == [body |-> input[a].body, owner |-> a, response |-> None,
                   expires |-> at[a] + LockTtl]
<1>1. k \in Key /\ now \in Nat /\ at[a] \in Nat /\ at[a] <= now
  BY MaxTimeAssumption DEF IInv, TypeOK
<1>2. CASE Vacant(a)
  <2>1. new \in Row /\ a # None
    BY <1>1, TtlAssumption, NoneAssumption DEF IInv, TypeOK, Row
  <2>2. SetRow(k, new) /\ pc' = [pc EXCEPT ![a] = "handler"]
    BY <1>2 DEF Insert, Goto
  <2>3. Replaceable(k)
    <3>1. row[k] # None => row[k].expires \in Nat /\ row[k].expires <= at[a]
      BY <1>1, <1>2, RowFacts DEF Vacant, Mine, IInv, TypeOK
    <3>2. QED
      BY <1>1, <3>1 DEF Replaceable
  <2>4. /\ row' \in [Key -> Row \cup {None}] /\ lapsed' \subseteq recorded /\ row'[k] = new
        /\ \A j \in Key : j # k /\ row'[j] # None => RowTrue(j)'
        /\ \A b \in recorded \ lapsed' : InPlace(b)'
    BY <1>1, <2>1, <2>2, <2>3, SetRowKeeps DEF Insert
  <2>5. RowTrue(k)'
    BY <2>1, <2>4 DEF RowTrue, Insert
  <2>6. TypeOK'
    BY <2>2, <2>4 DEF Insert, IInv, TypeOK, InFlight
  <2>7. ReplaysWhatIsStored' /\ \A b \in Attempt : pc'[b] = "complete" => b \in stored'
    BY <2>2 DEF Insert, IInv, TypeOK, ReplaysWhatIsStored
  <2>8. QED
    BY <2>4, <2>5, <2>6, <2>7 DEF IInv, Insert
<1>3. CASE ~Vacant(a)
  <2>1. TypeOK'
    BY <1>3 DEF Insert, Goto, IInv, TypeOK, InFlight
  <2>2. ReplaysWhatIsStored' /\ \A b \in Attempt : pc'[b] = "complete" => b \in stored'
    BY <1>3 DEF Insert, Goto, IInv, TypeOK, ReplaysWhatIsStored
  <2>3. QED
    BY <1>3, <2>1, <2>2, RowUntouched DEF IInv, Insert
<1>4. QED
  BY <1>2, <1>3

LEMMA FindKeeps == ASSUME IInv, NEW a \in Attempt, Find(a) PROVE IInv'
<1> DEFINE k == input[a].key
<1>1. k \in Key
  BY DEF IInv, TypeOK
<1>2. MayReplay(a) => /\ Mine(a).response \in stored
                      /\ Mine(a).response \in Attempt
                      /\ input[Mine(a).response].key = k
                      /\ input[Mine(a).response].body = input[a].body
  BY <1>1, RowFacts DEF MayReplay, Vacant, Mine, IInv, TypeOK, RowTrue
<1>3. MayReplay(a) => input[Mine(a).response] = input[a]
  BY <1>2 DEF IInv, TypeOK
<1>4. TypeOK'
  BY <1>2 DEF Find, Goto, IInv, TypeOK, InFlight
<1>5. ReplaysWhatIsStored' /\ \A b \in Attempt : pc'[b] = "complete" => b \in stored'
  BY <1>2, <1>3 DEF Find, Goto, IInv, TypeOK, ReplaysWhatIsStored
<1>6. QED
  BY <1>4, <1>5, RowUntouched DEF IInv, Find

\* The calls that leave the table alone.
LEMMA OutsideKeeps ==
  ASSUME IInv, NEW a \in Attempt, Begin(a) \/ Commit(a) \/ HandlerFails(a) PROVE IInv'
<1>1. now \in 0..MaxTime /\ now \in Nat
  BY MaxTimeAssumption DEF IInv, TypeOK
<1>2. TypeOK'
  BY <1>1 DEF Begin, Commit, HandlerFails, Goto, ReadClock, IInv, TypeOK, InFlight
<1>3. /\ ReplaysWhatIsStored' /\ \A b \in Attempt : pc'[b] = "complete" => b \in stored'
      /\ \A b \in Attempt : at'[b] <= now'
  BY <1>1 DEF Begin, Commit, HandlerFails, Goto, ReadClock, IInv, TypeOK, ReplaysWhatIsStored
<1>4. UNCHANGED <<input, row, recorded, lapsed>> /\ stored \subseteq stored'
  BY DEF Begin, Commit, HandlerFails
<1>5. QED
  BY <1>2, <1>3, <1>4, RowUntouched DEF IInv

\* What a request owns is a lock of its own.
LEMMA OwnsLock ==
  ASSUME IInv, NEW a \in Attempt, NEW t, Owns(a, t)
  PROVE  /\ Mine(a) # None /\ Mine(a) \in Row /\ Mine(a).owner = a /\ Mine(a).response = None
         /\ Mine(a).body = input[a].body /\ input[a].key \in Key
         /\ Replaceable(input[a].key)
<1>1. input[a].key \in Key /\ a # None
  BY NoneAssumption DEF IInv, TypeOK
<1>2. Mine(a) # None /\ Mine(a) \in Row /\ Mine(a).owner = a
  BY <1>1 DEF Owns, Mine, IInv, TypeOK
<1>3. Mine(a).response = None
  BY <1>1, <1>2, RowFacts
<1>4. Mine(a).body = input[a].body
  BY <1>1, <1>2 DEF IInv, RowTrue, Mine
<1>5. QED
  BY <1>1, <1>2, <1>3, <1>4 DEF Replaceable, Mine

LEMMA ExtendKeeps == ASSUME IInv, NEW a \in Attempt, Extend(a) PROVE IInv'
<1>0. PICK t \in 0..now : /\ Owns(a, t)
                        /\ SetRow(input[a].key, [Mine(a) EXCEPT !.expires = t + LockTtl])
  BY DEF Extend
<1> DEFINE k   == input[a].key
           new == [Mine(a) EXCEPT !.expires = t + LockTtl]
<1>1. /\ Mine(a) \in Row /\ Mine(a).owner = a /\ Mine(a).response = None /\ a # None
      /\ Mine(a).body = input[a].body /\ k \in Key /\ Replaceable(k)
  BY <1>0, OwnsLock, NoneAssumption
<1>2. t + LockTtl \in Nat
  BY <1>0, MaxTimeAssumption, TtlAssumption DEF IInv, TypeOK
<1>3. new \in Row /\ new.owner = a /\ new.body = input[a].body
  BY <1>1, <1>2, NoneAssumption DEF Row
<1>4. /\ row' \in [Key -> Row \cup {None}] /\ lapsed' \subseteq recorded /\ row'[k] = new
      /\ \A j \in Key : j # k /\ row'[j] # None => RowTrue(j)'
      /\ \A b \in recorded \ lapsed' : InPlace(b)'
  BY <1>1, <1>3, <1>0, SetRowKeeps DEF Extend
<1>5. RowTrue(k)'
  BY <1>1, <1>3, <1>4 DEF RowTrue, Extend
<1>6. TypeOK' /\ ReplaysWhatIsStored'
  BY <1>4 DEF Extend, IInv, TypeOK, ReplaysWhatIsStored
<1>7. QED
  BY <1>4, <1>5, <1>6 DEF IInv, Extend

LEMMA CompleteKeeps == ASSUME IInv, NEW a \in Attempt, Complete(a) PROVE IInv'
<1> DEFINE k == input[a].key
<1>1. a \in stored /\ a # None /\ at[a] \in Nat
  BY NoneAssumption, MaxTimeAssumption DEF IInv, TypeOK, Complete
<1>2. ReplaysWhatIsStored' /\ \A b \in Attempt : pc'[b] = "complete" => b \in stored'
  BY <1>1 DEF Complete, Goto, IInv, TypeOK, ReplaysWhatIsStored
<1>3. CASE Owns(a, at[a])
  <2>1. /\ Mine(a) \in Row /\ Mine(a).owner = a /\ Mine(a).response = None
        /\ Mine(a).body = input[a].body /\ k \in Key /\ Replaceable(k)
    BY <1>3, OwnsLock
  <2>2. at[a] + Ttl \in Nat
    BY <1>1, TtlAssumption
  <2>3. /\ Completed(a) \in Row /\ Completed(a).owner = None /\ Completed(a).response = a
        /\ Completed(a).body = input[a].body /\ Completed(a) # None
    BY <2>1, <2>2, NoneAssumption DEF Row, Completed
  <2>4. /\ row' \in [Key -> Row \cup {None}] /\ lapsed' \subseteq recorded
        /\ row'[k] = Completed(a)
        /\ \A j \in Key : j # k /\ row'[j] # None => RowTrue(j)'
        /\ \A b \in recorded \ lapsed' : InPlace(b)'
    BY <1>3, <2>1, <2>3, SetRowKeeps DEF Complete
  <2>5. RowTrue(k)' /\ InPlace(a)'
    BY <1>1, <2>1, <2>3, <2>4 DEF RowTrue, InPlace, Mine, Complete
  <2>6. TypeOK'
    BY <1>3, <2>4 DEF Complete, Goto, IInv, TypeOK, InFlight
  <2>7. \A b \in recorded' \ lapsed' : InPlace(b)'
    BY <1>3, <2>4, <2>5 DEF Complete
  <2>8. QED
    BY <1>2, <2>4, <2>5, <2>6, <2>7 DEF IInv, Complete
<1>4. CASE ~Owns(a, at[a])
  <2>1. TypeOK'
    BY <1>4 DEF Complete, Goto, IInv, TypeOK, InFlight
  <2>2. QED
    BY <1>2, <1>4, <2>1, RowUntouched DEF IInv, Complete
<1>5. QED
  BY <1>3, <1>4

LEMMA ReleaseKeeps == ASSUME IInv, NEW a \in Attempt, Release(a) PROVE IInv'
<1> DEFINE k == input[a].key
<1>1. ReplaysWhatIsStored' /\ \A b \in Attempt : pc'[b] = "complete" => b \in stored'
  BY DEF Release, Goto, IInv, TypeOK, ReplaysWhatIsStored
<1>2. CASE Owns(a, at[a])
  <2>1. k \in Key /\ Replaceable(k)
    BY <1>2, OwnsLock
  <2>2. /\ row' \in [Key -> Row \cup {None}] /\ lapsed' \subseteq recorded /\ row'[k] = None
        /\ \A j \in Key : j # k /\ row'[j] # None => RowTrue(j)'
        /\ \A b \in recorded \ lapsed' : InPlace(b)'
    BY <1>2, <2>1, SetRowKeeps DEF Release
  <2>3. TypeOK'
    BY <2>2 DEF Release, Goto, IInv, TypeOK, InFlight
  <2>4. QED
    BY <1>1, <2>2, <2>3 DEF IInv, Release
<1>3. CASE ~Owns(a, at[a])
  <2>1. TypeOK'
    BY <1>3 DEF Release, Goto, IInv, TypeOK, InFlight
  <2>2. QED
    BY <1>1, <1>3, <2>1, RowUntouched DEF IInv, Release
<1>4. QED
  BY <1>2, <1>3

LEMMA PruneKeeps == ASSUME IInv, NEW k \in Key, Prune(k) PROVE IInv'
<1>1. Replaceable(k)
  BY DEF Prune, Replaceable
<1>2. /\ row' \in [Key -> Row \cup {None}] /\ lapsed' \subseteq recorded /\ row'[k] = None
      /\ \A j \in Key : j # k /\ row'[j] # None => RowTrue(j)'
      /\ \A b \in recorded \ lapsed' : InPlace(b)'
  BY <1>1, SetRowKeeps DEF Prune
<1>3. TypeOK' /\ ReplaysWhatIsStored'
  BY <1>2 DEF Prune, IInv, TypeOK, ReplaysWhatIsStored
<1>4. QED
  BY <1>2, <1>3 DEF IInv, Prune

LEMMA NextIInv == IInv /\ [Next]_vars => IInv'
<1> SUFFICES ASSUME IInv, [Next]_vars PROVE IInv'
  OBVIOUS
<1>1. CASE Crash
  <2>1. TypeOK'
    BY <1>1 DEF Crash, IInv, TypeOK, InFlight
  <2>2. ReplaysWhatIsStored' /\ \A b \in Attempt : pc'[b] = "complete" => b \in stored'
    BY <1>1 DEF Crash, IInv, TypeOK, ReplaysWhatIsStored, InFlight
  <2>3. QED
    BY <1>1, <2>1, <2>2, RowUntouched DEF IInv, Crash
<1>2. CASE Tick /\ UNCHANGED <<pc, input, at, row, answer, stored, recorded, lapsed>>
  <2>1. now \in Nat /\ now' = now + 1 /\ now' \in 0..MaxTime /\ \A a \in Attempt : at[a] \in Nat
    BY <1>2, MaxTimeAssumption DEF Tick, IInv, TypeOK
  <2>2. TypeOK' /\ ReplaysWhatIsStored' /\ \A a \in Attempt : at'[a] <= now'
    BY <1>2, <2>1 DEF IInv, TypeOK, ReplaysWhatIsStored
  <2>3. QED
    BY <1>2, <2>2, RowUntouched DEF IInv
<1>3. CASE UNCHANGED vars
  <2>1. TypeOK' /\ ReplaysWhatIsStored'
    BY <1>3 DEF vars, IInv, TypeOK, ReplaysWhatIsStored
  <2>2. QED
    BY <1>3, <2>1, RowUntouched DEF IInv, vars
<1>4. QED
  BY <1>1, <1>2, <1>3, InsertKeeps, FindKeeps, OutsideKeeps, ExtendKeeps, CompleteKeeps,
     ReleaseKeeps, PruneKeeps
  DEF Next, Request

LEMMA Invariance == Spec => []IInv
BY InitIInv, NextIInv, PTL DEF Spec

-----------------------------------------------------------------------------

\* A row is a lock or a record, never both; every history stays in its range.
THEOREM TypeCorrect == Spec => []TypeOK
<1>1. IInv => TypeOK
  BY DEF IInv
<1>2. QED
  BY <1>1, Invariance, PTL

\* Two readings are stored under one key, neither record having lapsed, only
\* when one of their requests lost its lock.
THEOREM OneUnlessLost == Spec => []TwiceOnlyAfterLostLock
<1>1. ASSUME IInv PROVE TwiceOnlyAfterLostLock
  <2> SUFFICES ASSUME NEW a \in stored, NEW b \in stored, SameKey(a, b), Kept(a), Kept(b),
                      a \notin lapsed, b \notin lapsed
               PROVE  FALSE
    BY DEF TwiceOnlyAfterLostLock
  <2>1. /\ a \in Attempt /\ b \in Attempt /\ a # b /\ a # None /\ b # None
        /\ input[a].key \in Key /\ Mine(a) = Mine(b)
    BY <1>1, NoneAssumption DEF IInv, TypeOK, SameKey, Mine
  <2>2. \/ InPlace(a) \/ (Mine(a) # None /\ Mine(a).owner = a)
    BY <1>1 DEF Kept, IInv
  <2>3. \/ InPlace(b) \/ (Mine(b) # None /\ Mine(b).owner = b)
    BY <1>1 DEF Kept, IInv
  <2>4. Mine(a) # None => Mine(a) \in Row
    BY <1>1, <2>1 DEF Mine, IInv, TypeOK
  <2>5. QED
    BY <2>1, <2>2, <2>3, <2>4, RowFacts DEF InPlace
<1>2. QED
  BY <1>1, Invariance, PTL

\* A replay shows a stored reading, of a request with the same key and body.
THEOREM ReplaysAreTrue == Spec => []ReplaysWhatIsStored
<1>1. IInv => ReplaysWhatIsStored
  BY DEF IInv
<1>2. QED
  BY <1>1, Invariance, PTL

\* No statement touches a completed record before it has expired.
THEOREM RecordsStay == Spec => RecordsLast
<1> DEFINE Live(k) == row[k] # None /\ row[k].response # None /\ row[k].expires > now
<1>1. ASSUME IInv, [Next]_vars, NEW k \in Key, Live(k) PROVE row'[k] = row[k]
  <2>1. now \in Nat /\ row[k] \in Row /\ row[k].expires \in Nat
    BY <1>1, MaxTimeAssumption, RowFacts DEF IInv, TypeOK
  <2>2. ~Replaceable(k)
    BY <1>1, <2>1 DEF Replaceable
  <2>3. ASSUME NEW j \in Key, NEW new, SetRow(j, new), Replaceable(j) PROVE row'[k] = row[k]
    BY <1>1, <2>2, <2>3 DEF SetRow, IInv, TypeOK
  <2>4. ASSUME NEW a \in Attempt, Insert(a) PROVE row'[k] = row[k]
    <3>1. input[a].key \in Key /\ at[a] \in Nat /\ at[a] <= now
      BY <1>1, MaxTimeAssumption DEF IInv, TypeOK
    <3>2. Vacant(a) => Replaceable(input[a].key)
      BY <1>1, <2>1, <3>1, RowFacts DEF Vacant, Mine, Replaceable, IInv, TypeOK
    <3>3. QED
      BY <2>3, <2>4, <3>1, <3>2 DEF Insert
  <2>5. ASSUME NEW a \in Attempt, Extend(a) \/ Complete(a) \/ Release(a) PROVE row'[k] = row[k]
    <3>1. \A t : Owns(a, t) => input[a].key \in Key /\ Replaceable(input[a].key)
      BY <1>1, OwnsLock
    <3>2. QED
      BY <2>3, <2>5, <3>1 DEF Extend, Complete, Release
  <2>6. ASSUME NEW j \in Key, Prune(j) PROVE row'[k] = row[k]
    BY <2>3, <2>6 DEF Prune, Replaceable
  <2>7. QED
    BY <1>1, <2>4, <2>5, <2>6
    DEF Next, Request, Begin, Find, Commit, HandlerFails, Crash, vars
<1>2. IInv /\ [Next]_vars => [\A k \in Key : Live(k) => row'[k] = row[k]]_vars
  BY <1>1
<1>3. QED
  BY <1>2, Invariance, PTL DEF Spec, RecordsLast
=============================================================================
