--------------------------- MODULE ReadingsProofs ---------------------------
(***************************************************************************)
(* Proofs about Readings, for any number of requests, meters, instants and *)
(* values.  The last theorem goes by minimal counterexample: the reading   *)
(* with the least instant that lies below an earlier one was compared with *)
(* a predecessor that lies below it too.                                   *)
(***************************************************************************)
EXTENDS Readings, TLAPS, WellFoundedInduction

\* A request that passed the check was compared with one of the rows that
\* preceded it then.
Compared(r) ==
    \/ Preceding(r, seen[r]) = {}
    \/ \E p \in Preceding(r, seen[r]) : NotBelow(r, p)

IInv ==
    /\ TypeOK
    /\ stored = {r \in Request : pc[r] = "done"}
    /\ \A r \in Request : seen[r] \subseteq stored
    /\ \A r \in Request : pc[r] \in {"save", "done"} => Compared(r)

LEMMA InitIInv == Init => IInv
BY DEF Init, IInv, TypeOK, Command, Payload

LEMMA NextIInv == IInv /\ [Next]_vars => IInv'
<1> SUFFICES ASSUME IInv, [Next]_vars PROVE IInv'
  OBVIOUS
<1> USE DEF IInv, TypeOK, Goto
<1>1. CASE UNCHANGED vars
  BY <1>1 DEF vars, Compared, Preceding, OfMeter, NotBelow
<1>2. ASSUME NEW r \in Request, Validate(r) PROVE IInv'
  <2>1. TypeOK'
    BY <1>2, MaxTimeAssumption DEF Validate, Payload, Command
  <2>2. stored' = {q \in Request : pc'[q] = "done"}
    BY <1>2 DEF Validate
  <2>3. \A q \in Request : pc'[q] \in {"save", "done"} => Compared(q)'
    BY <1>2 DEF Validate, Compared, Preceding, OfMeter, NotBelow
  <2>4. \A q \in Request : seen'[q] \subseteq stored'
    BY <1>2 DEF Validate
  <2>5. QED
    BY <2>1, <2>2, <2>3, <2>4 DEF IInv
<1>3. ASSUME NEW r \in Request, GetMeter(r) \/ AssertCanWrite(r) \/ Fail(r) PROVE IInv'
  BY <1>3 DEF GetMeter, AssertCanWrite, Fail, Compared, Preceding, OfMeter, NotBelow
<1>4. ASSUME NEW r \in Request, AssertNotDecreasing(r) PROVE IInv'
  <2>1. TypeOK' /\ stored' = {q \in Request : pc'[q] = "done"}
    BY <1>4 DEF AssertNotDecreasing
  <2>2. ASSUME NEW q \in Request, pc'[q] \in {"save", "done"} PROVE Compared(q)'
    <3>1. CASE q = r
      BY <1>4, <2>2, <3>1 DEF AssertNotDecreasing, Compared, Preceding, OfMeter, NotBelow
    <3>2. CASE q # r
      BY <1>4, <2>2, <3>2 DEF AssertNotDecreasing, Compared, Preceding, OfMeter, NotBelow
    <3>3. QED
      BY <3>1, <3>2
  <2>3. \A q \in Request : seen'[q] \subseteq stored'
    BY <1>4 DEF AssertNotDecreasing
  <2>4. QED
    BY <2>1, <2>2, <2>3
<1>5. ASSUME NEW r \in Request, SaveReading(r) PROVE IInv'
  BY <1>5 DEF SaveReading, Compared, Preceding, OfMeter, NotBelow
<1>6. QED
  BY <1>1, <1>2, <1>3, <1>4, <1>5 DEF Next, CreateReading

LEMMA Invariance == Spec => []IInv
BY InitIInv, NextIInv, PTL DEF Spec

\* A request past its validation carries a payload that validates.
THEOREM TypeCorrect == Spec => []TypeOK
<1>1. IInv => TypeOK
  BY DEF IInv
<1>2. QED
  BY <1>1, Invariance, PTL

-----------------------------------------------------------------------------
(* Least and greatest elements.                                            *)

LEMMA LeastExists ==
  ASSUME NEW S, S \subseteq Nat, S # {}
  PROVE  \E n \in S : \A k \in S : n <= k
<1>1. IsWellFoundedOn({p \in Nat \X Nat : p[1] < p[2]}, Nat)
  BY NatLessThanWellFounded, SMT DEF OpToRel
<1>2. PICK n \in S : \A k \in S : ~(<<k, n>> \in {p \in Nat \X Nat : p[1] < p[2]})
  BY <1>1, WFMin
<1>3. ASSUME NEW k \in S PROVE n <= k
  <2>1. n \in Nat /\ k \in Nat
    OBVIOUS
  <2>2. ~(k < n)
    BY <1>2, <2>1
  <2>3. QED
    BY <2>1, <2>2
<1>4. QED
  BY <1>3

LEMMA GreatestExists ==
  ASSUME NEW b \in Nat, NEW S, S \subseteq 0..b, S # {}
  PROVE  \E n \in S : \A k \in S : k <= n
<1> DEFINE T == {b - n : n \in S}
<1>1. \A n \in S : n \in Nat /\ b - n \in Nat
  OBVIOUS
<1>2. T \subseteq Nat
  BY <1>1
<1>3. T # {}
  <2>1. PICK n \in S : TRUE
    OBVIOUS
  <2>2. b - n \in T
    OBVIOUS
  <2>3. QED
    BY <2>2
<1>4. PICK t \in T : \A u \in T : t <= u
  BY <1>2, <1>3, LeastExists
<1>5. PICK n \in S : t = b - n
  OBVIOUS
<1>6. \A k \in S : b - n <= b - k
  BY <1>4, <1>5
<1>7. QED
  BY <1>1, <1>6

\* A row recorded after another has a preceding row.
LEMMA PrecedingExists ==
  ASSUME TypeOK, NEW r \in stored, NEW S \in SUBSET stored,
         NEW q \in OfMeter(S, input[r].meter), input[q].at < input[r].at
  PROVE  Preceding(r, S) # {}
<1> DEFINE E == {x \in OfMeter(S, input[r].meter) : input[x].at < input[r].at}
           T == {input[x].at : x \in E}
<1>1. \A x \in stored : input[x].at \in Nat /\ input[x].at <= MaxTime + 1
  BY MaxTimeAssumption DEF TypeOK, Payload
<1>2. T \subseteq 0..(MaxTime + 1) /\ T # {}
  BY <1>1 DEF OfMeter
<1>3. MaxTime + 1 \in Nat
  BY MaxTimeAssumption
<1>4. PICK t \in T : \A u \in T : u <= t
  BY <1>2, <1>3, GreatestExists
<1>5. PICK p \in E : t = input[p].at
  BY <1>4
<1>6. QED
  BY <1>4, <1>5 DEF Preceding

-----------------------------------------------------------------------------

LEMMA InOrderMonotone ==
  ASSUME IInv, NEW m \in Meter, SubmittedInOrder(m)
  PROVE  Monotone(m)
<1> DEFINE Below(r, q) == input[q].at < input[r].at /\ ~(input[q].value <= input[r].value)
           Bad == {r \in OfMeter(stored, m) : \E q \in OfMeter(stored, m) : Below(r, q)}
           T == {input[r].at : r \in Bad}
<1>1. \A r \in stored : input[r].at \in Nat /\ input[r].value \in Nat
  BY MaxTimeAssumption, MaxValueAssumption DEF IInv, TypeOK, Payload
<1>2. ASSUME Bad # {} PROVE FALSE
  <2>1. T \subseteq Nat /\ T # {}
    BY <1>1, <1>2 DEF OfMeter
  <2>2. PICK t \in T : \A u \in T : t <= u
    BY <2>1, LeastExists
  <2>3. PICK r \in Bad : t = input[r].at
    BY <2>2
  <2>4. PICK q \in OfMeter(stored, m) : Below(r, q)
    BY <2>3
  <2>5. /\ r \in stored /\ q \in stored /\ input[r].meter = m /\ input[q].meter = m
        /\ q \in seen[r] /\ seen[r] \subseteq stored
    BY <2>3, <2>4, <1>1 DEF OfMeter, SubmittedInOrder, IInv, TypeOK
  <2>6. Preceding(r, seen[r]) # {}
    BY <2>4, <2>5, PrecedingExists DEF OfMeter, IInv
  <2>7. PICK p \in Preceding(r, seen[r]) : NotBelow(r, p)
    BY <2>5, <2>6 DEF IInv, TypeOK, Compared
  <2>8. /\ p \in OfMeter(stored, m)
        /\ input[p].at < input[r].at /\ input[q].at <= input[p].at
        /\ input[r].value >= input[p].value
    BY <2>4, <2>5, <2>7 DEF Preceding, OfMeter, NotBelow
  <2>9. p # q /\ input[q].at # input[p].at
    BY <2>4, <2>5, <2>8, <1>1 DEF SubmittedInOrder, OfMeter
  <2>10. p \in stored /\ Below(p, q)
    BY <2>4, <2>5, <2>8, <2>9, <1>1 DEF OfMeter
  <2>11. input[p].at \in T
    BY <2>4, <2>8, <2>10
  <2>12. t <= input[p].at
    BY <2>2, <2>11
  <2>13. QED
    BY <2>3, <2>5, <2>8, <2>10, <2>12, <1>1
<1>3. QED
  <2>1. Bad = {}
    BY <1>2
  <2>2. QED
    BY <2>1 DEF Monotone, OfMeter

\* What comparing with one preceding reading buys: the whole series of a meter
\* never decreases, as long as its readings were submitted in order.
THEOREM InOrder == Spec => []InOrderSeriesNeverDecreases
<1>1. IInv => InOrderSeriesNeverDecreases
  BY InOrderMonotone DEF InOrderSeriesNeverDecreases
<1>2. QED
  BY <1>1, Invariance, PTL
=============================================================================
