------------------------ MODULE MeterBindingsProofs ------------------------
(***************************************************************************)
(* Proofs about MeterBindings, for every set of requests, accounts, meters *)
(* and spellings: a meter has at most one open binding, an account that    *)
(* did not change since it was read is not archived under a binding,       *)
(* snapshots are told apart by their version, no requests wait for each    *)
(* other in a circle, and bindings made with one text of the meter id are  *)
(* disjoint.                                                               *)
(*                                                                         *)
(* The argument is that of the locks: who may stand where at once (Locks), *)
(* and what a request that passed its check may still rely on when it      *)
(* commits (EndReady, BindReady, AccountFresh, ArchiveReady).              *)
(***************************************************************************)
EXTENDS MeterBindings, TLAPS

Locks ==
    /\ \A q, r \in Request :
          q # r /\ InMeterTx(q) /\ InMeterTx(r) => MeterKey(q) # MeterKey(r)
    /\ \A q, r \in Request : \A a \in Account :
          HoldsAccount(q, a) /\ HoldsAccount(r, a) => q = r
    /\ \A q, r \in Request : Pending(q) => ~HoldsAccount(r, ask[q].account)
    /\ \A q, r \in Request :
          Pending(q) /\ Pending(r) /\ ask[q].meter = ask[r].meter => q = r

Rows ==
    /\ \A b \in bindings : pc[b] = "done"
    /\ \A r \in Request \ bindings : validTo[r] = Open
    /\ \A r \in Kind("end") : pc[r] \in {"lock", "check", "commit"} => ask[r].binding \in bindings
    /\ \A r \in Request : pc[r] = "insert" => ask[r].kind = "bind"

EndReady ==
    \A r \in Kind("end") : pc[r] = "commit" =>
        validTo[ask[r].binding] = Open /\ ask[r].to >= ask[ask[r].binding].from

BindReady ==
    \A r \in Request : Pending(r) => \A b \in OfMeter(ask[r].meter) : validTo[b] # Open

InFlight == {"lock", "check", "insert", "commit"}

AccountFresh ==
    \A r \in Kind("bind") : pc[r] \in InFlight =>
        /\ readAt[r] <= version[ask[r].account]
        /\ readAt[r] = version[ask[r].account] => ask[r].account \notin archived

BoundTo(a) == {b \in bindings : ask[b].account = a}

ArchiveReady ==
    \A r \in Kind("update") : pc[r] = "commit" /\ ask[r].change = "archive" =>
        \A b \in BoundTo(ask[r].account) : ~InEffect(b)

IInv ==
    /\ TypeOK
    /\ Locks
    /\ Rows
    /\ EndReady
    /\ BindReady
    /\ AccountFresh
    /\ ArchiveReady
    /\ OneOpenBinding
    /\ ArchiveRespectsBindings

-----------------------------------------------------------------------------

\* The fields of a request, by its kind.
LEMMA AskFields ==
    ASSUME TypeOK, NEW r \in Request
    PROVE  /\ ask[r].kind \in {"bind", "end", "update"}
           /\ ask[r].kind = "bind" => ask[r].account \in Account /\ ask[r].meter \in Meter
                                      /\ ask[r].spelling \in Spelling /\ ask[r].from \in Day
           /\ ask[r].kind = "end" => ask[r].binding \in Request /\ ask[r].to \in Day
           /\ ask[r].kind = "update" => ask[r].account \in Account
                                        /\ ask[r].change \in {"archive", "unarchive", "relabel"}
BY DEF TypeOK, Ask

LEMMA InitIInv == Init => IInv
<1>1. SUFFICES ASSUME Init PROVE IInv
  OBVIOUS
<1>2. TypeOK
  BY <1>1, MaxDayAssumption DEF Init, TypeOK, Day, Open
<1>3. \A r \in Request : pc[r] = "new"
  BY <1>1 DEF Init
<1>4. Locks
  BY <1>3 DEF Locks, InMeterTx, HoldsAccount, Pending
<1>5. Rows /\ EndReady /\ BindReady /\ AccountFresh /\ ArchiveReady
  BY <1>1, <1>3 DEF Init, Rows, EndReady, BindReady, AccountFresh, ArchiveReady, Pending,
     Kind, InFlight
<1>6. OneOpenBinding /\ ArchiveRespectsBindings
  BY <1>1 DEF Init, OneOpenBinding, ArchiveRespectsBindings
<1>7. QED
  BY <1>2, <1>4, <1>5, <1>6 DEF IInv

\* A step that only moves r to label l preserves the invariant if it takes
\* the locks it needs and has checked what it will rely on.
LEMMA MoveStep ==
    ASSUME IInv, NEW r \in Request, pc[r] # "done",
           NEW l \in {"lock", "check", "insert", "commit", "done", "refused"},
           Goto(r, l), UNCHANGED <<ask, today, rowVars>>,
           ask[r].kind \in {"bind", "end"} /\ l \in {"check", "insert", "commit"} =>
               InMeterTx(r) \/ MeterFree(r),
           ask[r].kind = "update" /\ l \in {"check", "commit"} =>
               \/ HoldsAccount(r, ask[r].account)
               \/ \A q \in Request \ {r} :
                     /\ ~HoldsAccount(q, ask[r].account)
                     /\ Pending(q) => ask[q].account # ask[r].account,
           ask[r].kind = "bind" /\ l = "commit" =>
               /\ \A q \in Request \ {r} : Pending(q) => ask[q].meter # ask[r].meter
               /\ \A q \in Request : ~HoldsAccount(q, ask[r].account)
               /\ \A b \in OfMeter(ask[r].meter) : validTo[b] # Open,
           l = "insert" => ask[r].kind = "bind",
           ask[r].kind = "bind" /\ l \in InFlight => pc[r] \in InFlight,
           ask[r].kind = "end" /\ l \in {"lock", "check", "commit"} =>
               ask[r].binding \in bindings,
           ask[r].kind = "end" /\ l = "commit" =>
               validTo[ask[r].binding] = Open /\ ask[r].to >= ask[ask[r].binding].from,
           ask[r].kind = "update" /\ ask[r].change = "archive" /\ l = "commit" =>
               \A b \in BoundTo(ask[r].account) : ~InEffect(b)
    PROVE  IInv'
<1>1. /\ pc \in [Request -> {"new", "lock", "check", "insert", "commit", "done", "refused"}]
      /\ pc' = [pc EXCEPT ![r] = l]
      /\ pc'[r] = l /\ \A q \in Request \ {r} : pc'[q] = pc[q]
  BY DEF IInv, TypeOK, Goto
<1>2. /\ ask' = ask /\ today' = today /\ bindings' = bindings /\ validTo' = validTo
      /\ archived' = archived /\ version' = version /\ bversion' = bversion
      /\ events' = events /\ readAt' = readAt /\ boundAt' = boundAt
  BY DEF rowVars
<1>3. TypeOK'
  BY <1>1, <1>2 DEF IInv, TypeOK, Kind, Ask, Event
<1>4. Locks'
  <2>1. \A q \in Request : /\ MeterKey(q)' = MeterKey(q)
                           /\ q # r => (InMeterTx(q)' <=> InMeterTx(q))
    BY <1>1, <1>2 DEF MeterKey, InMeterTx
  <2>2. \A p, q \in Request :
          p # q /\ InMeterTx(p)' /\ InMeterTx(q)' => MeterKey(p)' # MeterKey(q)'
    BY <1>1, <1>2, <2>1 DEF IInv, Locks, MeterFree, InMeterTx
  <2>3. \A p, q \in Request : \A a \in Account :
          HoldsAccount(p, a)' /\ HoldsAccount(q, a)' => p = q
    BY <1>1, <1>2 DEF IInv, Locks, HoldsAccount
  <2>4. \A p, q \in Request : Pending(p)' => ~HoldsAccount(q, ask[p].account)'
    BY <1>1, <1>2 DEF IInv, Locks, HoldsAccount, Pending
  <2>5. \A p, q \in Request :
          Pending(p)' /\ Pending(q)' /\ ask[p].meter = ask[q].meter => p = q
    BY <1>1, <1>2 DEF IInv, Locks, Pending
  <2>6. QED
    BY <1>2, <2>2, <2>3, <2>4, <2>5 DEF Locks
<1>5. Rows'
  BY <1>1, <1>2 DEF IInv, Rows, Kind
<1>6. EndReady' /\ AccountFresh'
  BY <1>1, <1>2 DEF IInv, EndReady, AccountFresh, Kind
<1>7. BindReady'
  BY <1>1, <1>2 DEF IInv, BindReady, Pending, OfMeter
<1>8. ArchiveReady'
  BY <1>1, <1>2 DEF IInv, ArchiveReady, BoundTo, InEffect, Kind
<1>9. OneOpenBinding' /\ ArchiveRespectsBindings'
  BY <1>2 DEF IInv, OneOpenBinding, ArchiveRespectsBindings, InEffect
<1>10. QED
  BY <1>3, <1>4, <1>5, <1>6, <1>7, <1>8, <1>9 DEF IInv

\* The steps that only move: waiting for a lock, reading and checking.
LEMMA LockMeterStep == ASSUME IInv, NEW r \in Request, LockMeter(r) PROVE IInv'
<1>1. /\ pc[r] = "lock" /\ ask[r].kind \in {"bind", "end"} /\ MeterFree(r)
      /\ Goto(r, "check") /\ UNCHANGED <<ask, today, rowVars>>
  BY DEF LockMeter
<1>2. ask[r].kind = "end" => ask[r].binding \in bindings
  BY <1>1 DEF IInv, Rows, Kind
<1>3. QED
  BY <1>1, <1>2, MoveStep DEF InFlight

LEMMA CheckOverlapStep == ASSUME IInv, NEW r \in Request, CheckOverlap(r) PROVE IInv'
<1>1. PICK l \in {"refused", "insert"} : Goto(r, l)
  BY DEF CheckOverlap
<1>2. /\ pc[r] = "check" /\ ask[r].kind = "bind" /\ UNCHANGED <<ask, today, rowVars>>
  BY DEF CheckOverlap
<1>3. QED
  BY <1>1, <1>2, MoveStep DEF InMeterTx, InFlight

LEMMA InsertBindingStep == ASSUME IInv, NEW r \in Request, InsertBinding(r) PROVE IInv'
<1>1. /\ pc[r] = "insert" /\ ask[r].kind = "bind" /\ UNCHANGED <<ask, today, rowVars>>
      /\ \A q \in Request \ {r} : Pending(q) => ask[q].meter # ask[r].meter
      /\ \A q \in Request : ~HoldsAccount(q, ask[r].account)
  BY DEF InsertBinding, IInv, Rows
<1>2. CASE \E b \in OfMeter(ask[r].meter) : validTo[b] = Open
  <2>1. Goto(r, "refused")
    BY <1>2 DEF InsertBinding
  <2>2. QED
    BY <1>1, <2>1, MoveStep DEF InFlight
<1>3. CASE \A b \in OfMeter(ask[r].meter) : validTo[b] # Open
  <2>1. Goto(r, "commit")
    BY <1>3 DEF InsertBinding
  <2>2. QED
    BY <1>1, <1>3, <2>1, MoveStep DEF InMeterTx, InFlight
<1>4. QED
  BY <1>2, <1>3

LEMMA FindBindingStep == ASSUME IInv, NEW r \in Request, FindBinding(r) PROVE IInv'
<1>1. /\ pc[r] = "new" /\ ask[r].kind = "end" /\ ask[r].binding \in bindings
      /\ Goto(r, "lock") /\ UNCHANGED <<ask, today, rowVars>>
  BY DEF FindBinding
<1>2. QED
  BY <1>1, MoveStep

LEMMA CheckEndStep == ASSUME IInv, NEW r \in Request, CheckEnd(r) PROVE IInv'
<1>1. /\ pc[r] = "check" /\ ask[r].kind = "end" /\ UNCHANGED <<ask, today, rowVars>>
  BY DEF CheckEnd
<1>2. ask[r].binding \in bindings /\ InMeterTx(r)
  BY <1>1 DEF IInv, Rows, Kind, InMeterTx
<1>3. CASE validTo[ask[r].binding] # Open \/ ask[r].to < ask[ask[r].binding].from
  <2>1. Goto(r, "refused")
    BY <1>3 DEF CheckEnd
  <2>2. QED
    BY <1>1, <1>2, <2>1, MoveStep
<1>4. CASE ~(validTo[ask[r].binding] # Open \/ ask[r].to < ask[ask[r].binding].from)
  <2>1. Goto(r, "commit")
    BY <1>4 DEF CheckEnd
  <2>2. ask[ask[r].binding].kind = "bind"
    BY <1>2 DEF IInv, TypeOK, Kind
  <2>3. ask[r].to \in Nat /\ ask[ask[r].binding].from \in Nat
    BY <1>1, <1>2, <2>2, AskFields, MaxDayAssumption DEF IInv, TypeOK, Kind, Day
  <2>4. QED
    BY <1>1, <1>2, <1>4, <2>1, <2>3, MoveStep
<1>5. QED
  BY <1>3, <1>4

LEMMA FindAccountStep == ASSUME IInv, NEW r \in Request, FindAccount(r) PROVE IInv'
<1>1. /\ pc[r] = "new" /\ ask[r].kind = "update"
      /\ Goto(r, "lock") /\ UNCHANGED <<ask, today, rowVars>>
  BY DEF FindAccount
<1>2. QED
  BY <1>1, MoveStep

LEMMA LockAccountStep == ASSUME IInv, NEW r \in Request, LockAccount(r) PROVE IInv'
<1>1. /\ pc[r] = "lock" /\ ask[r].kind = "update"
      /\ \A q \in Request \ {r} :
            /\ ~HoldsAccount(q, ask[r].account)
            /\ Pending(q) => ask[q].account # ask[r].account
      /\ Goto(r, "check") /\ UNCHANGED <<ask, today, rowVars>>
  BY DEF LockAccount
<1>2. QED
  BY <1>1, MoveStep

\* Archiving goes on only if no binding of the account is in effect, and
\* whoever holds the account's row keeps it that way.
LEMMA CheckAccountStep == ASSUME IInv, NEW r \in Request, CheckAccount(r) PROVE IInv'
<1>1. /\ pc[r] = "check" /\ ask[r].kind = "update" /\ UNCHANGED <<ask, today, rowVars>>
      /\ HoldsAccount(r, ask[r].account)
  BY DEF CheckAccount, HoldsAccount
<1>2. PICK l \in {"refused", "done", "commit"} : Goto(r, l)
  BY DEF CheckAccount
<1>3. pc'[r] = l
  BY <1>2 DEF IInv, TypeOK, Goto
<1>4. CASE l = "commit"
  <2>1. Goto(r, "commit")
    BY <1>2, <1>4
  <2>2. ask[r].change = "archive" => \A b \in BoundTo(ask[r].account) : ~InEffect(b)
    <3>1. ~(Archiving(r) /\ \E b \in bindings : ask[b].account = ask[r].account /\ InEffect(b))
      BY <1>3, <1>4 DEF CheckAccount, IInv, TypeOK, Goto
    <3>2. ~NoChange(r)
      BY <1>3, <1>4, <3>1 DEF CheckAccount, IInv, TypeOK, Goto
    <3>3. QED
      BY <3>1, <3>2 DEF Archiving, NoChange, BoundTo
  <2>3. QED
    BY <1>1, <2>1, <2>2, MoveStep
<1>5. CASE l # "commit"
  BY <1>1, <1>2, <1>5, MoveStep
<1>6. QED
  BY <1>4, <1>5

LEMMA RefuseStep == ASSUME IInv, NEW r \in Request, Refuse(r) PROVE IInv'
<1>1. pc[r] # "done" /\ Goto(r, "refused") /\ UNCHANGED <<ask, today, rowVars>>
  BY DEF Refuse
<1>2. QED
  BY <1>1, MoveStep DEF InFlight

\* The steps that write. Reading the account records its version.
LEMMA ReadAccountStep == ASSUME IInv, NEW r \in Request, ReadAccount(r) PROVE IInv'
<1>1. /\ pc[r] = "new" /\ ask[r].kind = "bind" /\ ask[r].account \notin archived
      /\ readAt' = [readAt EXCEPT ![r] = version[ask[r].account]]
      /\ pc' = [pc EXCEPT ![r] = "lock"]
      /\ UNCHANGED <<ask, bindings, validTo, archived, version, bversion, today, events, boundAt>>
  BY DEF ReadAccount, Goto
<1>2. /\ pc'[r] = "lock" /\ \A q \in Request \ {r} : pc'[q] = pc[q]
      /\ \A q \in Request \ {r} : readAt'[q] = readAt[q]
      /\ ask[r].account \in Account /\ version[ask[r].account] \in Nat
      /\ readAt'[r] = version[ask[r].account] /\ r \notin bindings
  BY <1>1, AskFields DEF IInv, TypeOK, Rows
<1>3. TypeOK'
  BY <1>1, <1>2 DEF IInv, TypeOK, Kind
<1>4. Locks'
  <2>1. \A q \in Request : /\ MeterKey(q)' = MeterKey(q)
                           /\ InMeterTx(q)' <=> InMeterTx(q)
                           /\ Pending(q)' <=> Pending(q)
                           /\ \A a \in Account : HoldsAccount(q, a)' <=> HoldsAccount(q, a)
    BY <1>1, <1>2 DEF MeterKey, InMeterTx, Pending, HoldsAccount
  <2>2. \A q \in Request : Pending(q) => ask[q].account \in Account
    BY AskFields DEF IInv, Pending
  <2>3. QED
    BY <1>1, <2>1, <2>2 DEF IInv, Locks
<1>5. Rows' /\ EndReady' /\ BindReady' /\ ArchiveReady'
  BY <1>1, <1>2 DEF IInv, Rows, EndReady, BindReady, ArchiveReady, Kind, Pending, OfMeter,
     BoundTo, InEffect
<1>6. AccountFresh'
  BY <1>1, <1>2 DEF IInv, AccountFresh, Kind
<1>7. OneOpenBinding' /\ ArchiveRespectsBindings'
  BY <1>1, <1>2 DEF IInv, TypeOK, Kind, OneOpenBinding, ArchiveRespectsBindings, InEffect
<1>8. QED
  BY <1>3, <1>4, <1>5, <1>6, <1>7 DEF IInv

\* A binding becomes visible: none of its meter is open, and nobody holds its
\* account's row.
LEMMA CommitBindingStep == ASSUME IInv, NEW r \in Request, CommitBinding(r) PROVE IInv'
<1>1. /\ pc[r] = "commit" /\ ask[r].kind = "bind" /\ Pending(r)
      /\ bindings' = bindings \cup {r}
      /\ events' = events \cup {[by |-> r, of |-> r, version |-> bversion[r]]}
      /\ boundAt' = [boundAt EXCEPT ![r] = version[ask[r].account]]
      /\ pc' = [pc EXCEPT ![r] = "done"]
      /\ UNCHANGED <<ask, validTo, archived, version, bversion, today, readAt>>
  BY DEF CommitBinding, Pending, Goto
<1>2. /\ pc'[r] = "done" /\ \A q \in Request \ {r} : pc'[q] = pc[q]
      /\ \A q \in Request \ {r} : boundAt'[q] = boundAt[q]
      /\ ask[r].account \in Account /\ version[ask[r].account] \in Nat
      /\ boundAt'[r] = version[ask[r].account]
      /\ r \notin bindings /\ validTo[r] = Open /\ r \in Kind("bind")
  BY <1>1, AskFields DEF IInv, TypeOK, Rows, Kind
<1>3. TypeOK'
  <2>1. [by |-> r, of |-> r, version |-> bversion[r]] \in Event
    BY DEF IInv, TypeOK, Event
  <2>2. QED
    BY <1>1, <1>2, <2>1 DEF IInv, TypeOK, Kind
<1>4. Locks'
  <2>1. \A q \in Request : /\ MeterKey(q)' = MeterKey(q)
                           /\ InMeterTx(q)' => InMeterTx(q)
                           /\ Pending(q)' => Pending(q)
                           /\ \A a \in Account : HoldsAccount(q, a)' <=> HoldsAccount(q, a)
    BY <1>1, <1>2 DEF MeterKey, InMeterTx, Pending, HoldsAccount
  <2>2. \A q \in Request : Pending(q) => ask[q].account \in Account
    BY AskFields DEF IInv, Pending
  <2>3. QED
    BY <1>1, <2>1, <2>2 DEF IInv, Locks
<1>5. Rows' /\ EndReady'
  BY <1>1, <1>2 DEF IInv, Rows, EndReady, Kind
<1>6. BindReady'
  BY <1>1, <1>2 DEF IInv, BindReady, Locks, Pending, OfMeter
<1>7. AccountFresh'
  BY <1>1, <1>2 DEF IInv, AccountFresh, InFlight, Kind
<1>8. ArchiveReady'
  BY <1>1, <1>2 DEF IInv, ArchiveReady, Locks, HoldsAccount, BoundTo, InEffect, Kind
<1>9. OneOpenBinding'
  BY <1>1, <1>2 DEF IInv, TypeOK, Kind, OneOpenBinding, BindReady, OfMeter
<1>10. ArchiveRespectsBindings'
  BY <1>1, <1>2 DEF IInv, TypeOK, Kind, ArchiveRespectsBindings, AccountFresh, InFlight, InEffect
<1>11. QED
  BY <1>3, <1>4, <1>5, <1>6, <1>7, <1>8, <1>9, <1>10 DEF IInv

\* A binding ends. It was open, so it was in effect before.
LEMMA CommitEndStep == ASSUME IInv, NEW r \in Request, CommitEnd(r) PROVE IInv'
<1> DEFINE b == ask[r].binding
<1>1. /\ pc[r] = "commit" /\ ask[r].kind = "end"
      /\ validTo' = [validTo EXCEPT ![b] = ask[r].to]
      /\ bversion' = [bversion EXCEPT ![b] = @ + 1]
      /\ events' = events \cup {[by |-> r, of |-> b, version |-> bversion'[b]]}
      /\ pc' = [pc EXCEPT ![r] = "done"]
      /\ UNCHANGED <<ask, bindings, archived, version, today, readAt, boundAt>>
  BY DEF CommitEnd, Goto
<1>2. /\ b \in bindings /\ b \in Request /\ validTo[b] = Open /\ ask[r].to >= ask[b].from
      /\ ask[r].to \in Day
  BY <1>1, AskFields DEF IInv, TypeOK, Rows, EndReady, Kind
<1>3. /\ pc'[r] = "done" /\ \A q \in Request \ {r} : pc'[q] = pc[q]
      /\ validTo'[b] = ask[r].to /\ \A q \in Request \ {b} : validTo'[q] = validTo[q]
      /\ ask[r].to # Open /\ r \notin bindings
  BY <1>1, <1>2, MaxDayAssumption DEF IInv, TypeOK, Rows, Day, Open
<1>4. /\ bversion' \in [Request -> Nat] /\ validTo' \in [Request -> Day \cup {Open}]
      /\ bindings \subseteq Request
  BY <1>1, <1>2 DEF IInv, TypeOK, Kind
<1> HIDE DEF b
<1>5. TypeOK'
  <2>1. [by |-> r, of |-> b, version |-> bversion'[b]] \in Event
    BY <1>2, <1>4 DEF Event
  <2>2. \A c \in bindings : validTo'[c] = Open \/ validTo'[c] >= ask[c].from
    BY <1>2, <1>3, <1>4 DEF IInv, TypeOK
  <2>3. QED
    BY <1>1, <1>4, <2>1, <2>2 DEF IInv, TypeOK, Kind, Event
<1>6. Locks'
  <2>1. \A q \in Request : /\ MeterKey(q)' = MeterKey(q)
                           /\ InMeterTx(q)' => InMeterTx(q)
                           /\ Pending(q)' <=> Pending(q)
                           /\ \A a \in Account : HoldsAccount(q, a)' <=> HoldsAccount(q, a)
    BY <1>1, <1>3 DEF MeterKey, InMeterTx, Pending, HoldsAccount
  <2>2. \A q \in Request : Pending(q) => ask[q].account \in Account
    BY AskFields DEF IInv, Pending
  <2>3. QED
    BY <1>1, <2>1, <2>2 DEF IInv, Locks
<1>7. Rows'
  BY <1>1, <1>2, <1>3 DEF IInv, Rows, Kind
<1>8. EndReady'
  <2>1. SUFFICES ASSUME NEW q \in Kind("end"), pc'[q] = "commit"
                 PROVE  validTo'[ask[q].binding] = Open /\ ask[q].to >= ask[ask[q].binding].from
    BY <1>1 DEF EndReady, Kind
  <2>2. q # r /\ pc[q] = "commit" /\ q \in Request
    BY <1>3, <2>1 DEF Kind
  <2>3. InMeterTx(q) /\ InMeterTx(r) /\ MeterKey(q) # MeterKey(r)
    BY <1>1, <2>1, <2>2 DEF IInv, Locks, InMeterTx, Kind
  <2>4. ask[q].binding # b
    BY <1>1, <2>1, <2>3 DEF MeterKey, Kind, b
  <2>5. ask[q].binding \in Request
    BY <2>1, AskFields DEF IInv, Kind
  <2>6. QED
    BY <1>3, <2>1, <2>2, <2>4, <2>5 DEF IInv, EndReady
<1>9. BindReady'
  BY <1>1, <1>2, <1>3, <1>4 DEF IInv, BindReady, Pending, OfMeter
<1>10. AccountFresh'
  BY <1>1, <1>3 DEF IInv, AccountFresh, InFlight, Kind
<1>11. ArchiveReady'
  BY <1>1, <1>2, <1>3, <1>4 DEF IInv, ArchiveReady, BoundTo, InEffect, Kind
<1>12. OneOpenBinding'
  BY <1>1, <1>3, <1>4 DEF IInv, OneOpenBinding
<1>13. ArchiveRespectsBindings'
  BY <1>1, <1>2, <1>3, <1>4 DEF IInv, ArchiveRespectsBindings, InEffect
<1>14. QED
  BY <1>5, <1>6, <1>7, <1>8, <1>9, <1>10, <1>11, <1>12, <1>13 DEF IInv

\* An account changes under its row lock.
LEMMA CommitAccountStep == ASSUME IInv, NEW r \in Request, CommitAccount(r) PROVE IInv'
<1> DEFINE a == ask[r].account
<1>1. /\ pc[r] = "commit" /\ ask[r].kind = "update" /\ a \in Account
      /\ ask[r].change \in {"archive", "unarchive", "relabel"}
  BY AskFields DEF CommitAccount, IInv
<1>2. /\ archived' \subseteq archived \cup {a}
      /\ ask[r].change # "archive" => archived' \subseteq archived
      /\ archived' \ {a} = archived \ {a}
  BY <1>1 DEF CommitAccount
<1>3. /\ version' = [version EXCEPT ![a] = @ + 1]
      /\ events' = events \cup {[by |-> r, of |-> a, version |-> version'[a]]}
      /\ pc' = [pc EXCEPT ![r] = "done"]
      /\ UNCHANGED <<ask, bindings, validTo, bversion, today, readAt, boundAt>>
  BY DEF CommitAccount, Goto
<1>4. /\ pc'[r] = "done" /\ \A q \in Request \ {r} : pc'[q] = pc[q]
      /\ version[a] \in Nat /\ version'[a] = version[a] + 1
      /\ \A c \in Account \ {a} : version'[c] = version[c]
      /\ version' \in [Account -> Nat]
      /\ r \notin bindings
  BY <1>1, <1>3 DEF IInv, TypeOK, Rows
<1>5. \A q \in Kind("bind") : ask[q].account \in Account /\ readAt[q] \in Nat
  BY AskFields DEF IInv, TypeOK, Kind
<1> HIDE DEF a
<1>6. TypeOK'
  <2>1. [by |-> r, of |-> a, version |-> version'[a]] \in Event
    BY <1>1, <1>4 DEF Event
  <2>2. archived' \subseteq Account
    BY <1>1, <1>2 DEF IInv, TypeOK
  <2>3. QED
    BY <1>3, <1>4, <2>1, <2>2 DEF IInv, TypeOK, Kind, Event
<1>7. Locks'
  <2>1. \A q \in Request : /\ MeterKey(q)' = MeterKey(q)
                           /\ InMeterTx(q)' <=> InMeterTx(q)
                           /\ Pending(q)' <=> Pending(q)
                           /\ \A c \in Account : HoldsAccount(q, c)' => HoldsAccount(q, c)
    BY <1>1, <1>3, <1>4 DEF MeterKey, InMeterTx, Pending, HoldsAccount
  <2>2. \A q \in Request : Pending(q) => ask[q].account \in Account
    BY AskFields DEF IInv, Pending
  <2>3. QED
    BY <1>3, <2>1, <2>2 DEF IInv, Locks
<1>8. Rows' /\ EndReady' /\ BindReady'
  BY <1>1, <1>3, <1>4 DEF IInv, Rows, EndReady, BindReady, Kind, Pending, OfMeter
<1>9. AccountFresh'
  <2>1. SUFFICES ASSUME NEW q \in Kind("bind"), pc'[q] \in InFlight
                 PROVE  /\ readAt[q] <= version'[ask[q].account]
                        /\ readAt[q] = version'[ask[q].account] => ask[q].account \notin archived'
    BY <1>3 DEF AccountFresh, Kind
  <2>2. /\ readAt[q] <= version[ask[q].account]
        /\ readAt[q] = version[ask[q].account] => ask[q].account \notin archived
    BY <1>1, <1>4, <2>1 DEF IInv, AccountFresh, Kind
  <2>3. CASE ask[q].account = a
    BY <1>4, <1>5, <2>2, <2>3
  <2>4. CASE ask[q].account # a
    BY <1>2, <1>4, <1>5, <2>2, <2>4
  <2>5. QED
    BY <2>3, <2>4
<1>10. ArchiveReady'
  BY <1>3, <1>4 DEF IInv, ArchiveReady, BoundTo, InEffect, Kind
<1>11. OneOpenBinding'
  BY <1>3 DEF IInv, OneOpenBinding
<1>12. ArchiveRespectsBindings'
  <2>1. CASE ask[r].change = "archive"
    <3>1. \A b \in bindings : ask[b].account = a => ~InEffect(b)
      BY <1>1, <2>1 DEF IInv, ArchiveReady, BoundTo, Kind, a
    <3>2. QED
      BY <1>2, <1>3, <3>1 DEF IInv, ArchiveRespectsBindings, InEffect
  <2>2. CASE ask[r].change # "archive"
    BY <1>2, <1>3, <2>2 DEF IInv, ArchiveRespectsBindings, InEffect
  <2>3. QED
    BY <2>1, <2>2
<1>13. QED
  BY <1>6, <1>7, <1>8, <1>9, <1>10, <1>11, <1>12 DEF IInv

\* Time only takes bindings out of effect.
LEMMA DayPassesStep == ASSUME IInv, DayPasses PROVE IInv'
<1>1. /\ today \in Day /\ today < MaxDay /\ today' = today + 1 /\ pc' = pc /\ ask' = ask
      /\ UNCHANGED <<bindings, validTo, archived, version, bversion, events, readAt, boundAt>>
  BY DEF DayPasses, rowVars, IInv, TypeOK
<1>2. \A b \in bindings : InEffect(b)' => InEffect(b)
  <2>1. \A b \in bindings : validTo[b] \in Day \cup {Open}
    BY DEF IInv, TypeOK, Kind
  <2>2. QED
    BY <1>1, <2>1, MaxDayAssumption DEF InEffect, Day, Open
<1>3. TypeOK'
  BY <1>1, MaxDayAssumption DEF IInv, TypeOK, Kind, Day
<1>4. Locks' /\ Rows' /\ EndReady' /\ BindReady' /\ AccountFresh' /\ OneOpenBinding'
  BY <1>1 DEF IInv, Locks, InMeterTx, MeterKey, HoldsAccount, Pending, Rows, EndReady,
     BindReady, OfMeter, AccountFresh, Kind, OneOpenBinding
<1>5. ArchiveReady' /\ ArchiveRespectsBindings'
  BY <1>1, <1>2 DEF IInv, ArchiveReady, BoundTo, Kind, ArchiveRespectsBindings
<1>6. QED
  BY <1>3, <1>4, <1>5 DEF IInv

LEMMA NextIInv == IInv /\ [Next]_vars => IInv'
<1>1. SUFFICES ASSUME IInv, [Next]_vars PROVE IInv'
  OBVIOUS
<1>2. CASE DayPasses
  BY <1>1, <1>2, DayPassesStep
<1>3. ASSUME NEW r \in Request, Step(r) PROVE IInv'
  <2>1. CASE Bind(r)
    BY <1>1, <2>1, ReadAccountStep, CheckOverlapStep, InsertBindingStep, CommitBindingStep
    DEF Bind
  <2>2. CASE End(r)
    BY <1>1, <2>2, FindBindingStep, CheckEndStep, CommitEndStep DEF End
  <2>3. CASE Update(r)
    BY <1>1, <2>3, FindAccountStep, LockAccountStep, CheckAccountStep, CommitAccountStep
    DEF Update
  <2>4. CASE LockMeter(r)
    BY <1>1, <2>4, LockMeterStep
  <2>5. QED
    BY <1>3, <2>1, <2>2, <2>3, <2>4 DEF Step
<1>4. ASSUME NEW r \in Request, Refuse(r) PROVE IInv'
  BY <1>1, <1>4, RefuseStep
<1>5. CASE UNCHANGED vars
  BY <1>1, <1>5
  DEF vars, IInv, TypeOK, Kind, Locks, InMeterTx, MeterKey, HoldsAccount, Pending, Rows,
      EndReady, BindReady, OfMeter, AccountFresh, ArchiveReady, BoundTo, InEffect,
      OneOpenBinding, ArchiveRespectsBindings
<1>6. QED
  BY <1>1, <1>2, <1>3, <1>4, <1>5 DEF Next

\* Every reachable state of bindings and accounts satisfies the inductive
\* invariant.
THEOREM Invariance == Spec => []IInv
  BY InitIInv, NextIInv, PTL DEF Spec

\* Requests, rows and snapshots keep the shapes the tables and the handlers
\* give them.
THEOREM TypeCorrect == Spec => []TypeOK
<1>1. IInv => TypeOK
  BY DEF IInv
<1>2. QED
  BY <1>1, Invariance, PTL

\* The unique index alone keeps a meter at one open binding, whatever texts
\* the advisory lock was taken on and however requests interleave.
THEOREM OneOpen == Spec => []OneOpenBinding
<1>1. IInv => OneOpenBinding
  BY DEF IInv
<1>2. QED
  BY <1>1, Invariance, PTL

\* The row lock and the foreign key keep an account that did not change since
\* a bind request read it from being archived under the new binding.
THEOREM ArchiveRespects == Spec => []ArchiveRespectsBindings
<1>1. IInv => ArchiveRespectsBindings
  BY DEF IInv
<1>2. QED
  BY <1>1, Invariance, PTL

-----------------------------------------------------------------------------
(* Disjointness.  For one text of the meter id the advisory lock excludes    *)
(* other transactions, so what the overlap check saw of the bindings made    *)
(* with this text stays true until the new one commits.                      *)

SameText(q, r) == ask[q].meter = ask[r].meter /\ ask[q].spelling = ask[r].spelling

BehindAll ==
    \A r \in Kind("bind") : pc[r] \in {"insert", "commit"} =>
        \A b \in bindings : SameText(b, r) => Before(b, r)

LEMMA OneTxPerText ==
  ASSUME IInv, NEW q \in Kind("bind"), NEW r \in Kind("bind"), InMeterTx(q), InMeterTx(r),
         SameText(q, r)
  PROVE  q = r
<1>1. MeterKey(q) = MeterKey(r)
  BY DEF MeterKey, Kind, SameText
<1>2. QED
  BY <1>1 DEF IInv, Locks, Kind

LEMMA NextDisjoint ==
  ASSUME IInv, BehindAll, SameTextDisjoint, [Next]_vars
  PROVE  BehindAll' /\ SameTextDisjoint'
<1>1. CASE /\ UNCHANGED <<ask, bindings, validTo>>
           /\ \A r \in Kind("bind") : pc'[r] \in {"insert", "commit"} =>
                 pc[r] \in {"insert", "commit"}
  BY <1>1 DEF BehindAll, SameTextDisjoint, SameText, Kind, Before
<1>2. ASSUME NEW r \in Request, CheckOverlap(r) PROVE BehindAll' /\ SameTextDisjoint'
  <2>1. BehindAll'
    BY <1>2, MaxDayAssumption
    DEF CheckOverlap, OverlapsOpenEndedFrom, Goto, rowVars, BehindAll, SameText, Kind, OfMeter, Before,
        IInv, TypeOK, Ask, Day, Open
  <2>2. SameTextDisjoint'
    BY <1>2 DEF CheckOverlap, rowVars, SameTextDisjoint, Before
  <2>3. QED
    BY <2>1, <2>2
<1>3. ASSUME NEW r \in Request, CommitBinding(r) PROVE BehindAll' /\ SameTextDisjoint'
  <2>1. r \in Kind("bind") /\ InMeterTx(r) /\ pc[r] = "commit"
    BY <1>3 DEF CommitBinding, Pending, Kind, InMeterTx
  <2>2. \A b \in bindings : SameText(b, r) => Before(b, r)
    BY <2>1 DEF BehindAll
  <2>3. SameTextDisjoint'
    BY <1>3, <2>2 DEF CommitBinding, SameTextDisjoint, SameText, Before
  <2>4. ASSUME NEW q \in Kind("bind"), pc'[q] \in {"insert", "commit"}
        PROVE  ~SameText(r, q) /\ pc[q] = pc'[q]
    <3>1. q # r /\ pc[q] = pc'[q]
      BY <1>3, <2>4 DEF CommitBinding, Goto, IInv, TypeOK
    <3>2. InMeterTx(q)
      BY <2>4, <3>1 DEF InMeterTx, Kind
    <3>3. QED
      BY <2>1, <3>1, <3>2, OneTxPerText
  <2>5. BehindAll'
    BY <1>3, <2>4 DEF CommitBinding, BehindAll, SameText, Kind, Before
  <2>6. QED
    BY <2>3, <2>5
<1>4. ASSUME NEW r \in Request, CommitEnd(r) PROVE BehindAll' /\ SameTextDisjoint'
  <2>1. validTo[ask[r].binding] = Open
    BY <1>4 DEF CommitEnd, IInv, EndReady, Kind
  <2>2. \A b \in bindings : b # ask[r].binding => validTo'[b] = validTo[b]
    BY <1>4 DEF CommitEnd, IInv, TypeOK, Kind
  <2>3. \A b \in bindings : validTo[b] # Open => validTo'[b] = validTo[b]
    BY <2>1, <2>2
  <2>4. \A b \in bindings : \A c \in Request : Before(b, c) => Before(b, c)'
    BY <1>4, <2>3 DEF CommitEnd, Before
  <2>5. SameTextDisjoint'
    BY <1>4, <2>4 DEF CommitEnd, SameTextDisjoint, IInv, TypeOK, Kind
  <2>6. BehindAll'
    BY <1>4, <2>4 DEF CommitEnd, Goto, BehindAll, SameText, Kind, IInv, TypeOK
  <2>7. QED
    BY <2>5, <2>6
<1>5. QED
  <2>1. ASSUME NEW r \in Request,
               \/ ReadAccount(r) \/ FindBinding(r) \/ FindAccount(r) \/ LockMeter(r)
               \/ LockAccount(r) \/ CheckAccount(r) \/ CommitAccount(r) \/ CheckEnd(r)
               \/ InsertBinding(r) \/ Refuse(r)
        PROVE  BehindAll' /\ SameTextDisjoint'
    BY <1>1, <2>1
    DEF ReadAccount, FindBinding, FindAccount, LockMeter, LockAccount, CheckAccount, Kind,
        CommitAccount, CheckEnd, InsertBinding, Refuse, Goto, rowVars, IInv, TypeOK
  <2>2. CASE DayPasses \/ UNCHANGED vars
    BY <1>1, <2>2 DEF DayPasses, rowVars, vars
  <2>3. QED
    BY <1>2, <1>3, <1>4, <2>1, <2>2 DEF Next, Step, Bind, End, Update

\* However a meter id is written, the bindings made with one text of it are
\* disjoint.
THEOREM TextsDisjoint == Spec => []SameTextDisjoint
<1>1. Init => BehindAll /\ SameTextDisjoint
  BY DEF Init, BehindAll, SameTextDisjoint, Kind
<1>2. IInv /\ BehindAll /\ SameTextDisjoint /\ [Next]_vars => BehindAll' /\ SameTextDisjoint'
  BY NextDisjoint
<1>3. QED
  BY <1>1, <1>2, Invariance, PTL DEF Spec

-----------------------------------------------------------------------------
(* Versions.                                                                *)

\* No snapshot is ahead of its row.
NoneAhead ==
    \A x \in events :
        /\ x.of \in Account => x.version <= version[x.of]
        /\ x.of \in Request => x.of \in bindings /\ x.version <= bversion[x.of]

LEMMA NextVersions ==
  ASSUME Request \cap Account = {}, IInv, NoneAhead, VersionsTellSnapshotsApart, [Next]_vars
  PROVE  NoneAhead' /\ VersionsTellSnapshotsApart'
<1>1. CASE UNCHANGED <<bindings, version, bversion, events>>
  BY <1>1 DEF NoneAhead, VersionsTellSnapshotsApart
<1>2. ASSUME NEW r \in Request, CommitBinding(r) PROVE NoneAhead' /\ VersionsTellSnapshotsApart'
  <2> DEFINE e == [by |-> r, of |-> r, version |-> bversion[r]]
  <2>1. r \notin bindings
    BY <1>2 DEF CommitBinding, Pending, IInv, Rows
  <2>2. \A x \in events : x.of # r
    BY <2>1 DEF NoneAhead
  <2>3. NoneAhead'
    BY <1>2 DEF CommitBinding, NoneAhead, IInv, TypeOK
  <2>4. VersionsTellSnapshotsApart'
    <3>1. events' = events \cup {e}
      BY <1>2 DEF CommitBinding
    <3>2. QED
      BY <2>2, <3>1 DEF VersionsTellSnapshotsApart
  <2>5. QED
    BY <2>3, <2>4
<1>3. ASSUME NEW r \in Request, CommitEnd(r) PROVE NoneAhead' /\ VersionsTellSnapshotsApart'
  <2> DEFINE b == ask[r].binding
             e == [by |-> r, of |-> b, version |-> bversion[b] + 1]
  <2>1. b \in bindings /\ b \in Request
    BY <1>3 DEF CommitEnd, IInv, Rows, TypeOK, Kind
  <2>2. events' = events \cup {e} /\ bversion' = [bversion EXCEPT ![b] = @ + 1]
    BY <1>3, <2>1 DEF CommitEnd, IInv, TypeOK
  <2>3. NoneAhead'
    BY <1>3, <2>1, <2>2 DEF CommitEnd, NoneAhead, IInv, TypeOK, Event
  <2>4. VersionsTellSnapshotsApart'
    <3>1. \A x \in events : x.of = b => x.version # bversion[b] + 1
      BY <2>1 DEF NoneAhead, IInv, TypeOK, Event
    <3>2. QED
      BY <2>2, <3>1 DEF VersionsTellSnapshotsApart
  <2>5. QED
    BY <2>3, <2>4
<1>4. ASSUME NEW r \in Request, CommitAccount(r) PROVE NoneAhead' /\ VersionsTellSnapshotsApart'
  <2> DEFINE a == ask[r].account
             e == [by |-> r, of |-> a, version |-> version[a] + 1]
  <2>1. a \in Account
    BY <1>4 DEF CommitAccount, IInv, TypeOK, Ask
  <2>2. events' = events \cup {e} /\ version' = [version EXCEPT ![a] = @ + 1]
    BY <1>4, <2>1 DEF CommitAccount, IInv, TypeOK
  <2>3. NoneAhead'
    BY <1>4, <2>1, <2>2 DEF CommitAccount, NoneAhead, IInv, TypeOK, Event
  <2>4. VersionsTellSnapshotsApart'
    <3>1. \A x \in events : x.of = a => x.version # version[a] + 1
      BY <2>1 DEF NoneAhead, IInv, TypeOK, Event
    <3>2. QED
      BY <2>2, <3>1 DEF VersionsTellSnapshotsApart
  <2>5. QED
    BY <2>3, <2>4
<1>5. QED
  <2>1. ASSUME NEW r \in Request,
               \/ ReadAccount(r) \/ CheckOverlap(r) \/ InsertBinding(r) \/ FindBinding(r)
               \/ CheckEnd(r) \/ FindAccount(r) \/ LockAccount(r) \/ CheckAccount(r)
               \/ LockMeter(r) \/ Refuse(r)
        PROVE  UNCHANGED <<bindings, version, bversion, events>>
    BY <2>1 DEF ReadAccount, CheckOverlap, InsertBinding, FindBinding, CheckEnd, FindAccount,
       LockAccount, CheckAccount, LockMeter, Refuse, rowVars
  <2>2. CASE DayPasses \/ UNCHANGED vars
    BY <1>1, <2>2 DEF DayPasses, rowVars, vars
  <2>3. QED
    BY <1>1, <1>2, <1>3, <1>4, <2>1, <2>2 DEF Next, Step, Bind, End, Update

\* No two transactions write snapshots of one account or one binding with the
\* same version, so a consumer can always tell the stale one.
THEOREM VersionsApart ==
  ASSUME Request \cap Account = {} PROVE Spec => []VersionsTellSnapshotsApart
<1>1. Init => NoneAhead /\ VersionsTellSnapshotsApart
  BY DEF Init, NoneAhead, VersionsTellSnapshotsApart
<1>2. /\ IInv /\ NoneAhead /\ VersionsTellSnapshotsApart /\ [Next]_vars
      => NoneAhead' /\ VersionsTellSnapshotsApart'
  BY NextVersions
<1>3. QED
  BY <1>1, <1>2, Invariance, PTL DEF Spec

-----------------------------------------------------------------------------
(* No deadlock.  A request waits only at LockMeter, LockAccount and         *)
(* InsertBinding.  Whoever waits for a meter's advisory lock has nothing    *)
(* yet; an insert waits only for locks whose holder is past its last wait;  *)
(* so a chain of waits ends after two requests, whatever their number.      *)

\* The guard of a next statement holds: LockMeter, LockAccount, InsertBinding,
\* one of the checks, or one of the commits.
CanStep(r) ==
    \/ pc[r] = "lock" /\ ask[r].kind \in {"bind", "end"} /\ MeterFree(r)
    \/ /\ pc[r] = "lock" /\ ask[r].kind = "update"
       /\ \A q \in Request \ {r} :
             /\ ~HoldsAccount(q, ask[r].account)
             /\ Pending(q) => ask[q].account # ask[r].account
    \/ /\ pc[r] = "insert" /\ ask[r].kind = "bind"
       /\ \A q \in Request \ {r} : Pending(q) => ask[q].meter # ask[r].meter
       /\ \A q \in Request : ~HoldsAccount(q, ask[r].account)
    \/ pc[r] \in {"check", "commit"} /\ ask[r].kind \in {"bind", "end", "update"}

\* While a request is in flight, some request can take its next statement.
SomeoneRuns == (\E r \in Request : pc[r] \in InFlight) => \E r \in Request : CanStep(r)

\* Past its last wait, a request can step.
LEMMA HoldersRun ==
    ASSUME IInv, NEW q \in Request, pc[q] \in {"check", "commit"}
    PROVE  CanStep(q)
BY AskFields DEF CanStep, IInv

\* An insert that waits, waits for a request that does not.
LEMMA InsertsWaitForHolders ==
    ASSUME IInv, NEW r \in Request, pc[r] = "insert", ~CanStep(r)
    PROVE  \E q \in Request : pc[q] \in {"check", "commit"}
BY DEF CanStep, Pending, HoldsAccount, IInv, Rows

\* A request that waits for a lock waits for an insert or for one that does not wait.
LEMMA LocksWaitForInserts ==
    ASSUME IInv, NEW r \in Request, pc[r] = "lock", ~CanStep(r)
    PROVE  \E q \in Request : pc[q] \in {"check", "insert", "commit"}
<1>1. ask[r].kind \in {"bind", "end", "update"}
  BY AskFields DEF IInv
<1>2. QED
  BY <1>1 DEF CanStep, MeterFree, InMeterTx, Pending, HoldsAccount

\* The advisory lock, the row lock, the foreign key and the unique index never
\* leave requests waiting for each other in a circle (createMeterBinding,
\* endMeterBinding, updateProviderAccount).
THEOREM NoDeadlock == Spec => []SomeoneRuns
<1>1. ASSUME IInv, NEW r \in Request, pc[r] \in {"check", "insert", "commit"}
      PROVE  \E q \in Request : CanStep(q)
  BY <1>1, HoldersRun, InsertsWaitForHolders
<1>2. ASSUME IInv, NEW r \in Request, pc[r] \in InFlight
      PROVE  \E q \in Request : CanStep(q)
  BY <1>1, <1>2, LocksWaitForInserts DEF InFlight
<1>3. IInv => SomeoneRuns
  BY <1>2 DEF SomeoneRuns
<1>4. QED
  BY <1>3, Invariance, PTL
=============================================================================
