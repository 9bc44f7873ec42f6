---------------------------- MODULE MeterBindings ----------------------------
(***************************************************************************)
(* provider-service: meter bindings and the provider accounts they hang    *)
(* on.  Requests run concurrently against PostgreSQL at READ COMMITTED: a  *)
(* statement sees what is committed.  The bind and end transactions take   *)
(* an advisory lock on the meter's id as text, the account update takes    *)
(* the account's row lock, and inserting a binding shares that row lock    *)
(* (foreign key).  Locks are held until the transaction ends, so who holds *)
(* one follows from where each request stands.                             *)
(***************************************************************************)
EXTENDS Naturals, FiniteSets

CONSTANTS
    Request,   \* requests of every kind; a binding's id is the request that made it
    Account,
    Meter,
    Spelling,  \* the texts one meter id can be given as
    Canonical, \* the text the database returns it as
    MaxDay     \* dates are 1..MaxDay

ASSUME MaxDayAssumption    == MaxDay \in Nat \ {0}
ASSUME CanonicalAssumption == Canonical \in Spelling

Day  == 1..MaxDay
Open == 0      \* valid_to IS NULL

VARIABLES
    pc,        \* where each request stands
    ask,       \* what it asks for
    bindings,  \* committed rows of meter_bindings
    validTo,   \* their valid_to
    archived,  \* accounts with archived_at set
    version,   \* version of each account
    bversion,  \* version of each binding
    today,
    events,    \* committed rows of provider_outbox
    readAt,    \* history: the account's version when a bind request read it
    boundAt    \* history: the account's version when the binding committed

vars == <<pc, ask, bindings, validTo, archived, version, bversion, today, events,
          readAt, boundAt>>

Ask ==
    [kind : {"bind"}, account : Account, meter : Meter, spelling : Spelling, from : Day]
    \cup [kind : {"end"}, binding : Request, to : Day]
    \cup [kind : {"update"}, account : Account, change : {"archive", "unarchive", "relabel"}]

Kind(k) == {r \in Request : ask[r].kind = k}

\* An aggregate of the outbox: a binding or an account.
Event == [by : Request, of : Request \cup Account, version : Nat]

TypeOK ==
    /\ pc \in [Request -> {"new", "lock", "check", "insert", "commit", "done", "refused"}]
    /\ ask \in [Request -> Ask]
    /\ bindings \subseteq Kind("bind")
    /\ validTo \in [Request -> Day \cup {Open}]
    /\ \A b \in bindings : validTo[b] = Open \/ validTo[b] >= ask[b].from
    /\ archived \subseteq Account
    /\ version \in [Account -> Nat]
    /\ bversion \in [Request -> Nat]
    /\ today \in Day
    /\ events \subseteq Event
    /\ readAt \in [Request -> Nat]
    /\ boundAt \in [Request -> Nat]

Init ==
    /\ pc = [r \in Request |-> "new"]
    /\ ask \in [Request -> Ask]
    /\ bindings = {}
    /\ validTo = [r \in Request |-> Open]
    /\ archived = {}
    /\ version = [a \in Account |-> 1]
    /\ bversion = [r \in Request |-> 1]
    /\ today = 1
    /\ events = {}
    /\ readAt = [r \in Request |-> 0]
    /\ boundAt = [r \in Request |-> 0]

rowVars == <<bindings, validTo, archived, version, bversion, events, readAt, boundAt>>

Goto(r, label) == pc' = [pc EXCEPT ![r] = label]

-----------------------------------------------------------------------------
(* Locks.                                                                  *)

\* The key pg_advisory_xact_lock gets: the text of the request for bind, the
\* stored id for end.
MeterKey(r) ==
    IF ask[r].kind = "bind" THEN <<ask[r].meter, ask[r].spelling>>
                            ELSE <<ask[ask[r].binding].meter, Canonical>>

\* Mutant of InMeterTx: a session lock, which outlives the commit.
HoldsSessionLock(r) ==
    /\ ask[r].kind \in {"bind", "end"}
    /\ pc[r] \in {"check", "insert", "commit", "done"}

InMeterTx(r) ==
    /\ ask[r].kind \in {"bind", "end"}
    /\ pc[r] \in {"check", "insert", "commit"}

MeterFree(r) == \A q \in Request \ {r} : InMeterTx(q) => MeterKey(q) # MeterKey(r)

\* SELECT ... FOR UPDATE of the account.
HoldsAccount(r, a) ==
    ask[r].kind = "update" /\ ask[r].account = a /\ pc[r] \in {"check", "commit"}

\* A binding inserted and not yet committed.
Pending(r) == ask[r].kind = "bind" /\ pc[r] = "commit"

-----------------------------------------------------------------------------
(* createMeterBinding                                                      *)

OfMeter(m) == {b \in bindings : ask[b].meter = m}

\* The account is read and the meter fetched before the transaction.
ReadAccount(r) ==
    /\ pc[r] = "new" /\ ask[r].kind = "bind"
    /\ ask[r].account \notin archived
    /\ readAt' = [readAt EXCEPT ![r] = version[ask[r].account]]
    /\ Goto(r, "lock")
    /\ UNCHANGED <<ask, bindings, validTo, archived, version, bversion, today, events, boundAt>>

LockMeter(r) ==
    /\ pc[r] = "lock" /\ ask[r].kind \in {"bind", "end"}
    /\ MeterFree(r)
    /\ Goto(r, "check")
    /\ UNCHANGED <<ask, today, rowVars>>

\* Mutant of OverlapsOpenEndedFrom: the last day of a binding is taken as free.
OverlapsAfter(m, from) ==
    \E b \in OfMeter(m) : validTo[b] = Open \/ validTo[b] > from

OverlapsOpenEndedFrom(m, from) ==
    \E b \in OfMeter(m) : validTo[b] = Open \/ validTo[b] >= from

CheckOverlap(r) ==
    /\ pc[r] = "check" /\ ask[r].kind = "bind"
    /\ Goto(r, IF OverlapsOpenEndedFrom(ask[r].meter, ask[r].from) THEN "refused" ELSE "insert")
    /\ UNCHANGED <<ask, today, rowVars>>

\* The insert waits for a concurrent insert of an open binding of the meter
\* (unique index) and for whoever locks the account (foreign key); a
\* committed open binding makes it fail with P2002.
InsertBinding(r) ==
    /\ pc[r] = "insert"
    /\ \A q \in Request \ {r} : Pending(q) => ask[q].meter # ask[r].meter
    /\ \A q \in Request : ~HoldsAccount(q, ask[r].account)
    /\ Goto(r, IF \E b \in OfMeter(ask[r].meter) : validTo[b] = Open THEN "refused" ELSE "commit")
    /\ UNCHANGED <<ask, today, rowVars>>

CommitBinding(r) ==
    /\ Pending(r)
    /\ bindings' = bindings \cup {r}
    /\ events' = events \cup {[by |-> r, of |-> r, version |-> bversion[r]]}
    /\ boundAt' = [boundAt EXCEPT ![r] = version[ask[r].account]]
    /\ Goto(r, "done")
    /\ UNCHANGED <<ask, validTo, archived, version, bversion, today, readAt>>

-----------------------------------------------------------------------------
(* endMeterBinding                                                         *)

FindBinding(r) ==
    /\ pc[r] = "new" /\ ask[r].kind = "end"
    /\ ask[r].binding \in bindings
    /\ Goto(r, "lock")
    /\ UNCHANGED <<ask, today, rowVars>>

\* Mutant of CheckEnd: the period is not checked.
CheckEndedOnly(r) ==
    /\ pc[r] = "check" /\ ask[r].kind = "end"
    /\ Goto(r, IF validTo[ask[r].binding] # Open THEN "refused" ELSE "commit")
    /\ UNCHANGED <<ask, today, rowVars>>

\* Re-read under the lock: already ended, or ending before it began.
CheckEnd(r) ==
    /\ pc[r] = "check" /\ ask[r].kind = "end"
    /\ LET b == ask[r].binding
       IN  Goto(r, IF validTo[b] # Open \/ ask[r].to < ask[b].from THEN "refused" ELSE "commit")
    /\ UNCHANGED <<ask, today, rowVars>>

\* Mutant of CommitEnd: the version is not incremented.
CommitEndSameVersion(r) ==
    /\ pc[r] = "commit" /\ ask[r].kind = "end"
    /\ LET b == ask[r].binding
       IN  /\ validTo' = [validTo EXCEPT ![b] = ask[r].to]
           /\ events' = events \cup {[by |-> r, of |-> b, version |-> bversion[b]]}
    /\ Goto(r, "done")
    /\ UNCHANGED <<ask, bindings, archived, version, bversion, today, readAt, boundAt>>

CommitEnd(r) ==
    /\ pc[r] = "commit" /\ ask[r].kind = "end"
    /\ LET b == ask[r].binding
       IN  /\ validTo' = [validTo EXCEPT ![b] = ask[r].to]
           /\ bversion' = [bversion EXCEPT ![b] = @ + 1]
           /\ events' = events \cup {[by |-> r, of |-> b, version |-> bversion'[b]]}
    /\ Goto(r, "done")
    /\ UNCHANGED <<ask, bindings, archived, version, today, readAt, boundAt>>

-----------------------------------------------------------------------------
(* updateProviderAccount                                                   *)

FindAccount(r) ==
    /\ pc[r] = "new" /\ ask[r].kind = "update"
    /\ Goto(r, "lock")
    /\ UNCHANGED <<ask, today, rowVars>>

\* Mutant of LockAccount: a plain SELECT instead of SELECT ... FOR UPDATE.
SelectAccount(r) ==
    /\ pc[r] = "lock" /\ ask[r].kind = "update"
    /\ Goto(r, "check")
    /\ UNCHANGED <<ask, today, rowVars>>

LockAccount(r) ==
    /\ pc[r] = "lock" /\ ask[r].kind = "update"
    /\ \A q \in Request \ {r} :
          /\ ~HoldsAccount(q, ask[r].account)
          /\ Pending(q) => ask[q].account # ask[r].account
    /\ Goto(r, "check")
    /\ UNCHANGED <<ask, today, rowVars>>

InEffect(b) == validTo[b] = Open \/ validTo[b] >= today

Archiving(r)  == ask[r].change = "archive" /\ ask[r].account \notin archived
NoChange(r) ==
    \/ ask[r].change = "archive" /\ ask[r].account \in archived
    \/ ask[r].change = "unarchive" /\ ask[r].account \notin archived

CheckAccount(r) ==
    /\ pc[r] = "check" /\ ask[r].kind = "update"
    /\ Goto(r, IF Archiving(r) /\ \E b \in bindings : ask[b].account = ask[r].account /\ InEffect(b)
               THEN "refused"
               ELSE IF NoChange(r) THEN "done" ELSE "commit")
    /\ UNCHANGED <<ask, today, rowVars>>

CommitAccount(r) ==
    /\ pc[r] = "commit" /\ ask[r].kind = "update"
    /\ LET a == ask[r].account
       IN  /\ archived' = CASE ask[r].change = "archive"   -> archived \cup {a}
                            [] ask[r].change = "unarchive" -> archived \ {a}
                            [] ask[r].change = "relabel"   -> archived
           /\ version' = [version EXCEPT ![a] = @ + 1]
           /\ events' = events \cup {[by |-> r, of |-> a, version |-> version'[a]]}
    /\ Goto(r, "done")
    /\ UNCHANGED <<ask, bindings, validTo, bversion, today, readAt, boundAt>>

-----------------------------------------------------------------------------
\* A refusal (not found, archived, no access, other household, invalid
\* input), a failing call or statement, a crash: the transaction rolls back.
Refuse(r) ==
    /\ pc[r] \notin {"done", "refused"}
    /\ Goto(r, "refused")
    /\ UNCHANGED <<ask, today, rowVars>>

DayPasses ==
    /\ today < MaxDay
    /\ today' = today + 1
    /\ UNCHANGED <<pc, ask, rowVars>>

Bind(r)   == ReadAccount(r) \/ CheckOverlap(r) \/ InsertBinding(r) \/ CommitBinding(r)
End(r)    == FindBinding(r) \/ CheckEnd(r) \/ CommitEnd(r)
Update(r) == FindAccount(r) \/ LockAccount(r) \/ CheckAccount(r) \/ CommitAccount(r)
Step(r)   == Bind(r) \/ End(r) \/ Update(r) \/ LockMeter(r)

Next == DayPasses \/ \E r \in Request : Step(r) \/ Refuse(r)

\* A started request keeps running; PostgreSQL grants a free lock.
Fairness == \A r \in Request : WF_vars(Step(r))

Spec == Init /\ [][Next]_vars /\ Fairness

-----------------------------------------------------------------------------
(* Properties.                                                             *)

\* b ends before c begins.
Before(b, c) == validTo[b] # Open /\ validTo[b] < ask[c].from

\* A meter has at most one binding in force on any day.
BindingsDisjoint ==
    \A b, c \in bindings :
        b # c /\ ask[b].meter = ask[c].meter => Before(b, c) \/ Before(c, b)

\* Bindings made with one text of the meter id are never in force on one day:
\* what the overlap check saw is still so when the binding commits.
SameTextDisjoint ==
    \A b, c \in bindings :
        b # c /\ ask[b].meter = ask[c].meter /\ ask[b].spelling = ask[c].spelling =>
            Before(b, c) \/ Before(c, b)

\* Whatever text the lock was taken on, a meter never has two open bindings.
OneOpenBinding ==
    \A b, c \in bindings :
        ask[b].meter = ask[c].meter /\ validTo[b] = Open /\ validTo[c] = Open => b = c

\* An account that did not change between a bind request's read and its
\* commit is not archived while that binding is in effect.
ArchiveRespectsBindings ==
    \A b \in bindings : readAt[b] = boundAt[b] /\ InEffect(b) => ask[b].account \notin archived

\* Two snapshots of one aggregate never carry one version, so consumers can
\* tell which is stale.
VersionsTellSnapshotsApart ==
    \A x, y \in events : x.of = y.of /\ x.version = y.version => x = y

\* Locks never leave two requests waiting for each other.
RequestsFinish == \A r \in Request : (pc[r] # "new") ~> (pc[r] \in {"done", "refused"})
=============================================================================
