------------------------------- MODULE Outbox -------------------------------
(***************************************************************************)
(* The transactional outbox of reading-service and provider-service: the   *)
(* writer's transaction (domain row and outbox row together), and the      *)
(* relay that polls unpublished rows, produces them to Kafka and marks     *)
(* them.  One relay instance, one partition.                               *)
(*                                                                         *)
(* Every await of the relay is a step boundary: the service may crash, a   *)
(* transaction may commit or the broker may act between any two of them.   *)
(***************************************************************************)
EXTENDS Naturals, Sequences, FiniteSets, Functions

CONSTANTS
    Event,      \* the events ever written; an event is its eventId
    BatchSize,  \* BATCH_SIZE, the rows one round takes
    MaxFaults   \* bound on failed sends, failed updates, resent requests and crashes

ASSUME EventAssumption     == IsFiniteSet(Event)
ASSUME BatchSizeAssumption == BatchSize \in Nat \ {0}
ASSUME MaxFaultsAssumption == MaxFaults \in Nat

VARIABLES
    tx,         \* the writing transaction of each event
    created,    \* created_at of its outbox row, 0 when there is none
    clock,      \* the clock created_at is taken from
    published,  \* committed rows whose published_at is set
    phase,      \* where relayRound stands; "idle" is running = false
    batch,      \* the rows this round read
    sent,       \* how many of them were acknowledged
    acked,      \* the broker's answer to the outstanding send has arrived
    wire,       \* how many produce requests of an event may still reach the broker
    log,        \* the topic's partition
    faults,     \* faults so far
    overtaken   \* history: events the relay already held when this one committed

writerVars == <<tx, created, clock, overtaken>>
roundVars  == <<phase, batch, sent, acked>>
vars       == <<writerVars, roundVars, published, wire, log, faults>>

Committed   == {e \in Event : tx[e] = "committed"}

\* Mutant of Unpublished: rows saved outside the domain row's transaction.
UncommittedToo == {e \in Event : tx[e] \in {"saved", "committed"}} \ published

Unpublished == Committed \ published

TypeOK ==
    /\ tx \in [Event -> {"none", "open", "saved", "committed", "aborted"}]
    /\ created \in [Event -> Nat]
    /\ clock \in Nat \ {0}
    /\ published \subseteq Event
    /\ phase \in {"idle", "sending", "marking"}
    /\ batch \in Seq(Event)
    /\ sent \in 0..Len(batch)
    /\ acked \in BOOLEAN
    /\ wire \in [Event -> Nat]
    /\ log \in Seq(Event)
    /\ faults \in 0..MaxFaults
    /\ overtaken \in [Event -> SUBSET Event]

Init ==
    /\ tx = [e \in Event |-> "none"]
    /\ created = [e \in Event |-> 0]
    /\ clock = 1
    /\ overtaken = [e \in Event |-> {}]
    /\ published = {}
    /\ phase = "idle" /\ batch = <<>> /\ sent = 0 /\ acked = FALSE
    /\ wire = [e \in Event |-> 0]
    /\ log = <<>>
    /\ faults = 0

Fault == faults < MaxFaults /\ faults' = faults + 1

-----------------------------------------------------------------------------
(* The writer: TransactionManager.execute around save + outbox save.       *)

SaveDomainRow(e) ==
    /\ tx[e] = "none"
    /\ tx' = [tx EXCEPT ![e] = "open"]
    /\ UNCHANGED <<created, clock, overtaken, roundVars, published, wire, log, faults>>

\* created_at is taken here, before the commit makes the row visible. Two
\* rows may carry the same instant.
SaveOutboxRow(e) ==
    /\ tx[e] = "open"
    /\ tx' = [tx EXCEPT ![e] = "saved"]
    /\ created' = [created EXCEPT ![e] = clock]
    /\ clock' \in {clock, clock + 1}
    /\ UNCHANGED <<overtaken, roundVars, published, wire, log, faults>>

OnWire  == {e \in Event : wire[e] > 0}
InRelay == Range(batch) \cup OnWire \cup Range(log)

CommitTx(e) ==
    /\ tx[e] = "saved"
    /\ tx' = [tx EXCEPT ![e] = "committed"]
    /\ overtaken' = [overtaken EXCEPT ![e] = InRelay]
    /\ UNCHANGED <<created, clock, roundVars, published, wire, log, faults>>

AbortTx(e) ==
    /\ tx[e] \in {"open", "saved"}
    /\ tx' = [tx EXCEPT ![e] = "aborted"]
    /\ UNCHANGED <<created, clock, overtaken, roundVars, published, wire, log, faults>>

-----------------------------------------------------------------------------
(* The relay.                                                              *)

\* findUnpublished: the oldest rows by created_at, equal instants in any
\* order.
\* Mutant of OldestFirst: orderBy desc.
NewestFirst(s) == \A i, j \in DOMAIN s : i < j => created[s[i]] >= created[s[j]]

OldestFirst(s) == \A i, j \in DOMAIN s : i < j => created[s[i]] <= created[s[j]]

OldestBatches(S) ==
    LET n == IF Cardinality(S) < BatchSize THEN Cardinality(S) ELSE BatchSize
    IN  {s \in [1..n -> S] :
            /\ IsInjective(s)
            /\ OldestFirst(s)
            /\ \A i \in 1..n : \A e \in S \ Range(s) : created[s[i]] <= created[e]}

FindUnpublished == OldestBatches(Unpublished)

\* A tick while a round runs returns at once; an empty table ends the round.
StartRound ==
    /\ phase = "idle"
    /\ Unpublished # {}
    /\ batch' \in FindUnpublished
    /\ phase' = "sending"
    /\ sent' = 0
    /\ acked' = FALSE
    /\ wire' = [wire EXCEPT ![batch'[1]] = @ + 1]
    /\ UNCHANGED <<writerVars, published, log, faults>>

EmptyRound ==
    /\ phase = "idle"
    /\ Unpublished = {}
    /\ UNCHANGED vars

Current == batch[sent + 1]

\* send resolved: the entry counts as published and the next one is produced.
SendOk ==
    /\ phase = "sending"
    /\ acked
    /\ sent' = sent + 1
    /\ acked' = FALSE
    /\ IF sent' < Len(batch)
       THEN /\ wire' = [wire EXCEPT ![batch[sent' + 1]] = @ + 1]
            /\ UNCHANGED phase
       ELSE /\ phase' = "marking"
            /\ UNCHANGED wire
    /\ UNCHANGED <<writerVars, batch, published, log, faults>>

\* Mutant of EndRound: the next round starts with the last one's count.
EndRoundKeepingCount ==
    /\ phase' = "idle"
    /\ batch' = <<>>
    /\ UNCHANGED sent
    /\ acked' = FALSE

EndRound ==
    /\ phase' = "idle"
    /\ batch' = <<>>
    /\ sent' = 0
    /\ acked' = FALSE

\* send rejected: the loop breaks. The request may be lost, or still be on
\* its way, or have been written already.
SendFails ==
    /\ phase = "sending"
    /\ Fault
    /\ \/ UNCHANGED wire
       \/ wire[Current] > 0 /\ wire' = [wire EXCEPT ![Current] = @ - 1]
    /\ IF sent = 0
       THEN EndRound
       ELSE phase' = "marking" /\ acked' = FALSE /\ UNCHANGED <<batch, sent>>
    /\ UNCHANGED <<writerVars, published, log>>

\* Mutant of Produced: the ids read instead of the ids produced.
WholeBatch == Range(batch)

Produced == {batch[i] : i \in 1..sent}

\* Mutant of MarkPublished: the last produced id is left out.
MarkAllButLast ==
    /\ phase = "marking"
    /\ published' = published \cup {batch[i] : i \in 1..(sent - 1)}
    /\ EndRound
    /\ UNCHANGED <<writerVars, wire, log, faults>>

MarkPublished ==
    /\ phase = "marking"
    /\ published' = published \cup Produced
    /\ EndRound
    /\ UNCHANGED <<writerVars, wire, log, faults>>

\* Mutant of MarkFails: running is not reset on the error path.
MarkFailsRunning ==
    /\ phase = "marking"
    /\ Fault
    /\ phase' = "stopped"
    /\ UNCHANGED <<writerVars, batch, sent, acked, published, wire, log>>

\* markPublished rejects: the round is caught and retried later. The UPDATE
\* may or may not have been applied.
MarkFails ==
    /\ phase = "marking"
    /\ Fault
    /\ published' \in {published, published \cup Produced}
    /\ EndRound
    /\ UNCHANGED <<writerVars, wire, log>>

-----------------------------------------------------------------------------
(* The environment.                                                        *)

\* The broker writes a request that reached it; the client's retries may
\* leave another copy on the way.
BrokerAppends(e) ==
    /\ wire[e] > 0
    /\ log' = Append(log, e)
    /\ acked' = (acked \/ (phase = "sending" /\ Current = e))
    /\ \/ wire' = [wire EXCEPT ![e] = @ - 1] /\ UNCHANGED faults
       \/ UNCHANGED wire /\ Fault
    /\ UNCHANGED <<writerVars, phase, batch, sent, published>>

\* The process dies: open transactions roll back, the round is forgotten,
\* requests on the wire arrive or are lost.
Crash ==
    /\ Fault
    /\ tx' = [e \in Event |-> IF tx[e] \in {"open", "saved"} THEN "aborted" ELSE tx[e]]
    /\ EndRound
    /\ \E S \in SUBSET OnWire : wire' = [e \in Event |-> IF e \in S THEN wire[e] ELSE 0]
    /\ UNCHANGED <<created, clock, overtaken, published, log>>

Writer == \E e \in Event : SaveDomainRow(e) \/ SaveOutboxRow(e) \/ CommitTx(e) \/ AbortTx(e)
Relay  == StartRound \/ EmptyRound \/ SendOk \/ SendFails \/ MarkPublished \/ MarkFails
Broker == \E e \in Event : BrokerAppends(e)

Next == Writer \/ Relay \/ Broker \/ Crash

\* The timer keeps ticking, a resolved await continues, a request the broker
\* received is answered. Failures are bounded by MaxFaults: they stop.
Fairness ==
    /\ WF_vars(StartRound)
    /\ WF_vars(SendOk)
    /\ WF_vars(MarkPublished)
    /\ \A e \in Event : WF_vars(BrokerAppends(e))

Spec == Init /\ [][Next]_vars /\ Fairness

-----------------------------------------------------------------------------
(* Properties.                                                             *)

\* Nothing reaches the topic before the transaction that wrote it committed:
\* an event a consumer can see has its domain row.
OnlyCommittedOnTopic == InRelay \subseteq Committed

\* Produce-before-mark: a row marked published is on the topic, whatever
\* crashed or failed in between. Otherwise the relay would never send it.
MarkedIsOnTopic == published \subseteq Range(log)

First(e) == CHOOSE i \in DOMAIN log : log[i] = e /\ \A j \in 1..(i - 1) : log[j] # e

\* The topic follows created_at, failures and retries included, except for a
\* row that committed after the relay had already taken a younger one.
FifoExceptLateCommit ==
    \A e, f \in Range(log) :
        created[e] < created[f] /\ f \notin overtaken[e] => First(e) < First(f)

Copies(e) == Cardinality({i \in DOMAIN log : log[i] = e})

\* Duplicates are not free: every copy of an event beyond the first is owed
\* to a fault of its own.
DuplicatesNeedFaults == \A e \in Range(log) : Copies(e) <= 1 + faults

\* Once marked, a row is never handed to the broker again.
MarkedNeverResent == [][\A e \in published : wire'[e] <= wire[e]]_vars

\* A committed event reaches the topic and leaves the relay's backlog.
CommittedGetsPublished == \A e \in Event : (tx[e] = "committed") ~> (e \in published)
=============================================================================
