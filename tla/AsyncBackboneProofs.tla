------------------------ MODULE AsyncBackboneProofs ------------------------
(***************************************************************************)
(* Proofs about the producer's side of the backbone (Outbox, which         *)
(* AsyncBackbone extends) and about the whole, for every set of events,    *)
(* batch size, retry budget and bound on faults.                           *)
(*                                                                         *)
(* The outbox: type correctness, nothing uncommitted reaches the topic, a  *)
(* row marked published is on the topic, the topic's order, its copies.    *)
(* MarkedIsOnTopic is not inductive: MarkPublished marks what the round    *)
(* believes it produced. RoundInv says why the belief is right - a send is *)
(* acknowledged only once the broker has written the current entry, and    *)
(* the log only grows. OrderInv and CopiesInv, further down, strengthen    *)
(* the order and the count of copies in the same way.                      *)
(*                                                                         *)
(* The backbone, at the end: with the consumer's invariant, proved in      *)
(* ConsumerLoopProofs, the two sides implement EventDelivery.              *)
(***************************************************************************)
EXTENDS AsyncBackbone, FiniteSetTheorems, WellFoundedInduction, TLAPS

\* What a round knows about the log while it runs.
RoundInv ==
    /\ phase = "sending" => sent < Len(batch)
    /\ acked => phase = "sending" /\ Current \in Range(log)
    /\ \A i \in 1..sent : batch[i] \in Range(log)

\* No row of the running round is marked yet: published only changes when a
\* round ends.
BatchUnmarked == Range(batch) \cap published = {}

IInv ==
    /\ TypeOK
    /\ OnlyCommittedOnTopic
    /\ MarkedIsOnTopic
    /\ RoundInv
    /\ BatchUnmarked

-----------------------------------------------------------------------------

LEMMA RangeAppend ==
    ASSUME NEW S, NEW s \in Seq(S), NEW x \in S
    PROVE  Range(Append(s, x)) = Range(s) \cup {x}
<1>1. /\ DOMAIN s = 1..Len(s)
      /\ DOMAIN Append(s, x) = 1..(Len(s) + 1)
      /\ \A i \in 1..Len(s) : Append(s, x)[i] = s[i]
      /\ Append(s, x)[Len(s) + 1] = x
      /\ Len(s) \in Nat
  OBVIOUS
<1>2. QED
  BY <1>1 DEF Range

LEMMA RangeEmpty == Range(<<>>) = {}
BY DEF Range

\* A batch is a non-empty sequence of unpublished rows whenever there are any.
LEMMA BatchNonEmpty ==
    ASSUME TypeOK, Unpublished # {}, NEW s \in FindUnpublished
    PROVE  s \in Seq(Event) /\ Len(s) > 0 /\ Range(s) \subseteq Unpublished
<1>1. Unpublished \subseteq Event
  BY DEF Unpublished, Committed
<1>2. IsFiniteSet(Unpublished)
  BY <1>1, EventAssumption, FS_Subset
<1>3. Cardinality(Unpublished) \in Nat \ {0}
  BY <1>2, FS_EmptySet, FS_CardinalityType
<1>4. PICK n \in Nat \ {0} : s \in [1..n -> Unpublished]
  BY <1>3, BatchSizeAssumption DEF FindUnpublished, OldestBatches
<1>5. s \in Seq(Event) /\ Len(s) = n /\ DOMAIN s = 1..n
  BY <1>1, <1>4
<1>6. QED
  BY <1>4, <1>5 DEF Range

-----------------------------------------------------------------------------

\* The invariant holds before anything was written.
LEMMA InitIInv == Init => IInv
<1>1. SUFFICES ASSUME Init PROVE IInv
  OBVIOUS
<1>2. Range(batch) = {} /\ Range(log) = {} /\ Len(batch) = 0
  BY <1>1, RangeEmpty DEF Init
<1>3. OnWire = {}
  BY <1>1 DEF Init, OnWire
<1>4. TypeOK
  <2>1. acked \in BOOLEAN
    BY <1>1 DEF Init
  <2>2. batch \in Seq(Event) /\ log \in Seq(Event) /\ sent \in 0..Len(batch)
    BY <1>1, <1>2 DEF Init
  <2>3. QED
    BY <1>1, <2>1, <2>2, MaxFaultsAssumption DEF Init, TypeOK
<1>5. OnlyCommittedOnTopic /\ MarkedIsOnTopic /\ RoundInv /\ BatchUnmarked
  BY <1>1, <1>2, <1>3
  DEF Init, OnlyCommittedOnTopic, InRelay, MarkedIsOnTopic, RoundInv, BatchUnmarked
<1>6. QED
  BY <1>4, <1>5 DEF IInv

\* The writer's steps: only CommitTx adds to Committed, nothing leaves it, and
\* neither the round nor the topic is touched.
LEMMA WriterStep == IInv /\ Writer => IInv'
<1>1. SUFFICES ASSUME IInv, NEW e \in Event,
                      SaveDomainRow(e) \/ SaveOutboxRow(e) \/ CommitTx(e) \/ AbortTx(e)
               PROVE  IInv'
  BY DEF Writer
<1>2. UNCHANGED <<roundVars, published, wire, log, faults>>
  BY <1>1 DEF SaveDomainRow, SaveOutboxRow, CommitTx, AbortTx
<1>3. TypeOK'
  <2>1. InRelay \subseteq Event
    BY <1>1 DEF IInv, OnlyCommittedOnTopic, Committed
  <2>2. CASE SaveDomainRow(e)
    BY <1>1, <2>2 DEF IInv, TypeOK, SaveDomainRow, roundVars
  <2>3. CASE SaveOutboxRow(e)
    BY <1>1, <2>3 DEF IInv, TypeOK, SaveOutboxRow, roundVars
  <2>4. CASE CommitTx(e)
    BY <1>1, <2>1, <2>4 DEF IInv, TypeOK, CommitTx, roundVars
  <2>5. CASE AbortTx(e)
    BY <1>1, <2>5 DEF IInv, TypeOK, AbortTx, roundVars
  <2>6. QED
    BY <1>1, <2>2, <2>3, <2>4, <2>5
<1>4. Committed \subseteq Committed'
  BY <1>1 DEF IInv, TypeOK, Committed, SaveDomainRow, SaveOutboxRow, CommitTx, AbortTx
<1>5. InRelay' = InRelay
  BY <1>2 DEF InRelay, OnWire, roundVars
<1>6. OnlyCommittedOnTopic'
  BY <1>1, <1>4, <1>5 DEF IInv, OnlyCommittedOnTopic
<1>7. MarkedIsOnTopic' /\ RoundInv' /\ BatchUnmarked'
  BY <1>1, <1>2 DEF IInv, MarkedIsOnTopic, RoundInv, BatchUnmarked, Current, roundVars
<1>8. QED
  BY <1>3, <1>6, <1>7 DEF IInv

\* A new round holds only committed rows and has acknowledged none.
LEMMA StartRoundStep == IInv /\ StartRound => IInv'
<1>1. SUFFICES ASSUME IInv, StartRound PROVE IInv'
  OBVIOUS
<1>2. /\ batch' \in Seq(Event)
      /\ Len(batch') > 0
      /\ Range(batch') \subseteq Unpublished
  BY <1>1, BatchNonEmpty DEF IInv, StartRound
<1>3. batch'[1] \in Event /\ batch'[1] \in Range(batch')
  BY <1>2 DEF Range
<1>4. TypeOK'
  <2>1. acked' \in BOOLEAN
    BY <1>1 DEF StartRound
  <2>2. sent' \in 0..Len(batch')
    BY <1>1, <1>2 DEF StartRound
  <2>3. wire' \in [Event -> Nat]
    BY <1>1, <1>3 DEF IInv, TypeOK, StartRound
  <2>4. QED
    BY <1>1, <1>2, <2>1, <2>2, <2>3 DEF IInv, TypeOK, StartRound, writerVars
<1>5. OnlyCommittedOnTopic'
  <2>1. OnWire' \subseteq OnWire \cup {batch'[1]}
    BY <1>1, <1>3 DEF IInv, TypeOK, StartRound, OnWire
  <2>2. Committed' = Committed /\ log' = log
    BY <1>1 DEF StartRound, Committed, writerVars
  <2>3. QED
    BY <1>1, <1>2, <1>3, <2>1, <2>2
    DEF IInv, OnlyCommittedOnTopic, InRelay, Unpublished
<1>6. MarkedIsOnTopic' /\ RoundInv' /\ BatchUnmarked'
  BY <1>1, <1>2
  DEF IInv, StartRound, MarkedIsOnTopic, RoundInv, BatchUnmarked, Unpublished
<1>7. QED
  BY <1>4, <1>5, <1>6 DEF IInv

\* An acknowledged entry is on the topic, and the next one is from the batch.
LEMMA SendOkStep == IInv /\ SendOk => IInv'
<1>1. SUFFICES ASSUME IInv, SendOk PROVE IInv'
  OBVIOUS
<1>2. /\ sent \in Nat /\ sent < Len(batch) /\ sent' = sent + 1
      /\ Len(batch) \in Nat /\ batch' = batch /\ log' = log
      /\ Current \in Range(log)
  BY <1>1 DEF IInv, TypeOK, RoundInv, SendOk
<1>3. wire' \in [Event -> Nat] /\ OnWire' \subseteq OnWire \cup Range(batch)
  <2>1. wire \in [Event -> Nat] /\ batch \in Seq(Event)
    BY <1>1 DEF IInv, TypeOK
  <2>2. CASE sent' < Len(batch)
    <3>1. sent' + 1 \in DOMAIN batch
      BY <1>2, <2>1, <2>2
    <3>2. batch[sent' + 1] \in Range(batch) /\ batch[sent' + 1] \in Event
      BY <2>1, <3>1 DEF Range
    <3>3. wire' = [wire EXCEPT ![batch[sent' + 1]] = @ + 1]
      BY <1>1, <2>2 DEF SendOk
    <3>4. QED
      BY <2>1, <3>2, <3>3 DEF OnWire
  <2>3. CASE ~(sent' < Len(batch))
    BY <1>1, <2>1, <2>3 DEF SendOk, OnWire
  <2>4. QED
    BY <2>2, <2>3
<1>4. TypeOK'
  <2>1. acked' \in BOOLEAN
    BY <1>1 DEF SendOk
  <2>2. sent' \in 0..Len(batch')
    BY <1>2
  <2>3. phase' \in {"sending", "marking"}
    BY <1>1 DEF SendOk
  <2>4. QED
    BY <1>1, <1>3, <2>1, <2>2, <2>3 DEF IInv, TypeOK, SendOk, writerVars
<1>5. OnlyCommittedOnTopic'
  BY <1>1, <1>2, <1>3 DEF IInv, OnlyCommittedOnTopic, InRelay, Committed, SendOk, writerVars
<1>6. MarkedIsOnTopic' /\ BatchUnmarked'
  BY <1>1 DEF IInv, MarkedIsOnTopic, BatchUnmarked, SendOk
<1>7. RoundInv'
  BY <1>1, <1>2 DEF IInv, RoundInv, Current, SendOk
<1>8. QED
  BY <1>4, <1>5, <1>6, <1>7 DEF IInv

\* A failed send only takes requests off the wire and ends or shortens the round.
LEMMA SendFailsStep == IInv /\ SendFails => IInv'
<1>1. SUFFICES ASSUME IInv, SendFails PROVE IInv'
  OBVIOUS
<1>2. Current \in Event
  <2>1. sent + 1 \in 1..Len(batch) /\ batch \in Seq(Event)
    BY <1>1 DEF IInv, TypeOK, RoundInv, SendFails
  <2>2. QED
    BY <2>1 DEF Current
<1>3. /\ wire' \in [Event -> Nat]
      /\ OnWire' \subseteq OnWire
  <2>1. wire \in [Event -> Nat]
    BY <1>1 DEF IInv, TypeOK
  <2>2. \/ wire' = wire
        \/ wire[Current] > 0 /\ wire' = [wire EXCEPT ![Current] = @ - 1]
    BY <1>1 DEF SendFails
  <2>3. QED
    BY <1>2, <2>1, <2>2 DEF OnWire
<1>4. /\ \/ batch' = batch /\ sent' = sent
         \/ batch' = <<>> /\ sent' = 0
      /\ phase' \in {"idle", "marking"} /\ acked' = FALSE
      /\ log' = log /\ published' = published /\ UNCHANGED writerVars
      /\ faults' \in 0..MaxFaults
  <2>1. faults' \in 0..MaxFaults
    BY <1>1, MaxFaultsAssumption DEF IInv, TypeOK, SendFails, Fault
  <2>2. QED
    BY <1>1, <2>1 DEF SendFails, EndRound
<1>5. Range(batch') \subseteq Range(batch)
  BY <1>4, RangeEmpty
<1>6. TypeOK'
  <2>1. acked' \in BOOLEAN
    BY <1>4
  <2>2. batch' \in Seq(Event) /\ sent' \in 0..Len(batch')
    <3>1. CASE batch' = batch /\ sent' = sent
      BY <1>1, <3>1 DEF IInv, TypeOK
    <3>2. CASE batch' = <<>> /\ sent' = 0
      BY <3>2
    <3>3. QED
      BY <1>4, <3>1, <3>2
  <2>3. QED
    BY <1>1, <1>3, <1>4, <2>1, <2>2 DEF IInv, TypeOK, writerVars
<1>7. OnlyCommittedOnTopic'
  BY <1>1, <1>3, <1>4, <1>5 DEF IInv, OnlyCommittedOnTopic, InRelay, Committed, writerVars
<1>8. MarkedIsOnTopic' /\ RoundInv' /\ BatchUnmarked'
  BY <1>1, <1>4, <1>5 DEF IInv, MarkedIsOnTopic, RoundInv, BatchUnmarked
<1>9. QED
  BY <1>6, <1>7, <1>8 DEF IInv

\* What a round marks is what the broker acknowledged, so it is on the topic.
LEMMA MarkStep == IInv /\ (MarkPublished \/ MarkFails) => IInv'
<1>1. SUFFICES ASSUME IInv, MarkPublished \/ MarkFails PROVE IInv'
  OBVIOUS
<1>2. Produced \subseteq Range(log)
  BY <1>1 DEF IInv, RoundInv, Produced
<1>3. Range(log) \subseteq Event
  BY <1>1 DEF IInv, TypeOK, Range
<1>4. /\ published' \subseteq published \cup Produced
      /\ phase' = "idle" /\ batch' = <<>> /\ sent' = 0 /\ acked' = FALSE
      /\ wire' = wire /\ log' = log /\ UNCHANGED writerVars
      /\ faults' \in 0..MaxFaults
  BY <1>1, MaxFaultsAssumption
  DEF IInv, TypeOK, MarkPublished, MarkFails, EndRound, Fault
<1>5. TypeOK'
  <2>1. acked' \in BOOLEAN
    BY <1>4
  <2>2. batch' \in Seq(Event) /\ sent' \in 0..Len(batch')
    BY <1>4
  <2>3. QED
    BY <1>1, <1>2, <1>3, <1>4, <2>1, <2>2 DEF IInv, TypeOK, writerVars
<1>6. OnlyCommittedOnTopic'
  BY <1>1, <1>4, RangeEmpty
  DEF IInv, OnlyCommittedOnTopic, InRelay, OnWire, Committed, writerVars
<1>7. MarkedIsOnTopic' /\ RoundInv' /\ BatchUnmarked'
  BY <1>1, <1>2, <1>4, RangeEmpty
  DEF IInv, MarkedIsOnTopic, RoundInv, BatchUnmarked
<1>8. QED
  BY <1>5, <1>6, <1>7 DEF IInv

\* The broker appends what is on the wire, and the log only grows.
LEMMA BrokerStep == IInv /\ Broker => IInv'
<1>1. SUFFICES ASSUME IInv, NEW e \in Event, BrokerAppends(e) PROVE IInv'
  BY DEF Broker
<1>2. e \in OnWire /\ log' = Append(log, e)
  BY <1>1 DEF OnWire, BrokerAppends
<1>3. Range(log') = Range(log) \cup {e}
  BY <1>1, <1>2, RangeAppend DEF IInv, TypeOK
<1>4. /\ wire' \in [Event -> Nat]
      /\ OnWire' \subseteq OnWire
      /\ faults' \in 0..MaxFaults
  <2>1. wire \in [Event -> Nat] /\ faults \in 0..MaxFaults
    BY <1>1 DEF IInv, TypeOK
  <2>2. CASE wire' = [wire EXCEPT ![e] = @ - 1] /\ faults' = faults
    BY <1>1, <2>1, <2>2 DEF BrokerAppends, OnWire
  <2>3. CASE wire' = wire /\ Fault
    BY <2>1, <2>3, MaxFaultsAssumption DEF OnWire, Fault
  <2>4. QED
    BY <1>1, <2>2, <2>3 DEF BrokerAppends
<1>5. TypeOK'
  <2>1. acked \in BOOLEAN /\ acked' = (acked \/ (phase = "sending" /\ Current = e))
    BY <1>1 DEF IInv, TypeOK, BrokerAppends
  <2>2. acked' \in BOOLEAN
    BY <2>1, Zenon
  <2>3. QED
    BY <1>1, <1>2, <1>4, <2>2 DEF IInv, TypeOK, BrokerAppends, writerVars
<1>6. OnlyCommittedOnTopic'
  BY <1>1, <1>2, <1>3, <1>4
  DEF IInv, OnlyCommittedOnTopic, InRelay, Committed, BrokerAppends, writerVars
<1>7. MarkedIsOnTopic' /\ BatchUnmarked'
  BY <1>1, <1>3 DEF IInv, MarkedIsOnTopic, BatchUnmarked, BrokerAppends
<1>8. RoundInv'
  BY <1>1, <1>3 DEF IInv, RoundInv, Current, BrokerAppends
<1>9. QED
  BY <1>5, <1>6, <1>7, <1>8 DEF IInv

\* A crash forgets the round and some requests; the database and the topic stay.
LEMMA CrashStep == IInv /\ Crash => IInv'
<1>1. SUFFICES ASSUME IInv, Crash PROVE IInv'
  OBVIOUS
<1>2. /\ wire' \in [Event -> Nat]
      /\ OnWire' \subseteq OnWire
  BY <1>1 DEF IInv, TypeOK, Crash, OnWire
<1>3. TypeOK'
  <2>1. acked' \in BOOLEAN
    BY <1>1 DEF Crash, EndRound
  <2>2. batch' \in Seq(Event) /\ sent' \in 0..Len(batch')
    BY <1>1 DEF Crash, EndRound
  <2>3. QED
    BY <1>1, <1>2, <2>1, <2>2, MaxFaultsAssumption
    DEF IInv, TypeOK, Crash, EndRound, Fault
<1>4. Committed \subseteq Committed'
  BY <1>1 DEF IInv, TypeOK, Committed, Crash
<1>5. OnlyCommittedOnTopic'
  BY <1>1, <1>2, <1>4, RangeEmpty DEF IInv, OnlyCommittedOnTopic, InRelay, Crash, EndRound
<1>6. MarkedIsOnTopic' /\ RoundInv' /\ BatchUnmarked'
  BY <1>1, RangeEmpty
  DEF IInv, MarkedIsOnTopic, RoundInv, BatchUnmarked, Crash, EndRound
<1>7. QED
  BY <1>3, <1>5, <1>6 DEF IInv

\* Every step of the system preserves the invariant.
LEMMA NextIInv == IInv /\ [Next]_vars => IInv'
<1>1. SUFFICES ASSUME IInv, [Next]_vars PROVE IInv'
  OBVIOUS
<1>2. CASE Writer
  BY <1>1, <1>2, WriterStep
<1>3. CASE Relay
  <2>1. CASE StartRound
    BY <1>1, <2>1, StartRoundStep
  <2>2. CASE SendOk
    BY <1>1, <2>2, SendOkStep
  <2>3. CASE SendFails
    BY <1>1, <2>3, SendFailsStep
  <2>4. CASE MarkPublished \/ MarkFails
    BY <1>1, <2>4, MarkStep
  <2>5. CASE EmptyRound
    BY <1>1, <2>5 DEF EmptyRound, vars, writerVars, roundVars, IInv, TypeOK, RoundInv, BatchUnmarked,
       OnlyCommittedOnTopic, InRelay, OnWire, Committed, MarkedIsOnTopic, Current
  <2>6. QED
    BY <1>3, <2>1, <2>2, <2>3, <2>4, <2>5 DEF Relay
<1>4. CASE Broker
  BY <1>1, <1>4, BrokerStep
<1>5. CASE Crash
  BY <1>1, <1>5, CrashStep
<1>6. CASE UNCHANGED vars
  BY <1>1, <1>6 DEF vars, writerVars, roundVars, IInv, TypeOK, RoundInv, BatchUnmarked,
     OnlyCommittedOnTopic, InRelay, OnWire, Committed, MarkedIsOnTopic, Current
<1>7. QED
  BY <1>1, <1>2, <1>3, <1>4, <1>5, <1>6 DEF Next

\* No step hands the broker a row that is marked: what a round sends is its
\* batch, and its batch is unmarked.
LEMMA StepNeverResends ==
    IInv /\ [Next]_vars => [\A e \in published : wire'[e] <= wire[e]]_vars
<1>1. SUFFICES ASSUME IInv, Next, NEW e \in published PROVE wire'[e] <= wire[e]
  OBVIOUS
<1>2. /\ wire \in [Event -> Nat] /\ published \subseteq Event
      /\ e \in Event /\ wire[e] \in Nat
  BY <1>1 DEF IInv, TypeOK
<1>3. CASE wire' = wire
  BY <1>2, <1>3
<1>4. CASE StartRound
  <2>1. batch' \in Seq(Event) /\ batch'[1] \in Unpublished
    BY <1>1, <1>4, BatchNonEmpty DEF IInv, StartRound, Range
  <2>2. wire' = [wire EXCEPT ![batch'[1]] = @ + 1] /\ e # batch'[1]
    BY <1>1, <1>4, <2>1 DEF StartRound, Unpublished
  <2>3. QED
    BY <1>2, <2>2
<1>5. CASE SendOk
  <2>1. CASE sent' < Len(batch)
    <3>1. sent' + 1 \in DOMAIN batch
      BY <1>1, <1>5, <2>1 DEF IInv, TypeOK, SendOk
    <3>2. e # batch[sent' + 1]
      BY <1>1, <3>1 DEF IInv, BatchUnmarked, Range
    <3>3. QED
      BY <1>2, <1>5, <2>1, <3>2 DEF SendOk
  <2>2. CASE ~(sent' < Len(batch))
    BY <1>3, <1>5, <2>2 DEF SendOk
  <2>3. QED
    BY <2>1, <2>2
<1>6. CASE SendFails
  BY <1>2, <1>6 DEF SendFails
<1>7. CASE Broker
  <2>1. PICK f \in Event : BrokerAppends(f)
    BY <1>7 DEF Broker
  <2>2. \/ wire' = wire
        \/ wire' = [wire EXCEPT ![f] = @ - 1] /\ wire[f] \in Nat
    BY <1>2, <2>1 DEF BrokerAppends
  <2>3. QED
    BY <1>2, <2>2
<1>8. CASE Crash
  BY <1>2, <1>8 DEF Crash
<1>9. CASE Writer \/ EmptyRound \/ MarkPublished \/ MarkFails
  BY <1>3, <1>9 DEF Writer, SaveDomainRow, SaveOutboxRow, CommitTx, AbortTx,
     EmptyRound, MarkPublished, MarkFails, vars
<1>10. QED
  BY <1>1, <1>4, <1>5, <1>6, <1>7, <1>8, <1>9 DEF Next, Relay

-----------------------------------------------------------------------------
(* The order of the topic. FifoExceptLateCommit speaks of the topic alone;  *)
(* it is inductive only together with the order of what the relay holds:    *)
(* the batch is sorted, and an entry is handed to the broker only once all  *)
(* entries before it are written.                                           *)

\* Row e is owed a place before f: it is older, and f had not been taken by
\* the relay when e committed.
Older(e, f) == created[e] < created[f] /\ f \notin overtaken[e]

\* A batch holds an older row before a younger one, unless the topic already
\* has it.
BatchOrder ==
    \A e \in Committed : \A j \in DOMAIN batch :
        Older(e, batch[j]) => e \in Range(log) \/ \E i \in 1..(j - 1) : batch[i] = e

\* Whenever a row is on its way to the broker, every older one is written.
WireOrder == \A e \in Committed : \A f \in OnWire : Older(e, f) => e \in Range(log)

\* Every copy of a row on the topic follows some copy of each older row.
LogOrder ==
    \A e \in Committed : \A j \in DOMAIN log :
        Older(e, log[j]) => \E i \in 1..(j - 1) : log[i] = e

OrderInv == BatchOrder /\ WireOrder /\ LogOrder

\* What findUnpublished returns: distinct rows, oldest first, and no older
\* unpublished row is left behind.
LEMMA BatchSorted ==
    ASSUME TypeOK, NEW s \in FindUnpublished
    PROVE  /\ IsInjective(s)
           /\ OldestFirst(s)
           /\ \A j \in DOMAIN s : \A e \in Unpublished \ Range(s) : created[s[j]] <= created[e]
<1>1. IsFiniteSet(Unpublished)
  BY EventAssumption, FS_Subset DEF Unpublished, Committed
<1>2. Cardinality(Unpublished) \in Nat
  BY <1>1, FS_CardinalityType
<1>3. PICK n \in Nat :
        /\ s \in [1..n -> Unpublished]
        /\ IsInjective(s)
        /\ OldestFirst(s)
        /\ \A i \in 1..n : \A e \in Unpublished \ Range(s) : created[s[i]] <= created[e]
  BY <1>2, BatchSizeAssumption DEF FindUnpublished, OldestBatches
<1>4. QED
  BY <1>3

\* A batch, the wire and a log that are empty are in order.
LEMMA InitOrder == Init => OrderInv
BY DEF Init, OrderInv, BatchOrder, WireOrder, LogOrder, Committed, OnWire

\* The writer: the only rows whose created_at changes are not committed, and
\* whatever the relay holds when a row commits is in its overtaken set.
LEMMA WriterOrder == IInv /\ OrderInv /\ Writer => OrderInv'
<1>1. SUFFICES ASSUME IInv, OrderInv, NEW e \in Event,
                      SaveDomainRow(e) \/ SaveOutboxRow(e) \/ CommitTx(e) \/ AbortTx(e)
               PROVE  OrderInv'
  BY DEF Writer
<1>2. /\ UNCHANGED <<batch, wire, log>>
      /\ OnWire' = OnWire
  BY <1>1 DEF SaveDomainRow, SaveOutboxRow, CommitTx, AbortTx, roundVars, OnWire
<1>3. /\ tx \in [Event -> {"none", "open", "saved", "committed", "aborted"}]
      /\ created \in [Event -> Nat]
      /\ overtaken \in [Event -> SUBSET Event]
      /\ batch \in Seq(Event) /\ log \in Seq(Event)
  BY <1>1 DEF IInv, TypeOK
<1>4. /\ \A j \in DOMAIN batch : batch[j] \in InRelay
      /\ \A f \in OnWire : f \in InRelay
      /\ \A j \in DOMAIN log : log[j] \in InRelay
  BY DEF InRelay, Range
<1>5. \A d \in Committed', f \in InRelay : Older(d, f)' => d \in Committed /\ Older(d, f)
  <2>1. InRelay \subseteq Committed
    BY <1>1 DEF IInv, OnlyCommittedOnTopic
  <2>2. CASE CommitTx(e)
    BY <1>3, <2>1, <2>2 DEF CommitTx, Committed, Older
  <2>3. CASE SaveOutboxRow(e)
    BY <1>3, <2>1, <2>3 DEF SaveOutboxRow, Committed, Older
  <2>4. CASE SaveDomainRow(e) \/ AbortTx(e)
    BY <1>3, <2>1, <2>4 DEF SaveDomainRow, AbortTx, Committed, Older
  <2>5. QED
    BY <1>1, <2>2, <2>3, <2>4
<1>6. BatchOrder'
  <2>1. SUFFICES ASSUME NEW d \in Committed', NEW j \in DOMAIN batch, Older(d, batch[j])'
                 PROVE  d \in Range(log) \/ \E i \in 1..(j - 1) : batch[i] = d
    BY <1>2 DEF BatchOrder
  <2>2. d \in Committed /\ Older(d, batch[j])
    BY <1>2, <1>4, <1>5, <2>1 DEF Older
  <2>3. QED
    BY <1>1, <2>2 DEF OrderInv, BatchOrder
<1>7. WireOrder'
  BY <1>1, <1>2, <1>4, <1>5 DEF OrderInv, WireOrder
<1>8. LogOrder'
  <2>1. SUFFICES ASSUME NEW d \in Committed', NEW j \in DOMAIN log, Older(d, log[j])'
                 PROVE  \E i \in 1..(j - 1) : log[i] = d
    BY <1>2 DEF LogOrder
  <2>2. d \in Committed /\ Older(d, log[j])
    BY <1>2, <1>4, <1>5, <2>1 DEF Older
  <2>3. QED
    BY <1>1, <2>2 DEF OrderInv, LogOrder
<1>9. QED
  BY <1>6, <1>7, <1>8 DEF OrderInv

\* Of two rows of a new batch the older stands first, and a row left behind is
\* no older than any of them or already on the topic.
LEMMA StartRoundOrder == IInv /\ OrderInv /\ StartRound => OrderInv'
<1>1. SUFFICES ASSUME IInv, OrderInv, StartRound PROVE OrderInv'
  OBVIOUS
<1>2. /\ TypeOK /\ created \in [Event -> Nat] /\ wire \in [Event -> Nat]
      /\ MarkedIsOnTopic
  BY <1>1 DEF IInv, TypeOK
<1>3. /\ batch' \in FindUnpublished
      /\ UNCHANGED <<tx, created, overtaken, log>>
      /\ wire' = [wire EXCEPT ![batch'[1]] = @ + 1]
      /\ Committed' = Committed
  BY <1>1 DEF StartRound, writerVars, Committed
<1>4. /\ batch' \in Seq(Event) /\ Len(batch') > 0
      /\ Range(batch') \subseteq Unpublished
  BY <1>1, <1>2, <1>3, BatchNonEmpty DEF StartRound
<1>5. /\ OldestFirst(batch')
      /\ \A j \in DOMAIN batch' : \A e \in Unpublished \ Range(batch') :
            created[batch'[j]] <= created[e]
  BY <1>2, <1>3, BatchSorted
<1>6. BatchOrder'
  <2>1. SUFFICES ASSUME NEW e \in Committed, NEW j \in DOMAIN batch',
                        Older(e, batch'[j]), e \notin Range(log)
                 PROVE  \E i \in 1..(j - 1) : batch'[i] = e
    BY <1>3 DEF BatchOrder, Older
  <2>2. e \in Event /\ created[e] \in Nat /\ created[batch'[j]] \in Nat
    BY <1>2, <1>4 DEF Committed
  <2>3. created[e] < created[batch'[j]]
    BY <2>1 DEF Older
  <2>4. e \in Unpublished
    BY <1>2, <2>1 DEF Unpublished, MarkedIsOnTopic
  <2>5. e \in Range(batch')
    BY <1>5, <2>2, <2>3, <2>4
  <2>6. PICK i \in DOMAIN batch' : batch'[i] = e
    BY <2>5 DEF Range
  <2>7. i \in Nat /\ j \in Nat /\ i >= 1 /\ i # j
    BY <1>4, <2>2, <2>3, <2>6
  <2>8. ~(j < i)
    BY <1>5, <2>2, <2>3, <2>6 DEF OldestFirst
  <2>9. i \in 1..(j - 1)
    BY <2>7, <2>8
  <2>10. QED
    BY <2>6, <2>9
<1>7. WireOrder'
  <2>1. SUFFICES ASSUME NEW e \in Committed, NEW f \in OnWire', Older(e, f)
                 PROVE  e \in Range(log)
    BY <1>3 DEF WireOrder, Older
  <2>2. CASE f \in OnWire
    BY <1>1, <2>1, <2>2 DEF OrderInv, WireOrder
  <2>3. CASE f \notin OnWire
    <3>1. f = batch'[1] /\ 1 \in DOMAIN batch'
      BY <1>2, <1>3, <1>4, <2>3 DEF OnWire
    <3>2. (e \in Range(log) \/ \E i \in 1..(1 - 1) : batch[i] = e)'
      BY <1>3, <1>6, <2>1, <3>1 DEF BatchOrder, Older
    <3>3. QED
      BY <1>3, <3>2
  <2>4. QED
    BY <2>2, <2>3
<1>8. LogOrder'
  BY <1>1, <1>3 DEF OrderInv, LogOrder, Older
<1>9. QED
  BY <1>6, <1>7, <1>8 DEF OrderInv

\* The next entry is produced once those before it were acknowledged, so they
\* are on the topic.
LEMMA SendOkOrder == IInv /\ OrderInv /\ SendOk => OrderInv'
<1>1. SUFFICES ASSUME IInv, OrderInv, SendOk PROVE OrderInv'
  OBVIOUS
<1>2. /\ wire \in [Event -> Nat] /\ batch \in Seq(Event) /\ sent \in Nat
      /\ sent' = sent + 1 /\ UNCHANGED <<tx, created, overtaken, batch, log>>
      /\ Committed' = Committed
  BY <1>1 DEF IInv, TypeOK, SendOk, writerVars, Committed
<1>3. \A i \in 1..sent' : batch[i] \in Range(log)
  <2>1. \A i \in 1..sent : batch[i] \in Range(log)
    BY <1>1 DEF IInv, RoundInv
  <2>2. batch[sent + 1] \in Range(log)
    BY <1>1 DEF IInv, RoundInv, SendOk, Current
  <2>3. QED
    BY <1>2, <2>1, <2>2
<1>4. BatchOrder' /\ LogOrder'
  BY <1>1, <1>2 DEF OrderInv, BatchOrder, LogOrder, Older
<1>5. WireOrder'
  <2>1. SUFFICES ASSUME NEW e \in Committed, NEW f \in OnWire', Older(e, f)
                 PROVE  e \in Range(log)
    BY <1>2 DEF WireOrder, Older
  <2>2. CASE f \in OnWire
    BY <1>1, <2>1, <2>2 DEF OrderInv, WireOrder
  <2>3. CASE f \notin OnWire
    <3>1. /\ sent' < Len(batch)
          /\ wire' = [wire EXCEPT ![batch[sent' + 1]] = @ + 1]
      BY <1>1, <1>2, <2>3 DEF SendOk, OnWire
    <3>2. sent' + 1 \in DOMAIN batch /\ batch[sent' + 1] \in Event
      BY <1>2, <3>1
    <3>3. f = batch[sent' + 1]
      BY <1>2, <2>3, <3>1, <3>2 DEF OnWire
    <3>4. e \in Range(log) \/ \E i \in 1..((sent' + 1) - 1) : batch[i] = e
      BY <1>1, <2>1, <3>2, <3>3 DEF OrderInv, BatchOrder
    <3>5. (sent' + 1) - 1 = sent'
      BY <1>2
    <3>6. QED
      BY <1>3, <3>4, <3>5
  <2>4. QED
    BY <2>2, <2>3
<1>6. QED
  BY <1>4, <1>5 DEF OrderInv

\* Steps that end or shorten a round take from the batch and the wire and add
\* nothing.
LEMMA ShrinkOrder ==
    ASSUME OrderInv, UNCHANGED <<created, overtaken, log>>,
           Committed' = Committed, OnWire' \subseteq OnWire,
           batch' = batch \/ batch' = <<>>
    PROVE  OrderInv'
<1>1. BatchOrder'
  <2>1. CASE batch' = batch
    BY <2>1 DEF OrderInv, BatchOrder, Older
  <2>2. CASE batch' = <<>>
    BY <2>2 DEF BatchOrder
  <2>3. QED
    BY <2>1, <2>2
<1>2. WireOrder' /\ LogOrder'
  BY DEF OrderInv, WireOrder, LogOrder, Older
<1>3. QED
  BY <1>1, <1>2 DEF OrderInv

\* What the broker writes was on the wire, so every older row is written.
LEMMA BrokerOrder == IInv /\ OrderInv /\ Broker => OrderInv'
<1>1. SUFFICES ASSUME IInv, OrderInv, NEW g \in Event, BrokerAppends(g) PROVE OrderInv'
  BY DEF Broker
<1>2. /\ wire \in [Event -> Nat] /\ log \in Seq(Event) /\ log' = Append(log, g)
      /\ UNCHANGED <<tx, created, overtaken, batch>> /\ Committed' = Committed
      /\ g \in OnWire
  BY <1>1 DEF IInv, TypeOK, BrokerAppends, writerVars, Committed, OnWire
<1>3. Range(log') = Range(log) \cup {g}
  BY <1>2, RangeAppend
<1>4. OnWire' \subseteq OnWire
  BY <1>1, <1>2 DEF BrokerAppends, OnWire
<1>5. BatchOrder' /\ WireOrder'
  BY <1>1, <1>2, <1>3, <1>4 DEF OrderInv, BatchOrder, WireOrder, Older
<1>6. LogOrder'
  <2>1. SUFFICES ASSUME NEW e \in Committed, NEW j \in DOMAIN log', Older(e, log'[j])
                 PROVE  \E i \in 1..(j - 1) : log'[i] = e
    BY <1>2 DEF LogOrder, Older
  <2>2. /\ Len(log) \in Nat /\ DOMAIN log = 1..Len(log)
        /\ DOMAIN log' = 1..(Len(log) + 1)
        /\ \A i \in 1..Len(log) : log'[i] = log[i]
        /\ log'[Len(log) + 1] = g
    BY <1>2
  <2>3. CASE j \in 1..Len(log)
    <3>1. PICK i \in 1..(j - 1) : log[i] = e
      BY <1>1, <2>1, <2>2, <2>3 DEF OrderInv, LogOrder
    <3>2. i \in 1..Len(log)
      BY <2>2, <2>3
    <3>3. QED
      BY <2>2, <3>1, <3>2
  <2>4. CASE j = Len(log) + 1
    <3>1. e \in Range(log)
      BY <1>1, <1>2, <2>1, <2>2, <2>4 DEF OrderInv, WireOrder
    <3>2. PICK i \in 1..Len(log) : log[i] = e
      BY <2>2, <3>1 DEF Range
    <3>3. QED
      BY <2>2, <2>4, <3>2
  <2>5. QED
    BY <2>1, <2>2, <2>3, <2>4
<1>7. QED
  BY <1>5, <1>6 DEF OrderInv

\* Every step of the system keeps the order.
LEMMA NextOrder == IInv /\ OrderInv /\ [Next]_vars => OrderInv'
<1>1. SUFFICES ASSUME IInv, OrderInv, [Next]_vars PROVE OrderInv'
  OBVIOUS
<1>2. wire \in [Event -> Nat] /\ TypeOK
  BY <1>1 DEF IInv, TypeOK
<1>3. CASE Writer
  BY <1>1, <1>3, WriterOrder
<1>4. CASE StartRound
  BY <1>1, <1>4, StartRoundOrder
<1>5. CASE SendOk
  BY <1>1, <1>5, SendOkOrder
<1>6. CASE SendFails
  <2>1. Current \in Event
    <3>1. sent + 1 \in 1..Len(batch) /\ batch \in Seq(Event)
      BY <1>1, <1>6 DEF IInv, TypeOK, RoundInv, SendFails
    <3>2. QED
      BY <3>1 DEF Current
  <2>2. OnWire' \subseteq OnWire
    BY <1>2, <1>6, <2>1 DEF SendFails, OnWire
  <2>3. /\ UNCHANGED <<tx, created, overtaken, log>>
        /\ batch' = batch \/ batch' = <<>>
    BY <1>6 DEF SendFails, EndRound, writerVars
  <2>4. Committed' = Committed
    BY <2>3 DEF Committed
  <2>5. QED
    BY <1>1, <2>2, <2>3, <2>4, ShrinkOrder
<1>7. CASE MarkPublished \/ MarkFails
  <2>1. /\ UNCHANGED <<tx, created, overtaken, log, wire>>
        /\ batch' = <<>>
    BY <1>7 DEF MarkPublished, MarkFails, EndRound, writerVars
  <2>2. Committed' = Committed /\ OnWire' \subseteq OnWire
    BY <2>1 DEF Committed, OnWire
  <2>3. QED
    BY <1>1, <2>1, <2>2, ShrinkOrder
<1>8. CASE Broker
  BY <1>1, <1>8, BrokerOrder
<1>9. CASE Crash
  <2>1. /\ UNCHANGED <<created, overtaken, log>>
        /\ batch' = <<>>
    BY <1>9 DEF Crash, EndRound
  <2>2. Committed' = Committed /\ OnWire' \subseteq OnWire
    BY <1>2, <1>9 DEF Crash, Committed, OnWire, TypeOK
  <2>3. QED
    BY <1>1, <2>1, <2>2, ShrinkOrder
<1>10. CASE EmptyRound \/ UNCHANGED vars
  BY <1>1, <1>10 DEF EmptyRound, vars, writerVars, roundVars, OrderInv, BatchOrder, WireOrder,
     LogOrder, Older, Committed, OnWire
<1>11. QED
  BY <1>1, <1>3, <1>4, <1>5, <1>6, <1>7, <1>8, <1>9, <1>10 DEF Next, Relay

\* First(e) is the least place of e on the topic.
LEMMA FirstIsLeast ==
    ASSUME log \in Seq(Event), NEW e \in Range(log)
    PROVE  /\ First(e) \in DOMAIN log
           /\ log[First(e)] = e
           /\ \A j \in 1..(First(e) - 1) : log[j] # e
<1> DEFINE Places == {i \in DOMAIN log : log[i] = e}
<1>1. Places \subseteq Nat /\ Places # {}
  BY DEF Range
<1>2. PICK m \in Places : \A i \in Places : m <= i
  <2>1. IsWellFoundedOn({p \in Nat \X Nat : p[1] < p[2]}, Nat)
    BY NatLessThanWellFounded, SMT DEF OpToRel
  <2>2. PICK m \in Places : \A i \in Places : ~(<<i, m>> \in {p \in Nat \X Nat : p[1] < p[2]})
    BY <1>1, <2>1, WFMin
  <2>3. \A i \in Places : ~(i < m)
    BY <1>1, <2>2
  <2>4. QED
    BY <1>1, <2>3
<1>3. m \in DOMAIN log /\ log[m] = e /\ \A j \in 1..(m - 1) : log[j] # e
  <2>1. SUFFICES ASSUME NEW j \in 1..(m - 1), log[j] = e PROVE FALSE
    BY <1>2
  <2>2. j \in DOMAIN log /\ ~(m <= j)
    BY <1>1, <1>2, <2>1
  <2>3. QED
    BY <1>2, <2>1, <2>2
<1>4. QED
  BY <1>3 DEF First

-----------------------------------------------------------------------------
(* The account of duplicates. A row the relay has been through, or is at,   *)
(* had one request for free; every further copy, on the topic or still on   *)
(* the wire, is paid for by a fault.                                        *)

Covered ==
    published \cup Produced \cup (IF phase = "sending" THEN {Current} ELSE {})

Free(e) == IF e \in Covered THEN 1 ELSE 0

CopiesInv ==
    /\ phase = "idle" => sent = 0
    /\ IsInjective(batch)
    /\ \A e \in Event : Copies(e) + wire[e] <= faults + Free(e)

\* One more entry is one more copy of it, and of nothing else.
LEMMA CopiesAppend ==
    ASSUME log \in Seq(Event), NEW g \in Event, log' = Append(log, g), NEW e \in Event
    PROVE  /\ Copies(e) \in Nat
           /\ Copies(e)' = IF e = g THEN Copies(e) + 1 ELSE Copies(e)
<1> DEFINE P == {i \in DOMAIN log : log[i] = e}
<1>1. /\ Len(log) \in Nat /\ DOMAIN log = 1..Len(log)
      /\ DOMAIN log' = 1..(Len(log) + 1)
      /\ \A i \in 1..Len(log) : log'[i] = log[i]
      /\ log'[Len(log) + 1] = g
  OBVIOUS
<1>2. IsFiniteSet(P)
  <2>1. IsFiniteSet(1..Len(log))
    BY <1>1, FS_Interval
  <2>2. P \subseteq 1..Len(log)
    BY <1>1
  <2>3. QED
    BY <2>1, <2>2, FS_Subset
<1>3. Len(log) + 1 \notin P
  BY <1>1
<1>4. Copies(e)' = Cardinality(IF e = g THEN P \cup {Len(log) + 1} ELSE P)
  <2>1. {i \in DOMAIN log' : log'[i] = e} = IF e = g THEN P \cup {Len(log) + 1} ELSE P
    BY <1>1
  <2>2. QED
    BY <2>1 DEF Copies
<1>5. Cardinality(P \cup {Len(log) + 1}) = Cardinality(P) + 1
  BY <1>2, <1>3, FS_AddElement
<1>6. QED
  BY <1>2, <1>4, <1>5, FS_CardinalityType DEF Copies

LEMMA CopiesNat ==
    ASSUME log \in Seq(Event), NEW e \in Event
    PROVE  Copies(e) \in Nat
<1>1. Len(log) \in Nat /\ DOMAIN log = 1..Len(log)
  OBVIOUS
<1>2. IsFiniteSet({i \in DOMAIN log : log[i] = e})
  <2>1. IsFiniteSet(1..Len(log))
    BY <1>1, FS_Interval
  <2>2. {i \in DOMAIN log : log[i] = e} \subseteq 1..Len(log)
    BY <1>1
  <2>3. QED
    BY <2>1, <2>2, FS_Subset
<1>3. QED
  BY <1>2, FS_CardinalityType DEF Copies

\* Nothing is copied before anything was written.
LEMMA InitCopies == Init => CopiesInv
<1>1. SUFFICES ASSUME Init PROVE CopiesInv
  OBVIOUS
<1>2. phase = "idle" /\ sent = 0 /\ batch = <<>> /\ log = <<>> /\ faults = 0
  BY <1>1 DEF Init
<1>3. ASSUME NEW e \in Event PROVE Copies(e) + wire[e] <= faults + Free(e)
  <2>1. {i \in DOMAIN log : log[i] = e} = {}
    BY <1>2
  <2>2. Copies(e) = 0
    BY <2>1, FS_EmptySet DEF Copies
  <2>3. wire[e] = 0 /\ Free(e) \in {0, 1}
    BY <1>1 DEF Init, Free
  <2>4. QED
    BY <1>2, <2>2, <2>3
<1>4. IsInjective(batch)
  BY <1>2 DEF IsInjective
<1>5. QED
  BY <1>2, <1>3, <1>4 DEF CopiesInv

\* A step that costs a fault, adds no copy and puts no request on the wire
\* may forget one row it was at.
LEMMA FaultyCopies ==
    ASSUME IInv, CopiesInv, IInv', log' = log, faults' = faults + 1,
           \A e \in Event : wire'[e] <= wire[e],
           phase' = "idle" => sent' = 0, IsInjective(batch')
    PROVE  CopiesInv'
<1>1. SUFFICES ASSUME NEW e \in Event
               PROVE  Copies(e)' + wire'[e] <= faults' + Free(e)'
  BY DEF CopiesInv
<1>2. Copies(e)' = Copies(e)
  BY DEF Copies
<1>3. /\ Copies(e) \in Nat /\ wire[e] \in Nat /\ wire'[e] \in Nat /\ faults \in Nat
  BY CopiesNat DEF IInv, TypeOK
<1>4. Copies(e) + wire[e] <= faults + Free(e)
  BY DEF CopiesInv
<1>5. Free(e) \in {0, 1} /\ Free(e)' \in {0, 1}
  BY DEF Free
<1>6. wire'[e] <= wire[e]
  OBVIOUS
<1>7. QED
  BY <1>2, <1>3, <1>4, <1>5, <1>6

\* A step that adds no copy and changes nothing on the wire must keep what the
\* relay has covered.
LEMMA QuietCopies ==
    ASSUME CopiesInv, log' = log, wire' = wire, faults' = faults,
           Covered \subseteq Covered', faults \in Nat,
           phase' = "idle" => sent' = 0, IsInjective(batch'),
           TypeOK
    PROVE  CopiesInv'
<1>1. SUFFICES ASSUME NEW e \in Event
               PROVE  Copies(e)' + wire'[e] <= faults' + Free(e)'
  BY DEF CopiesInv
<1>2. Copies(e)' = Copies(e)
  BY DEF Copies
<1>3. Copies(e) \in Nat /\ wire[e] \in Nat
  BY CopiesNat DEF TypeOK
<1>4. Copies(e) + wire[e] <= faults + Free(e)
  BY DEF CopiesInv
<1>5. Free(e) \in {0, 1} /\ Free(e)' \in {0, 1} /\ Free(e) <= Free(e)'
  BY DEF Free
<1>6. QED
  BY <1>2, <1>3, <1>4, <1>5

\* The relay hands the broker a row it has not been at before.
LEMMA ProduceCopies ==
    ASSUME TypeOK, CopiesInv, log' = log, faults' = faults,
           NEW f \in Event, wire' = [wire EXCEPT ![f] = @ + 1],
           f \notin Covered, Covered \cup {f} \subseteq Covered',
           phase' = "idle" => sent' = 0, IsInjective(batch')
    PROVE  CopiesInv'
<1>1. SUFFICES ASSUME NEW e \in Event
               PROVE  Copies(e)' + wire'[e] <= faults' + Free(e)'
  BY DEF CopiesInv
<1>2. Copies(e)' = Copies(e)
  BY DEF Copies
<1>3. Copies(e) \in Nat /\ wire[e] \in Nat /\ faults \in Nat
  BY CopiesNat DEF TypeOK
<1>4. wire'[e] = IF e = f THEN wire[e] + 1 ELSE wire[e]
  BY DEF TypeOK
<1>5. Copies(e) + wire[e] <= faults + Free(e)
  BY DEF CopiesInv
<1>6. /\ Free(e) \in {0, 1} /\ Free(e)' \in {0, 1} /\ Free(e) <= Free(e)'
      /\ e = f => Free(e) = 0 /\ Free(e)' = 1
  BY DEF Free
<1>7. QED
  BY <1>2, <1>3, <1>4, <1>5, <1>6

\* A round starts with rows that are not marked, so none of them is covered.
LEMMA StartRoundCopies == IInv /\ CopiesInv /\ StartRound => CopiesInv'
<1>1. SUFFICES ASSUME IInv, CopiesInv, StartRound PROVE CopiesInv'
  OBVIOUS
<1>2. TypeOK /\ batch' \in FindUnpublished /\ sent' = 0 /\ phase' = "sending"
  BY <1>1 DEF IInv, StartRound
<1>3. /\ batch' \in Seq(Event) /\ Len(batch') > 0
      /\ Range(batch') \subseteq Unpublished /\ IsInjective(batch')
  BY <1>1, <1>2, BatchNonEmpty, BatchSorted DEF StartRound
<1>4. batch'[1] \in Event /\ batch'[1] \in Unpublished
  BY <1>3 DEF Range
<1>5. Covered = published
  <2>1. sent = 0 /\ phase = "idle"
    BY <1>1 DEF CopiesInv, StartRound
  <2>2. Produced = {}
    BY <2>1 DEF Produced
  <2>3. QED
    BY <2>1, <2>2 DEF Covered
<1>6. published \cup {batch'[1]} \subseteq Covered'
  BY <1>1, <1>2 DEF Covered, Current, StartRound
<1>7. QED
  BY <1>1, <1>2, <1>3, <1>4, <1>5, <1>6, ProduceCopies DEF StartRound, Unpublished

\* The entry after an acknowledged one is a different row, because the batch
\* holds each row once.
LEMMA SendOkCopies == IInv /\ CopiesInv /\ SendOk => CopiesInv'
<1>1. SUFFICES ASSUME IInv, CopiesInv, SendOk PROVE CopiesInv'
  OBVIOUS
<1>2. /\ TypeOK /\ sent \in Nat /\ sent' = sent + 1 /\ sent < Len(batch)
      /\ batch \in Seq(Event) /\ faults \in Nat
      /\ phase = "sending" /\ IsInjective(batch)
      /\ UNCHANGED <<batch, published, log, faults>>
  BY <1>1 DEF IInv, TypeOK, RoundInv, CopiesInv, SendOk
<1>3. Covered = published \cup {batch[i] : i \in 1..sent'}
  <2>1. 1..sent' = (1..sent) \cup {sent + 1}
    BY <1>2
  <2>2. QED
    BY <1>2, <2>1 DEF Covered, Produced, Current
<1>4. Covered \subseteq Covered'
  BY <1>2, <1>3 DEF Covered, Produced
<1>5. CASE sent' < Len(batch)
  <2>1. phase' = "sending" /\ wire' = [wire EXCEPT ![batch[sent' + 1]] = @ + 1]
    BY <1>1, <1>2, <1>5 DEF SendOk
  <2>2. sent' + 1 \in DOMAIN batch /\ batch[sent' + 1] \in Event
    BY <1>2, <1>5
  <2>3. batch[sent' + 1] \notin Covered
    <3>1. batch[sent' + 1] \notin published
      BY <1>1, <2>2 DEF IInv, BatchUnmarked, Range
    <3>2. ASSUME NEW i \in 1..sent', batch[i] = batch[sent' + 1] PROVE FALSE
      <4>1. i \in DOMAIN batch /\ i # sent' + 1
        BY <1>2
      <4>2. QED
        BY <1>2, <2>2, <3>2, <4>1 DEF IsInjective
    <3>3. QED
      BY <1>3, <3>1, <3>2
  <2>4. batch[sent' + 1] \in Covered'
    BY <1>2, <2>1 DEF Covered, Current
  <2>5. QED
    BY <1>1, <1>2, <1>4, <2>1, <2>2, <2>3, <2>4, ProduceCopies
<1>6. CASE ~(sent' < Len(batch))
  <2>1. wire' = wire /\ phase' = "marking"
    BY <1>1, <1>6 DEF SendOk
  <2>2. QED
    BY <1>1, <1>2, <1>4, <2>1, QuietCopies
<1>7. QED
  BY <1>5, <1>6

\* A request the broker writes leaves the wire, or a copy stays for a fault.
LEMMA BrokerCopies == IInv /\ CopiesInv /\ Broker => CopiesInv'
<1>1. SUFFICES ASSUME IInv, CopiesInv, NEW g \in Event, BrokerAppends(g),
                      NEW e \in Event
               PROVE  Copies(e)' + wire'[e] <= faults' + Free(e)'
  BY DEF Broker, CopiesInv, BrokerAppends
<1>2. /\ wire \in [Event -> Nat] /\ log \in Seq(Event) /\ faults \in Nat
      /\ log' = Append(log, g) /\ wire[g] > 0
      /\ UNCHANGED <<phase, batch, sent, published>>
  BY <1>1 DEF IInv, TypeOK, BrokerAppends
<1>3. /\ Copies(e) \in Nat
      /\ Copies(e)' = IF e = g THEN Copies(e) + 1 ELSE Copies(e)
  BY <1>2, CopiesAppend
<1>4. Free(e)' = Free(e) /\ Free(e) \in {0, 1}
  BY <1>2 DEF Free, Covered, Produced, Current
<1>5. Copies(e) + wire[e] <= faults + Free(e)
  BY <1>1 DEF CopiesInv
<1>6. CASE wire' = [wire EXCEPT ![g] = @ - 1] /\ faults' = faults
  BY <1>2, <1>3, <1>4, <1>5, <1>6
<1>7. CASE wire' = wire /\ faults' = faults + 1
  BY <1>2, <1>3, <1>4, <1>5, <1>7
<1>8. QED
  BY <1>1, <1>6, <1>7 DEF BrokerAppends, Fault

\* Every step of the system keeps the account.
LEMMA NextCopies == IInv /\ IInv' /\ CopiesInv /\ [Next]_vars => CopiesInv'
<1>1. SUFFICES ASSUME IInv, IInv', CopiesInv, [Next]_vars PROVE CopiesInv'
  OBVIOUS
<1>2. TypeOK /\ faults \in Nat /\ wire \in [Event -> Nat] /\ IsInjective(batch)
  <2>1. TypeOK /\ faults \in Nat /\ wire \in [Event -> Nat]
    BY <1>1 DEF IInv, TypeOK
  <2>2. IsInjective(batch)
    BY <1>1 DEF CopiesInv
  <2>3. QED
    BY <2>1, <2>2
<1>3. IsInjective(<<>>)
  BY DEF IsInjective
<1>4. CASE StartRound
  BY <1>1, <1>4, StartRoundCopies
<1>5. CASE SendOk
  BY <1>1, <1>5, SendOkCopies
<1>6. CASE SendFails
  <2>1. \A e \in Event : wire'[e] <= wire[e]
    BY <1>2, <1>6 DEF SendFails
  <2>2. /\ phase' = "idle" => sent' = 0
        /\ batch' = batch \/ batch' = <<>>
        /\ log' = log /\ faults' = faults + 1
    BY <1>6 DEF SendFails, EndRound, Fault
  <2>3. IsInjective(batch')
    BY <1>2, <1>3, <2>2
  <2>4. QED
    BY <1>1, <2>1, <2>2, <2>3, FaultyCopies
<1>7. CASE MarkPublished
  <2>1. /\ phase' = "idle" /\ sent' = 0 /\ batch' = <<>>
        /\ published' = published \cup Produced /\ phase = "marking"
        /\ UNCHANGED <<log, wire, faults>>
    BY <1>7 DEF MarkPublished, EndRound
  <2>2. Covered \subseteq Covered'
    BY <2>1 DEF Covered
  <2>3. IsInjective(batch')
    BY <1>3, <2>1
  <2>4. QED
    BY <1>1, <1>2, <2>1, <2>2, <2>3, QuietCopies
<1>8. CASE MarkFails
  <2>1. /\ phase' = "idle" /\ sent' = 0 /\ batch' = <<>>
        /\ log' = log /\ wire' = wire /\ faults' = faults + 1
    BY <1>8 DEF MarkFails, EndRound, Fault
  <2>2. \A e \in Event : wire'[e] <= wire[e]
    BY <1>2, <2>1
  <2>3. IsInjective(batch')
    BY <1>3, <2>1
  <2>4. QED
    BY <1>1, <2>1, <2>2, <2>3, FaultyCopies
<1>9. CASE Broker
  BY <1>1, <1>9, BrokerCopies
<1>10. CASE Crash
  <2>1. /\ phase' = "idle" /\ sent' = 0 /\ batch' = <<>>
        /\ log' = log /\ faults' = faults + 1
    BY <1>10 DEF Crash, EndRound, Fault
  <2>2. \A e \in Event : wire'[e] <= wire[e]
    BY <1>2, <1>10 DEF Crash
  <2>3. IsInjective(batch')
    BY <1>3, <2>1
  <2>4. QED
    BY <1>1, <2>1, <2>2, <2>3, FaultyCopies
<1>11. CASE Writer \/ EmptyRound \/ UNCHANGED vars
  <2>1. UNCHANGED <<phase, batch, sent, published, wire, log, faults>>
    BY <1>11 DEF Writer, SaveDomainRow, SaveOutboxRow, CommitTx, AbortTx, EmptyRound,
       vars, roundVars
  <2>2. Covered' = Covered
    BY <2>1 DEF Covered, Produced, Current
  <2>3. phase' = "idle" => sent' = 0
    BY <1>1, <2>1 DEF CopiesInv
  <2>4. QED
    BY <1>1, <1>2, <2>1, <2>2, <2>3, QuietCopies
<1>12. QED
  BY <1>1, <1>4, <1>5, <1>6, <1>7, <1>8, <1>9, <1>10, <1>11 DEF Next, Relay

-----------------------------------------------------------------------------

\* The inductive invariant holds in every reachable state.
THEOREM Invariance == Spec => []IInv
<1>1. QED
  BY InitIInv, NextIInv, PTL DEF Spec

\* Type correctness of the outbox: the relay's count never leaves its batch,
\* whatever fails (relayRound, publishBatch).
THEOREM TypeCorrect == Spec => []TypeOK
<1>1. IInv => TypeOK
  BY DEF IInv
<1>2. QED
  BY <1>1, Invariance, PTL

\* Nothing reaches the wire or the topic before the transaction that wrote it
\* committed (save inside TransactionManager.execute, findUnpublished).
THEOREM OnlyCommittedReachesTopic == Spec => []OnlyCommittedOnTopic
<1>1. IInv => OnlyCommittedOnTopic
  BY DEF IInv
<1>2. QED
  BY <1>1, Invariance, PTL

\* A row marked published is on the topic: no crash, failed send or failed
\* update makes the relay lose an event (publishBatch's produce-before-mark).
THEOREM MarkedReachedTopic == Spec => []MarkedIsOnTopic
<1>1. IInv => MarkedIsOnTopic
  BY DEF IInv
<1>2. QED
  BY <1>1, Invariance, PTL

\* A marked row is never handed to the broker again, so duplicates on the
\* topic come only from rounds that failed before marking.
THEOREM MarkedStaysSilent == Spec => MarkedNeverResent
<1>1. QED
  BY Invariance, StepNeverResends, PTL DEF Spec, MarkedNeverResent

\* The topic follows created_at except where a row committed after the relay
\* had taken a younger one: failed sends, resent requests and crashes never
\* reorder (findUnpublished's order, the loop that stops at the first failure).
THEOREM TopicFollowsCreation == Spec => []FifoExceptLateCommit
<1>1. IInv /\ OrderInv => FifoExceptLateCommit
  <2>1. SUFFICES ASSUME IInv, OrderInv, NEW e \in Range(log), NEW f \in Range(log),
                        Older(e, f)
                 PROVE  First(e) < First(f)
    BY DEF FifoExceptLateCommit, Older
  <2>2. log \in Seq(Event) /\ e \in Committed
    BY <2>1 DEF IInv, TypeOK, OnlyCommittedOnTopic, InRelay
  <2>3. First(f) \in DOMAIN log /\ log[First(f)] = f
    BY <2>1, <2>2, FirstIsLeast
  <2>4. PICK i \in 1..(First(f) - 1) : log[i] = e
    BY <2>1, <2>2, <2>3 DEF OrderInv, LogOrder
  <2>5. First(e) \in DOMAIN log /\ \A j \in 1..(First(e) - 1) : log[j] # e
    BY <2>1, <2>2, FirstIsLeast
  <2>6. QED
    BY <2>2, <2>3, <2>4, <2>5
<1>2. Init => IInv /\ OrderInv
  BY InitIInv, InitOrder
<1>3. IInv /\ OrderInv /\ [Next]_vars => (IInv /\ OrderInv)'
  BY NextIInv, NextOrder
<1>4. QED
  BY <1>1, <1>2, <1>3, PTL DEF Spec

\* Every copy of an event beyond the first is owed to a fault of its own: the
\* relay alone never duplicates (publishBatch marks before the next round reads).
THEOREM EveryDuplicateHasItsFault == Spec => []DuplicatesNeedFaults
<1>1. IInv /\ CopiesInv => DuplicatesNeedFaults
  <2>1. SUFFICES ASSUME IInv, CopiesInv, NEW e \in Range(log)
                 PROVE  Copies(e) <= 1 + faults
    BY DEF DuplicatesNeedFaults
  <2>2. e \in Event /\ log \in Seq(Event) /\ wire[e] \in Nat /\ faults \in Nat
    BY <2>1 DEF IInv, TypeOK, Range
  <2>3. Copies(e) \in Nat
    BY <2>2, CopiesNat
  <2>4. Copies(e) + wire[e] <= faults + Free(e)
    BY <2>1, <2>2 DEF CopiesInv
  <2>5. Free(e) \in {0, 1}
    BY DEF Free
  <2>6. QED
    BY <2>2, <2>3, <2>4, <2>5
<1>2. Init => IInv /\ CopiesInv
  BY InitIInv, InitCopies
<1>3. IInv /\ CopiesInv /\ [Next]_vars => (IInv /\ CopiesInv)'
  BY NextIInv, NextCopies
<1>4. QED
  BY <1>1, <1>2, <1>3, PTL DEF Spec

-----------------------------------------------------------------------------
(* The backbone.  The refinement of EventDelivery needs both components'    *)
(* invariants and what ties them together: the consumer only ever met       *)
(* events that are on the topic, so their rows are committed (the status    *)
(* never skips "stored"), and an event that a fault gave up is never met    *)
(* in a session again (its status never changes a second time).             *)

Loop == INSTANCE ConsumerLoopProofs WITH
    Message <- Event, Malformed <- {}, Garbled <- {}, MaxLog <- 0

LoopOnTopic ==
    /\ processed \subseteq Range(log)
    /\ interrupted \subseteq processed
    /\ \A e \in interrupted : handled[e] = 0
    /\ Loop!InSession => Loop!Current \notin interrupted

BackboneInv == IInv /\ Loop!IInv /\ LoopOnTopic

\* The consumer's proofs apply to the consumer of the backbone.
LEMMA LoopAssumptions ==
    Loop!ClassAssumption /\ Loop!MaxAttemptsAssumption /\ Loop!LoopFaultsAssumption
BY PoisonAssumption, AttemptsAssumption, MaxFaultsAssumption
DEF Loop!ClassAssumption, Loop!MaxAttemptsAssumption, Loop!LoopFaultsAssumption

LEMMA LoopStep == Consumer!LoopNext => Loop!LoopNext
BY DEF Consumer!LoopNext, Loop!LoopNext, Consumer!HandleMessage, Loop!HandleMessage,
   Consumer!Receive, Loop!Receive, Consumer!Claim, Loop!Claim, Consumer!Skip, Loop!Skip,
   Consumer!ClaimFails, Loop!ClaimFails, Consumer!Parse, Loop!Parse,
   Consumer!HandlerReturns, Loop!HandlerReturns, Consumer!HandlerThrows, Loop!HandlerThrows,
   Consumer!DeadLetter, Loop!DeadLetter, Consumer!DeadLetterFails, Loop!DeadLetterFails,
   Consumer!AutoCommit, Loop!AutoCommit, Consumer!Restart, Loop!Restart,
   Consumer!PollEmpty, Loop!PollEmpty, Consumer!Current, Loop!Current,
   Consumer!Resolve, Loop!Resolve, Consumer!Interrupt, Loop!Interrupt,
   Consumer!RedeliverFrom, Loop!RedeliverFrom, Consumer!Redeliver, Loop!Redeliver,
   Consumer!Fault, Loop!Fault, Consumer!vars, Loop!vars, Consumer!loopVars, Loop!loopVars,
   Consumer!historyVars, Loop!historyVars

LEMMA LoopInvStep == Loop!IInv /\ Consumer!LoopNext => Loop!IInv'
<1>1. Loop!LoopNext => Loop!Next
  BY DEF Loop!Next
<1>2. QED
  BY <1>1, LoopStep, LoopAssumptions, Loop!NextIInv

\* The consumer writes nothing to the topic.
LEMMA LoopReadsTopic == Loop!LoopNext => UNCHANGED log
BY DEF Loop!LoopNext, Loop!HandleMessage, Loop!Receive, Loop!Claim, Loop!Skip,
   Loop!ClaimFails, Loop!Parse, Loop!HandlerReturns, Loop!HandlerThrows, Loop!DeadLetter,
   Loop!DeadLetterFails, Loop!AutoCommit, Loop!Restart, Loop!PollEmpty, Loop!vars

-----------------------------------------------------------------------------

\* Only the handler, the dead-letter topic and a fault in the claimed session
\* decide an event; each meets the session's current event.
Decides(c) ==
    /\ c \in Event
    /\ c \in Range(log)
    /\ c \notin interrupted
    /\ handled[c] = 0 /\ dlq[c] = 0

\* The event of a running session is such an event.
LEMMA SessionDecides ==
    ASSUME BackboneInv, Loop!InSession
    PROVE  Decides(Loop!Current) /\ Loop!Current \in processed
<1>1. Loop!Current \in processed /\ handled[Loop!Current] = 0 /\ dlq[Loop!Current] = 0
  BY DEF BackboneInv, Loop!IInv, Loop!Session, Loop!InSession
<1>2. processed \subseteq Event
  BY DEF BackboneInv, Loop!IInv, Loop!TypeOK
<1>3. QED
  BY <1>1, <1>2 DEF BackboneInv, LoopOnTopic, Decides

\* So is an event about to be claimed for the first time.
LEMMA ClaimDecides ==
    ASSUME BackboneInv, pc = "dedup", Loop!Current \notin processed
    PROVE  Decides(Loop!Current)
<1> DEFINE c == Loop!Current
<1>1. log \in Seq(Event) /\ position \in Nat /\ position < Len(log)
  BY DEF BackboneInv, Loop!IInv, Loop!TypeOK, Loop!Session
<1>2. position + 1 \in DOMAIN log
  BY <1>1
<1>3. c \in Range(log) /\ c \in Event
  BY <1>1, <1>2 DEF Range, Loop!Current
<1>4. handled[c] = 0 /\ dlq[c] = 0
  BY <1>3 DEF BackboneInv, Loop!IInv, Loop!UnclaimedUntouched
<1>5. QED
  BY <1>3, <1>4 DEF BackboneInv, LoopOnTopic, Decides

\* Until it is decided, an event on the topic has the status "stored".
LEMMA DecidedWasStored ==
    ASSUME BackboneInv, NEW c, Decides(c) PROVE Status(c) = "stored"
<1>1. tx[c] = "committed"
  BY DEF Decides, BackboneInv, IInv, OnlyCommittedOnTopic, InRelay, Committed
<1>2. QED
  BY <1>1 DEF Decides, Status, GivenUp

\* One event moving on, and no other, is a step of EventDelivery.
LEMMA Settles ==
    ASSUME NEW c \in Event, NEW o \in {"handled", "deadLettered", "lost"},
           Status(c) = "stored", Status(c)' = o,
           \A e \in Event \ {c} : Status(e)' = Status(e)
    PROVE  Delivery!Next
BY DEF Delivery!Next, Delivery!Settle, Delivery!Outcome

LEMMA Stores ==
    ASSUME NEW c \in Event, Status(c) = "absent", Status(c)' = "stored",
           \A e \in Event \ {c} : Status(e)' = Status(e)
    PROVE  Delivery!Next
BY DEF Delivery!Next, Delivery!Store

\* A step of the consumer settles its current event or changes no status.
LEMMA LoopSettles ==
    ASSUME BackboneInv, Loop!LoopNext, UNCHANGED tx
    PROVE  [Delivery!Next]_([e \in Event |-> Status(e)])
<1>0. PICK c : c = Loop!Current
  OBVIOUS
<1> DEFINE Same(S) == \A e \in S : Status(e)' = Status(e)
<1>1. /\ handled \in [Event -> Nat] /\ dlq \in [Event -> Nat]
  BY DEF BackboneInv, Loop!IInv, Loop!TypeOK
<1>2. ASSUME UNCHANGED <<handled, dlq, interrupted>>
      PROVE  Same(Event)
  BY <1>2 DEF Status, GivenUp
<1>3. ASSUME Decides(c), UNCHANGED <<handled, dlq>>, interrupted' = interrupted \cup {c}
      PROVE  Delivery!Next
  <2>1. Status(c)' = "lost"
    BY <1>3 DEF Status, GivenUp, Decides
  <2>2. Same(Event \ {c})
    BY <1>3 DEF Status, GivenUp
  <2>3. QED
    BY <1>3, <2>1, <2>2, DecidedWasStored, Settles DEF Decides
<1>4. ASSUME Decides(c), UNCHANGED handled, dlq' = [dlq EXCEPT ![c] = @ + 1],
             interrupted' \in {interrupted, interrupted \cup {c}}
      PROVE  Delivery!Next
  <2>1. dlq'[c] = 1 /\ \A e \in Event \ {c} : dlq'[e] = dlq[e]
    BY <1>1, <1>4 DEF Decides
  <2>2. Status(c)' = "deadLettered"
    <3>1. handled'[c] = 0 /\ dlq'[c] = 1 /\ ~(handled'[c] + dlq'[c] > 1)
      BY <1>4, <2>1 DEF Decides
    <3>2. QED
      BY <3>1 DEF Status, GivenUp
  <2>3. Same(Event \ {c})
    BY <1>4, <2>1 DEF Status, GivenUp
  <2>4. QED
    BY <1>4, <2>2, <2>3, DecidedWasStored, Settles DEF Decides
<1>5. CASE Loop!HandlerReturns
  <2>1. Decides(c)
    BY <1>0, <1>5, SessionDecides DEF Loop!HandlerReturns, Loop!InSession
  <2>2. handled'[c] = 1 /\ \A e \in Event \ {c} : handled'[e] = handled[e]
    BY <1>0, <1>1, <1>5, <2>1 DEF Loop!HandlerReturns, Decides
  <2>3. UNCHANGED <<dlq, interrupted>>
    BY <1>5 DEF Loop!HandlerReturns
  <2>4. Status(c)' = "handled"
    <3>1. handled'[c] = 1 /\ dlq'[c] = 0 /\ ~(handled'[c] + dlq'[c] > 1)
      BY <2>1, <2>2, <2>3 DEF Decides
    <3>2. QED
      BY <3>1 DEF Status, GivenUp
  <2>5. Same(Event \ {c})
    BY <2>2, <2>3 DEF Status, GivenUp
  <2>6. QED
    BY <2>1, <2>4, <2>5, DecidedWasStored, Settles DEF Decides
<1>6. CASE Loop!DeadLetter
  BY <1>0, <1>4, <1>6, SessionDecides DEF Loop!DeadLetter, Loop!InSession, Loop!historyVars
<1>7. CASE Loop!DeadLetterFails
  <2>1. Decides(c) /\ c \in processed
    BY <1>0, <1>7, SessionDecides DEF Loop!DeadLetterFails, Loop!InSession
  <2>2. interrupted' = interrupted \cup {c} /\ UNCHANGED handled
    BY <1>0, <1>7, <2>1 DEF Loop!DeadLetterFails, Loop!Interrupt
  <2>3. QED
    BY <1>0, <1>3, <1>4, <1>7, <2>1, <2>2 DEF Loop!DeadLetterFails
<1>8. CASE Loop!Restart
  <2>1. UNCHANGED <<handled, dlq>>
    BY <1>8 DEF Loop!Restart
  <2>2. CASE Loop!InSession
    <3>1. Decides(c) /\ c \in processed
      BY <1>0, <2>2, SessionDecides
    <3>2. interrupted' = interrupted \cup {c}
      BY <1>0, <1>8, <2>2, <3>1 DEF Loop!Restart, Loop!Interrupt, Loop!InSession
    <3>3. QED
      BY <1>3, <2>1, <3>1, <3>2
  <2>3. CASE ~Loop!InSession
    BY <1>2, <1>8, <2>1, <2>3 DEF Loop!Restart, Loop!Interrupt, Loop!InSession
  <2>4. QED
    BY <2>2, <2>3
<1>9. CASE Loop!ClaimFails
  BY <1>0, <1>2, <1>3, <1>9, ClaimDecides DEF Loop!ClaimFails
<1>10. CASE \/ Loop!Receive \/ Loop!Claim \/ Loop!Skip \/ Loop!Parse
            \/ Loop!HandlerThrows \/ Loop!AutoCommit \/ Loop!PollEmpty
  BY <1>2, <1>10 DEF Loop!Receive, Loop!Claim, Loop!Skip, Loop!Parse, Loop!HandlerThrows,
     Loop!AutoCommit, Loop!PollEmpty, Loop!vars, Loop!loopVars, Loop!historyVars
<1>11. QED
  BY <1>5, <1>6, <1>7, <1>8, <1>9, <1>10 DEF Loop!LoopNext, Loop!HandleMessage

\* What the consumer claims is on the topic, and what it gives up is claimed.
LEMMA LoopKeepsTopic ==
    ASSUME BackboneInv, Loop!LoopNext PROVE LoopOnTopic'
<1> DEFINE c == Loop!Current
<1>1. log' = log
  BY LoopReadsTopic
<1>2. CASE Loop!Receive \/ Loop!Skip \/ Loop!Parse \/ Loop!HandlerThrows \/ Loop!AutoCommit
           \/ Loop!PollEmpty
  BY <1>1, <1>2 DEF BackboneInv, LoopOnTopic, Loop!Receive, Loop!Skip, Loop!Parse, Loop!HandlerThrows, Loop!AutoCommit,
     Loop!PollEmpty, Loop!vars, Loop!loopVars, Loop!historyVars, Loop!Resolve, Loop!InSession, Loop!Current
<1>3. CASE Loop!Claim
  BY <1>1, <1>3, ClaimDecides DEF BackboneInv, LoopOnTopic, Decides, Loop!Claim, Loop!historyVars,
     Loop!InSession, Loop!Current
<1>4. CASE Loop!ClaimFails
  <2>1. pc' = "idle" /\ UNCHANGED handled
    BY <1>4 DEF Loop!ClaimFails, Loop!Redeliver, Loop!RedeliverFrom
  <2>2. QED
    BY <1>1, <1>4, <2>1, ClaimDecides DEF BackboneInv, LoopOnTopic, Decides, Loop!ClaimFails,
       Loop!InSession
<1>5. CASE Loop!HandlerReturns
  <2>1. Decides(c) /\ handled \in [Event -> Nat] 
    BY <1>5, SessionDecides DEF Loop!HandlerReturns, Loop!InSession, BackboneInv, Loop!IInv, Loop!TypeOK
  <2>2. \A e \in interrupted : handled'[e] = handled[e] 
    BY <1>5, <2>1 DEF Loop!HandlerReturns, Decides, BackboneInv, Loop!IInv, Loop!TypeOK
  <2>3. pc' = "idle" /\ UNCHANGED <<processed, interrupted>>
    BY <1>5 DEF Loop!HandlerReturns, Loop!Resolve
  <2>4. QED
    BY <1>1, <2>2, <2>3 DEF BackboneInv, LoopOnTopic, Loop!InSession
<1>6. CASE Loop!DeadLetter
  BY <1>1, <1>6 DEF BackboneInv, LoopOnTopic, Loop!DeadLetter, Loop!Resolve, Loop!historyVars,
     Loop!InSession
<1>7. CASE Loop!DeadLetterFails \/ Loop!Restart
  <2>1. pc' = "idle" /\ UNCHANGED <<handled, processed>> /\ Loop!Interrupt
    BY <1>7 DEF Loop!DeadLetterFails, Loop!Restart, Loop!Redeliver, Loop!RedeliverFrom
  <2>2. \/ interrupted' = interrupted
        \/ interrupted' = interrupted \cup {c} /\ Decides(c) /\ c \in processed
    BY <2>1, SessionDecides DEF Loop!Interrupt, Loop!InSession
  <2>3. QED
    BY <1>1, <2>1, <2>2 DEF BackboneInv, LoopOnTopic, Decides, Loop!InSession
<1>8. QED
  BY <1>2, <1>3, <1>4, <1>5, <1>6, <1>7 DEF Loop!LoopNext, Loop!HandleMessage

-----------------------------------------------------------------------------

\* Steps of the consumer, seen from the whole backbone.
LEMMA ConsumerMoves ==
    ASSUME BackboneInv, Consumer!LoopNext, UNCHANGED producerVars
    PROVE  BackboneInv' /\ [Delivery!Next]_([e \in Event |-> Status(e)])
<1>1. Loop!LoopNext /\ UNCHANGED <<tx, writerVars, roundVars, published, wire>>
  BY LoopStep DEF producerVars, writerVars
<1>2. Loop!IInv'
  BY LoopInvStep DEF BackboneInv
<1>3. log' = log
  BY <1>1, LoopReadsTopic
<1>4. IInv'
  <2>1. faults' \in 0..MaxFaults
    BY <1>2 DEF Loop!IInv, Loop!TypeOK
  <2>2. QED
    BY <1>1, <1>3, <2>1 DEF BackboneInv, IInv, TypeOK, OnlyCommittedOnTopic, InRelay, OnWire,
       Committed, MarkedIsOnTopic, RoundInv, BatchUnmarked, Current, writerVars, roundVars
<1>5. QED
  BY <1>1, <1>2, <1>4, LoopKeepsTopic, LoopSettles DEF BackboneInv

\* What a step of the producer does to the topic and to the rows.
LEMMA ProducerShape ==
    ASSUME IInv, Next
    PROVE  /\ \/ log' = log
              \/ \E e \in Event : log' = Append(log, e)
           /\ \/ Committed' = Committed
              \/ \E e \in Event \ Committed : Committed' = Committed \cup {e}
<1>1. tx \in [Event -> {"none", "open", "saved", "committed", "aborted"}]
  BY DEF IInv, TypeOK
<1>2. CASE Writer
  <2>1. PICK e \in Event : SaveDomainRow(e) \/ SaveOutboxRow(e) \/ CommitTx(e) \/ AbortTx(e)
    BY <1>2 DEF Writer
  <2>2. log' = log
    BY <2>1 DEF SaveDomainRow, SaveOutboxRow, CommitTx, AbortTx
  <2>3. CASE CommitTx(e)
    BY <1>1, <2>2, <2>3 DEF CommitTx, Committed
  <2>4. CASE SaveDomainRow(e) \/ SaveOutboxRow(e) \/ AbortTx(e)
    BY <1>1, <2>2, <2>4 DEF SaveDomainRow, SaveOutboxRow, AbortTx, Committed
  <2>5. QED
    BY <2>1, <2>3, <2>4
<1>3. CASE Relay
  BY <1>3 DEF Relay, StartRound, EmptyRound, SendOk, SendFails, MarkPublished, MarkFails,
     vars, writerVars, Committed
<1>4. CASE Broker
  BY <1>4 DEF Broker, BrokerAppends, writerVars, Committed
<1>5. CASE Crash
  BY <1>1, <1>5 DEF Crash, Committed
<1>6. QED
  BY <1>2, <1>3, <1>4, <1>5 DEF Next

\* A step of the producer stores at most one event and changes no other status.
LEMMA ProducerMoves ==
    ASSUME BackboneInv, Next, UNCHANGED consumerVars
    PROVE  BackboneInv' /\ [Delivery!Next]_([e \in Event |-> Status(e)])
<1>1. IInv /\ IInv' /\ log \in Seq(Event)
  BY NextIInv DEF BackboneInv, IInv, TypeOK
<1>2. /\ \/ log' = log
         \/ \E e \in Event : log' = Append(log, e)
      /\ \/ Committed' = Committed
         \/ \E e \in Event \ Committed : Committed' = Committed \cup {e}
  BY <1>1, ProducerShape
<1>3. /\ log' \in Seq(Event) /\ Len(log) <= Len(log')
      /\ \A k \in 1..Len(log) : log'[k] = log[k]
  <2>1. CASE log' = log
    BY <1>1, <2>1
  <2>2. ASSUME NEW e \in Event, log' = Append(log, e)
        PROVE  /\ log' \in Seq(Event) /\ Len(log) <= Len(log')
               /\ \A k \in 1..Len(log) : log'[k] = log[k]
    BY <1>1, <2>2
  <2>3. QED
    BY <1>2, <2>1, <2>2
<1>4. UNCHANGED <<committed, position, pc, attempt, processed, dlq, calls,
                  handled, interrupted>>
  BY DEF consumerVars
<1>5. Loop!IInv'
  <2>1. UNCHANGED Loop!loopVars
    BY <1>4 DEF Loop!loopVars, Loop!historyVars
  <2>2. faults' \in 0..MaxFaults
    BY <1>1 DEF IInv, TypeOK
  <2>3. QED
    BY <1>3, <2>1, <2>2, LoopAssumptions, Loop!ProducerStep DEF BackboneInv
<1>6. Range(log) \subseteq Range(log')
  BY <1>1, <1>3 DEF Range
<1>7. LoopOnTopic'
  <2>1. Loop!InSession => position + 1 \in 1..Len(log)
    BY <1>1 DEF BackboneInv, Loop!IInv, Loop!TypeOK, Loop!Session, Loop!InSession
  <2>2. Loop!InSession => Loop!Current' = Loop!Current
    BY <1>3, <1>4, <2>1 DEF Loop!Current
  <2>3. QED
    BY <1>4, <1>6, <2>2 DEF BackboneInv, LoopOnTopic, Loop!InSession
<1>8. \A e \in Event : (e \in Committed' <=> e \in Committed) => Status(e)' = Status(e)
  BY <1>4 DEF Status, GivenUp, Committed
<1>9. ASSUME NEW e \in Event \ Committed, Committed' = Committed \cup {e}
      PROVE  Delivery!Next
  <2>1. e \notin processed /\ e \notin interrupted
    BY <1>1, <1>9 DEF BackboneInv, IInv, OnlyCommittedOnTopic, InRelay, LoopOnTopic
  <2>2. handled[e] = 0 /\ dlq[e] = 0
    BY <1>9, <2>1 DEF BackboneInv, Loop!IInv, Loop!UnclaimedUntouched
  <2>3. Status(e) = "absent" /\ Status(e)' = "stored"
    BY <1>4, <1>9, <2>1, <2>2 DEF Status, GivenUp, Committed
  <2>4. QED
    BY <1>8, <1>9, <2>3, Stores
<1>10. QED
  <2>1. CASE Committed' = Committed
    BY <1>1, <1>5, <1>7, <1>8, <2>1 DEF BackboneInv
  <2>2. QED
    BY <1>1, <1>2, <1>5, <1>7, <1>9, <2>1 DEF BackboneInv

\* Nothing is written, nothing is claimed: every event is absent.
LEMMA InitBackbone == BackboneInit => BackboneInv /\ Delivery!Init
<1>1. SUFFICES ASSUME BackboneInit PROVE BackboneInv /\ Delivery!Init
  OBVIOUS
<1>2. IInv
  BY <1>1, InitIInv DEF BackboneInit
<1>3. Loop!IInv
  <2>1. Loop!Init
    BY <1>1 DEF BackboneInit, Init, Consumer!LoopInit, Loop!Init, Loop!LoopInit
  <2>2. QED
    BY <2>1, LoopAssumptions, Loop!InitIInv
<1>4. LoopOnTopic
  BY <1>1 DEF BackboneInit, Consumer!LoopInit, LoopOnTopic, Loop!InSession
<1>5. \A e \in Event : Status(e) = "absent"
  BY <1>1 DEF BackboneInit, Init, Consumer!LoopInit, Status, GivenUp
<1>6. QED
  BY <1>2, <1>3, <1>4, <1>5 DEF BackboneInv, Delivery!Init

\* Every step keeps the invariant and is a step of EventDelivery or a stutter.
LEMMA StepBackbone ==
    BackboneInv /\ [BackboneNext]_backboneVars =>
        BackboneInv' /\ [Delivery!Next]_([e \in Event |-> Status(e)])
<1>1. SUFFICES ASSUME BackboneInv, [BackboneNext]_backboneVars
               PROVE  BackboneInv' /\ [Delivery!Next]_([e \in Event |-> Status(e)])
  OBVIOUS
<1>2. CASE Next /\ UNCHANGED consumerVars
  BY <1>1, <1>2, ProducerMoves
<1>3. CASE Consumer!LoopNext /\ UNCHANGED producerVars
  BY <1>1, <1>3, ConsumerMoves
<1>4. CASE UNCHANGED backboneVars
  <2>2. UNCHANGED <<producerVars, consumerVars, log, faults>>
    BY <1>4 DEF backboneVars
  <2>3. IInv'
    BY <1>1, <2>2, NextIInv DEF BackboneInv, producerVars, vars
  <2>4. Loop!IInv'
    <3>1. UNCHANGED Loop!vars
      BY <2>2 DEF consumerVars, Loop!vars, Loop!loopVars, Loop!historyVars
    <3>2. QED
      BY <1>1, <3>1, LoopAssumptions, Loop!NextIInv DEF BackboneInv
  <2>5. LoopOnTopic'
    BY <1>1, <2>2 DEF BackboneInv, LoopOnTopic, consumerVars, Loop!InSession, Loop!Current
  <2>6. \A e \in Event : Status(e)' = Status(e)
    BY <2>2 DEF producerVars, writerVars, consumerVars, Status, GivenUp
  <2>7. QED
    BY <2>3, <2>4, <2>5, <2>6 DEF BackboneInv
<1>5. QED
  BY <1>1, <1>2, <1>3, <1>4 DEF BackboneNext

\* The joint invariant of outbox, topic and consumer holds in every reachable
\* state (OutboxRelay and ConsumerLoop over one partition).
THEOREM BackboneInvariance == BackboneSpec => []BackboneInv
<1>1. QED
  BY InitBackbone, StepBackbone, PTL DEF BackboneSpec

\* The backbone implements EventDelivery: through crashes of either side,
\* resends and redeliveries, a stored event gets one outcome, once, and keeps it
\* (OutboxRelay.relayRound, ConsumerLoop.handleMessage).
THEOREM ImplementsDelivery == BackboneSpec => DeliversOnce
<1>1. QED
  BY InitBackbone, StepBackbone, BackboneInvariance, PTL
  DEF BackboneSpec, DeliversOnce, Delivery!Spec

\* The consumer acts only on readings that exist: whatever the handler returned
\* for, or the dead-letter topic received, was committed with its reading
\* (TransactionManager.execute around both saves, ConsumerLoop.handleMessage).
THEOREM ActsOnCommittedOnly ==
    BackboneSpec => [](\A e \in Event : handled[e] > 0 \/ dlq[e] > 0 => e \in Committed)
<1>1. ASSUME BackboneInv, NEW e \in Event, handled[e] > 0 \/ dlq[e] > 0
      PROVE  e \in Committed
  <2>1. e \in processed
    BY <1>1 DEF BackboneInv, Loop!IInv, Loop!UnclaimedUntouched
  <2>2. QED
    BY <1>1, <2>1 DEF BackboneInv, LoopOnTopic, IInv, OnlyCommittedOnTopic, InRelay
<1>2. BackboneInv => \A e \in Event : handled[e] > 0 \/ dlq[e] > 0 => e \in Committed
  BY <1>1
<1>3. QED
  BY <1>2, BackboneInvariance, PTL

\* Where the event of a stored reading can be: unmarked in the outbox, on the
\* topic ahead of the consumer, settled, or hit by a fault between its claim
\* and its outcome. There is no other place to lose it (OutboxRelay.relayRound
\* marks after producing, ConsumerLoop.handleMessage returns after settling).
NothingVanishes ==
    \A e \in Committed :
        \/ e \in Unpublished
        \/ \E k \in (position + 1)..Len(log) : log[k] = e
        \/ handled[e] > 0 \/ dlq[e] > 0
        \/ e \in interrupted

THEOREM StoredEventsAccounted == BackboneSpec => []NothingVanishes
<1>1. ASSUME BackboneInv, NEW e \in Committed, e \notin Unpublished,
             e \notin interrupted, handled[e] = 0, dlq[e] = 0
      PROVE  \E k \in (position + 1)..Len(log) : log[k] = e
  <2>1. e \in Range(log) /\ log \in Seq(Event)
    BY <1>1 DEF BackboneInv, IInv, TypeOK, MarkedIsOnTopic, Unpublished
  <2>2. PICK k \in 1..Len(log) : log[k] = e
    BY <2>1 DEF Range
  <2>3. k \notin 1..position
    BY <1>1, <2>2 DEF BackboneInv, Loop!IInv, Loop!SkippedOnlyIfInterrupted, Loop!Done
  <2>4. position \in Nat /\ Len(log) \in Nat
    BY <1>1, <2>1 DEF BackboneInv, Loop!IInv, Loop!TypeOK
  <2>5. k \in (position + 1)..Len(log)
    BY <2>2, <2>3, <2>4
  <2>6. QED
    BY <2>2, <2>5
<1>2. BackboneInv => handled \in [Event -> Nat] /\ dlq \in [Event -> Nat]
  BY DEF BackboneInv, Loop!IInv, Loop!TypeOK
<1>3. BackboneInv => NothingVanishes
  BY <1>1, <1>2 DEF NothingVanishes, Committed
<1>4. QED
  BY <1>3, BackboneInvariance, PTL
=============================================================================
