------------------------- MODULE ConsumerLoopProofs -------------------------
(***************************************************************************)
(* Proofs about ConsumerLoop, for every set of messages, retry budget,     *)
(* partition length and bound on faults: the dedup, budget and outcome     *)
(* properties, and that a record is passed over without an outcome only    *)
(* after a fault.                                                          *)
(*                                                                         *)
(* None of them is inductive. What makes them so is that a message gets    *)
(* one session in its life: before its claim nothing happened to it        *)
(* (UnclaimedUntouched), during its session its counters are those of the  *)
(* session (Session), and after it only Skip meets it again.               *)
(***************************************************************************)
EXTENDS ConsumerLoop, TLAPS

InSession == pc \in {"parse", "handle", "deadLetter"}

UnclaimedUntouched ==
    \A m \in Message \ processed :
        calls[m] = 0 /\ handled[m] = 0 /\ (m \notin Malformed => dlq[m] = 0)

MalformedUnclaimed == processed \cap Malformed = {}

Session ==
    /\ pc # "idle" => position < Len(log)
    /\ pc \in {"idle", "dedup", "parse"} => attempt = 0
    /\ pc \in {"dedup", "parse", "handle"} => Current \notin Malformed
    /\ pc = "handle" => attempt < MaxAttempts
    /\ pc \in {"parse", "handle"} => Current \in processed
    /\ pc = "deadLetter" => Current \in Malformed \cup processed
    /\ InSession /\ Current \in processed =>
          handled[Current] = 0 /\ dlq[Current] = 0 /\ calls[Current] = attempt

\* A claimed message has its outcome, was interrupted, or is in its session.
ClaimedAccounted ==
    \A m \in processed : Done(m) \/ m \in interrupted \/ (InSession /\ m = Current)

IInv ==
    /\ TypeOK
    /\ HandledAtMostOnce
    /\ BudgetPerEvent
    /\ OneOutcome
    /\ SkippedOnlyIfInterrupted
    /\ UnclaimedUntouched
    /\ MalformedUnclaimed
    /\ Session
    /\ ClaimedAccounted

-----------------------------------------------------------------------------

LEMMA CurrentIsMessage == TypeOK /\ position < Len(log) => Current \in Message
BY DEF TypeOK, Current

LEMMA InitIInv == Init => IInv
<1>1. SUFFICES ASSUME Init PROVE IInv
  OBVIOUS
<1>2. log \in Seq(Message) /\ Len(log) = 0
  BY <1>1 DEF Init
<1>3. TypeOK
  BY <1>1, <1>2, MaxAttemptsAssumption, LoopFaultsAssumption DEF Init, LoopInit, TypeOK
<1>4. UnclaimedUntouched /\ MalformedUnclaimed /\ Session /\ ClaimedAccounted
  BY <1>1 DEF Init, LoopInit, UnclaimedUntouched, MalformedUnclaimed, Session,
     ClaimedAccounted, InSession
<1>5. HandledAtMostOnce /\ BudgetPerEvent /\ OneOutcome /\ SkippedOnlyIfInterrupted
  BY <1>1, MaxAttemptsAssumption DEF Init, LoopInit, HandledAtMostOnce, BudgetPerEvent,
     OneOutcome, SkippedOnlyIfInterrupted
<1>6. QED
  BY <1>3, <1>4, <1>5 DEF IInv

\* Steps that start or skip a delivery without touching any message.
LEMMA ReceiveStep == IInv /\ Receive => IInv'
<1>1. SUFFICES ASSUME IInv, Receive PROVE IInv'
  OBVIOUS
<1>2. /\ Current' = Current /\ Current \in Message
      /\ position \in Nat /\ pc' \in {"dedup", "deadLetter"}
  BY <1>1, CurrentIsMessage DEF IInv, TypeOK, Receive, Current
<1>3. TypeOK'
  BY <1>1, <1>2 DEF IInv, TypeOK, Receive, historyVars
<1>4. Session'
  BY <1>1, <1>2 DEF IInv, Session, InSession, MalformedUnclaimed, Receive, historyVars
<1>5. ClaimedAccounted'
  BY <1>1 DEF IInv, ClaimedAccounted, InSession, Done, Receive, historyVars
<1>6. QED
  BY <1>1, <1>3, <1>4, <1>5
  DEF IInv, Receive, historyVars, HandledAtMostOnce, BudgetPerEvent, OneOutcome,
      SkippedOnlyIfInterrupted, Done, UnclaimedUntouched, MalformedUnclaimed

LEMMA SkipStep == IInv /\ Skip => IInv'
<1>1. SUFFICES ASSUME IInv, Skip PROVE IInv'
  OBVIOUS
<1>2. /\ position \in Nat /\ position' = position + 1 /\ position < Len(log)
      /\ Len(log) \in Nat /\ Current \in Message
  BY <1>1, CurrentIsMessage DEF IInv, TypeOK, Session, Skip, Resolve
<1>3. TypeOK'
  BY <1>1, <1>2, MaxAttemptsAssumption DEF IInv, TypeOK, Skip, Resolve, historyVars
<1>4. Done(Current) \/ Current \in interrupted
  BY <1>1 DEF IInv, ClaimedAccounted, InSession, Skip
<1>5. SkippedOnlyIfInterrupted'
  BY <1>1, <1>2, <1>4
  DEF IInv, SkippedOnlyIfInterrupted, Done, Current, Skip, Resolve, historyVars
<1>6. Session' /\ ClaimedAccounted'
  BY <1>1 DEF IInv, Session, ClaimedAccounted, InSession, Done, Skip, Resolve, historyVars
<1>7. QED
  BY <1>1, <1>3, <1>5, <1>6
  DEF IInv, Skip, historyVars, HandledAtMostOnce, BudgetPerEvent, OneOutcome,
      UnclaimedUntouched, MalformedUnclaimed

\* The claim opens the message's only session.
LEMMA ClaimStep == IInv /\ Claim => IInv'
<1>1. SUFFICES ASSUME IInv, Claim PROVE IInv'
  OBVIOUS
<1>2. /\ Current' = Current /\ Current \in Message \ processed
      /\ position < Len(log) /\ Current \notin Malformed /\ attempt = 0
  BY <1>1, CurrentIsMessage DEF IInv, Session, Claim, Current
<1>3. TypeOK'
  BY <1>1, <1>2 DEF IInv, TypeOK, Claim, historyVars
<1>4. Session'
  BY <1>1, <1>2 DEF IInv, Session, InSession, UnclaimedUntouched, Claim, historyVars
<1>5. ClaimedAccounted'
  BY <1>1, <1>2 DEF IInv, ClaimedAccounted, InSession, Done, Claim, historyVars
<1>6. UnclaimedUntouched' /\ MalformedUnclaimed'
  BY <1>1, <1>2 DEF IInv, UnclaimedUntouched, MalformedUnclaimed, Claim, historyVars
<1>7. QED
  BY <1>1, <1>3, <1>4, <1>5, <1>6
  DEF IInv, Claim, historyVars, HandledAtMostOnce, BudgetPerEvent, OneOutcome,
      SkippedOnlyIfInterrupted, Done

LEMMA ParseStep == IInv /\ Parse => IInv'
<1>1. SUFFICES ASSUME IInv, Parse PROVE IInv'
  OBVIOUS
<1>2. Current' = Current /\ position < Len(log) /\ pc' \in {"handle", "deadLetter"}
  BY <1>1 DEF IInv, Session, Parse, Current
<1>3. TypeOK'
  BY <1>1, <1>2 DEF IInv, TypeOK, Parse, historyVars
<1>4. Session'
  BY <1>1, <1>2, MaxAttemptsAssumption
  DEF IInv, Session, InSession, Parse, historyVars
<1>5. ClaimedAccounted'
  BY <1>1, <1>2 DEF IInv, ClaimedAccounted, InSession, Done, Parse, historyVars
<1>6. QED
  BY <1>1, <1>3, <1>4, <1>5
  DEF IInv, Parse, historyVars, HandledAtMostOnce, BudgetPerEvent, OneOutcome,
      SkippedOnlyIfInterrupted, Done, UnclaimedUntouched, MalformedUnclaimed

\* A step that ends the session of an event: it has its outcome now, and the
\* loop moves on.
LEMMA HandlerReturnsStep == IInv /\ HandlerReturns => IInv'
<1>1. SUFFICES ASSUME IInv, HandlerReturns PROVE IInv'
  OBVIOUS
<1> DEFINE c == Current
<1>2. /\ position \in Nat /\ position' = position + 1 /\ position < Len(log)
      /\ Len(log) \in Nat /\ c \in Message /\ c = log[position + 1]
      /\ c \in processed /\ c \notin Malformed /\ log' = log
      /\ handled[c] = 0 /\ dlq[c] = 0 /\ calls[c] = attempt
      /\ attempt \in Nat /\ attempt < MaxAttempts
  BY <1>1, CurrentIsMessage
  DEF IInv, TypeOK, Session, InSession, HandlerReturns, Resolve, Current
<1>3. /\ calls' = [calls EXCEPT ![c] = attempt + 1]
      /\ handled' = [handled EXCEPT ![c] = 1]
      /\ calls \in [Message -> Nat] /\ handled \in [Message -> Nat]
      /\ pc' = "idle" /\ attempt' = 0
      /\ UNCHANGED <<log, faults, committed, processed, dlq, interrupted>>
  BY <1>1, <1>2 DEF IInv, TypeOK, HandlerReturns, Resolve
<1> HIDE DEF c
<1>4. TypeOK'
  <2>1. calls' \in [Message -> Nat] /\ handled' \in [Message -> Nat]
    BY <1>2, <1>3
  <2>2. position' \in committed'..Len(log') /\ attempt' \in 0..MaxAttempts
    BY <1>1, <1>2, <1>3, MaxAttemptsAssumption DEF IInv, TypeOK
  <2>3. QED
    BY <1>1, <1>3, <2>1, <2>2 DEF IInv, TypeOK
<1>5. HandledAtMostOnce' /\ BudgetPerEvent' /\ OneOutcome'
  BY <1>1, <1>2, <1>3, MaxAttemptsAssumption
  DEF IInv, HandledAtMostOnce, BudgetPerEvent, OneOutcome
<1>6. UnclaimedUntouched' /\ MalformedUnclaimed'
  BY <1>1, <1>2, <1>3 DEF IInv, UnclaimedUntouched, MalformedUnclaimed
<1>7. \A m \in Message : Done(m) \/ m = c => Done(m)'
  BY <1>2, <1>3 DEF Done
<1>8. SkippedOnlyIfInterrupted'
  <2>1. \A k \in 1..position' : k \in 1..position \/ k = position + 1
    BY <1>2
  <2>2. \A k \in 1..position' : log[k] \in Message
    BY <1>1, <1>2 DEF IInv, TypeOK
  <2>3. QED
    BY <1>1, <1>2, <1>3, <1>7, <2>1, <2>2 DEF IInv, SkippedOnlyIfInterrupted
<1>9. Session'
  BY <1>3 DEF Session, InSession
<1>10. ClaimedAccounted'
  BY <1>1, <1>3, <1>7 DEF IInv, TypeOK, ClaimedAccounted, c
<1>11. QED
  BY <1>4, <1>5, <1>6, <1>8, <1>9, <1>10 DEF IInv

LEMMA DeadLetterStep == IInv /\ DeadLetter => IInv'
<1>1. SUFFICES ASSUME IInv, DeadLetter PROVE IInv'
  OBVIOUS
<1> DEFINE c == Current
<1>2. /\ position \in Nat /\ position' = position + 1 /\ position < Len(log)
      /\ Len(log) \in Nat /\ c \in Message /\ c = log[position + 1]
      /\ c \in Malformed \cup processed /\ log' = log
      /\ c \in processed => handled[c] = 0 /\ dlq[c] = 0
  BY <1>1, CurrentIsMessage
  DEF IInv, TypeOK, Session, InSession, DeadLetter, Resolve, Current
<1>3. /\ dlq' = [dlq EXCEPT ![c] = @ + 1] /\ dlq \in [Message -> Nat]
      /\ handled' = handled /\ handled \in [Message -> Nat] /\ calls' = calls
      /\ pc' = "idle" /\ attempt' = 0
      /\ UNCHANGED <<log, faults, committed, processed, interrupted>>
  BY <1>1 DEF IInv, TypeOK, DeadLetter, Resolve, historyVars
<1> HIDE DEF c
<1>4. TypeOK'
  <2>1. dlq' \in [Message -> Nat]
    BY <1>2, <1>3
  <2>2. position' \in committed'..Len(log') /\ attempt' \in 0..MaxAttempts
    BY <1>1, <1>2, <1>3, MaxAttemptsAssumption DEF IInv, TypeOK
  <2>3. QED
    BY <1>1, <1>3, <2>1, <2>2 DEF IInv, TypeOK
<1>5. HandledAtMostOnce' /\ BudgetPerEvent' /\ OneOutcome'
  BY <1>1, <1>2, <1>3 DEF IInv, HandledAtMostOnce, BudgetPerEvent, OneOutcome
<1>6. UnclaimedUntouched' /\ MalformedUnclaimed'
  BY <1>1, <1>2, <1>3 DEF IInv, UnclaimedUntouched, MalformedUnclaimed
<1>7. \A m \in Message : Done(m) \/ m = c => Done(m)'
  BY <1>2, <1>3 DEF Done
<1>8. SkippedOnlyIfInterrupted'
  <2>1. \A k \in 1..position' : k \in 1..position \/ k = position + 1
    BY <1>2
  <2>2. \A k \in 1..position' : log[k] \in Message
    BY <1>1, <1>2 DEF IInv, TypeOK
  <2>3. QED
    BY <1>1, <1>2, <1>3, <1>7, <2>1, <2>2 DEF IInv, SkippedOnlyIfInterrupted
<1>9. Session'
  BY <1>3 DEF Session, InSession
<1>10. ClaimedAccounted'
  BY <1>1, <1>3, <1>7 DEF IInv, TypeOK, ClaimedAccounted, c
<1>11. QED
  BY <1>4, <1>5, <1>6, <1>8, <1>9, <1>10 DEF IInv

\* A failed attempt counts against the budget of the event's only session.
LEMMA HandlerThrowsStep == IInv /\ HandlerThrows => IInv'
<1>1. SUFFICES ASSUME IInv, HandlerThrows PROVE IInv'
  OBVIOUS
<1> DEFINE c == Current
<1>2. /\ c \in Message /\ c' = c /\ position < Len(log)
      /\ c \in processed /\ c \notin Malformed
      /\ handled[c] = 0 /\ dlq[c] = 0 /\ calls[c] = attempt
      /\ attempt \in Nat /\ attempt < MaxAttempts
  BY <1>1, CurrentIsMessage
  DEF IInv, TypeOK, Session, InSession, HandlerThrows, Current
<1>3. /\ calls' = [calls EXCEPT ![c] = attempt + 1] /\ calls \in [Message -> Nat]
      /\ attempt' = attempt + 1
      /\ pc' \in {"handle", "deadLetter"} /\ (pc' = "handle" => attempt' < MaxAttempts)
      /\ UNCHANGED <<log, faults, committed, position, processed, dlq, handled, interrupted>>
  BY <1>1, <1>2 DEF IInv, TypeOK, HandlerThrows
<1>4. TypeOK'
  BY <1>1, <1>2, <1>3, MaxAttemptsAssumption DEF IInv, TypeOK
<1>5. HandledAtMostOnce' /\ BudgetPerEvent' /\ OneOutcome' /\ SkippedOnlyIfInterrupted'
  BY <1>1, <1>2, <1>3, MaxAttemptsAssumption
  DEF IInv, HandledAtMostOnce, BudgetPerEvent, OneOutcome, SkippedOnlyIfInterrupted, Done
<1>6. UnclaimedUntouched' /\ MalformedUnclaimed'
  BY <1>1, <1>2, <1>3 DEF IInv, UnclaimedUntouched, MalformedUnclaimed
<1>7. Session'
  BY <1>2, <1>3 DEF Session, InSession
<1>8. ClaimedAccounted'
  BY <1>1, <1>2, <1>3 DEF IInv, ClaimedAccounted, InSession, Done, HandlerThrows
<1>9. QED
  BY <1>4, <1>5, <1>6, <1>7, <1>8 DEF IInv

\* A delivery is broken off. What is recorded stays, the position goes back,
\* and a claimed message without an outcome is noted as interrupted.
LEMMA RedeliverStep ==
    ASSUME IInv, Redeliver, UNCHANGED <<log, calls, handled>>,
           faults' \in 0..MaxFaults, processed' \subseteq Message,
           interrupted \subseteq interrupted', interrupted' \subseteq Message,
           \A m \in Message : Done(m) => Done(m)',
           HandledAtMostOnce', BudgetPerEvent', OneOutcome', dlq' \in [Message -> Nat],
           UnclaimedUntouched', MalformedUnclaimed',
           \A m \in processed' : Done(m)' \/ m \in interrupted'
    PROVE  IInv'
<1>1. /\ pc' = "idle" /\ attempt' = 0 /\ committed' = position'
      /\ position' \in 0..Len(log) /\ position' <= position
  BY DEF IInv, TypeOK, Redeliver, RedeliverFrom
<1>2. TypeOK'
  BY <1>1, MaxAttemptsAssumption DEF IInv, TypeOK
<1>3. SkippedOnlyIfInterrupted'
  <2>1. \A k \in 1..position' : k \in 1..position /\ log[k] \in Message
    BY <1>1 DEF IInv, TypeOK
  <2>2. QED
    BY <2>1 DEF IInv, SkippedOnlyIfInterrupted
<1>4. Session' /\ ClaimedAccounted'
  BY <1>1 DEF Session, InSession, ClaimedAccounted
<1>5. QED
  BY <1>2, <1>3, <1>4 DEF IInv

\* Restart goes back to the committed offset, one of Redeliver's two.
LEMMA RestartStep == IInv /\ Restart => IInv'
<1>1. SUFFICES ASSUME IInv, Restart PROVE IInv'
  OBVIOUS
<1>2. Redeliver /\ UNCHANGED <<log, calls, handled, processed, dlq>>
  BY <1>1 DEF Restart, Redeliver
<1>3. faults' \in 0..MaxFaults
  BY <1>1, LoopFaultsAssumption DEF IInv, TypeOK, Restart, Fault
<1>4. /\ interrupted \subseteq interrupted' /\ interrupted' \subseteq Message
      /\ InSession /\ Current \in processed => Current \in interrupted'
  BY <1>1 DEF IInv, TypeOK, Restart, Interrupt, InSession
<1>5. \A m \in Message : Done(m) => Done(m)'
  BY <1>2 DEF Done
<1>6. \A m \in processed' : Done(m)' \/ m \in interrupted'
  BY <1>1, <1>2, <1>4, <1>5 DEF IInv, TypeOK, ClaimedAccounted
<1>7. /\ HandledAtMostOnce' /\ BudgetPerEvent' /\ OneOutcome'
      /\ UnclaimedUntouched' /\ MalformedUnclaimed'
      /\ dlq' \in [Message -> Nat] /\ processed' \subseteq Message
  BY <1>1, <1>2 DEF IInv, TypeOK, HandledAtMostOnce, BudgetPerEvent, OneOutcome,
     UnclaimedUntouched, MalformedUnclaimed
<1>8. QED
  BY <1>1, <1>2, <1>3, <1>4, <1>5, <1>6, <1>7, RedeliverStep

\* The claim may have been applied although it failed; then it is interrupted.
LEMMA ClaimFailsStep == IInv /\ ClaimFails => IInv'
<1>1. SUFFICES ASSUME IInv, ClaimFails PROVE IInv'
  OBVIOUS
<1>2. Redeliver /\ UNCHANGED <<log, calls, handled, dlq>>
  BY <1>1 DEF ClaimFails
<1>3. faults' \in 0..MaxFaults
  BY <1>1, LoopFaultsAssumption DEF IInv, TypeOK, ClaimFails, Fault
<1>4. Current \in Message \ Malformed
  BY <1>1, CurrentIsMessage DEF IInv, Session, ClaimFails
<1>5. /\ interrupted \subseteq interrupted' /\ interrupted' \subseteq Message
      /\ processed \subseteq processed' /\ processed' \subseteq processed \cup {Current}
      /\ Current \in processed' \ processed => Current \in interrupted'
  BY <1>1, <1>4 DEF IInv, TypeOK, ClaimFails
<1>6. \A m \in Message : Done(m) => Done(m)'
  BY <1>2 DEF Done
<1>7. \A m \in processed' : Done(m)' \/ m \in interrupted'
  BY <1>1, <1>4, <1>5, <1>6 DEF IInv, TypeOK, ClaimedAccounted, InSession, ClaimFails
<1>8. /\ HandledAtMostOnce' /\ BudgetPerEvent' /\ OneOutcome'
      /\ UnclaimedUntouched' /\ MalformedUnclaimed'
      /\ dlq' \in [Message -> Nat] /\ processed' \subseteq Message
  BY <1>1, <1>2, <1>4, <1>5 DEF IInv, TypeOK, HandledAtMostOnce, BudgetPerEvent,
     OneOutcome, UnclaimedUntouched, MalformedUnclaimed
<1>9. QED
  BY <1>1, <1>2, <1>3, <1>5, <1>6, <1>7, <1>8, RedeliverStep

\* A dead letter may have been written although the send failed. The event is
\* claimed, so redelivery will not dead-letter it again.
LEMMA DeadLetterFailsStep == IInv /\ DeadLetterFails => IInv'
<1>1. SUFFICES ASSUME IInv, DeadLetterFails PROVE IInv'
  OBVIOUS
<1> DEFINE c == Current
<1>2. Redeliver /\ UNCHANGED <<log, calls, handled, processed>>
  BY <1>1 DEF DeadLetterFails
<1>3. faults' \in 0..MaxFaults
  BY <1>1, LoopFaultsAssumption DEF IInv, TypeOK, DeadLetterFails, Fault
<1>4. /\ c \in Message /\ c \in Malformed \cup processed
      /\ c \in processed => handled[c] = 0 /\ dlq[c] = 0
  BY <1>1, CurrentIsMessage DEF IInv, Session, InSession, DeadLetterFails
<1>5. /\ interrupted \subseteq interrupted' /\ interrupted' \subseteq Message
      /\ InSession /\ c \in processed => c \in interrupted'
  BY <1>1, <1>4 DEF IInv, TypeOK, DeadLetterFails, Interrupt, InSession
<1>6. /\ dlq \in [Message -> Nat]
      /\ dlq' = dlq \/ dlq' = [dlq EXCEPT ![c] = @ + 1]
  BY <1>1 DEF IInv, TypeOK, DeadLetterFails
<1> HIDE DEF c
<1>7. \A m \in Message : Done(m) => Done(m)'
  BY <1>2, <1>4, <1>6 DEF Done
<1>8. \A m \in processed' : Done(m)' \/ m \in interrupted'
  BY <1>1, <1>2, <1>5, <1>7 DEF IInv, TypeOK, ClaimedAccounted, c
<1>9. /\ HandledAtMostOnce' /\ BudgetPerEvent' /\ OneOutcome'
      /\ UnclaimedUntouched' /\ MalformedUnclaimed'
      /\ dlq' \in [Message -> Nat] /\ processed' \subseteq Message
  <2>1. /\ dlq' \in [Message -> Nat] /\ dlq'[c] \in {dlq[c], dlq[c] + 1}
        /\ \A m \in Message \ {c} : dlq'[m] = dlq[m]
    BY <1>4, <1>6
  <2>2. HandledAtMostOnce' /\ BudgetPerEvent' /\ MalformedUnclaimed' /\ processed' \subseteq Message
    BY <1>1, <1>2 DEF IInv, TypeOK, HandledAtMostOnce, BudgetPerEvent, MalformedUnclaimed
  <2>3. OneOutcome'
    BY <1>1, <1>2, <1>4, <1>6, <2>1 DEF IInv, TypeOK, OneOutcome
  <2>4. UnclaimedUntouched'
    BY <1>1, <1>2, <1>4, <2>1 DEF IInv, UnclaimedUntouched
  <2>5. QED
    BY <2>1, <2>2, <2>3, <2>4
<1>10. QED
  BY <1>1, <1>2, <1>3, <1>5, <1>7, <1>8, <1>9, RedeliverStep

\* Committing an offset and appending to the partition touch no message.
LEMMA AutoCommitStep == IInv /\ AutoCommit => IInv'
<1>1. SUFFICES ASSUME IInv, AutoCommit PROVE IInv'
  OBVIOUS
<1>2. TypeOK'
  BY <1>1 DEF IInv, TypeOK, AutoCommit, historyVars
<1>3. QED
  BY <1>1, <1>2
  DEF IInv, AutoCommit, historyVars, HandledAtMostOnce, BudgetPerEvent, OneOutcome,
      SkippedOnlyIfInterrupted, Done, UnclaimedUntouched, MalformedUnclaimed, Session,
      ClaimedAccounted, InSession, Current

\* What the producer's side may do: the partition grows, or a fault is spent.
\* The consumer's memory and tables stay.
LEMMA ProducerStep ==
    ASSUME IInv, UNCHANGED loopVars, faults' \in 0..MaxFaults,
           log' \in Seq(Message), Len(log) <= Len(log'),
           \A k \in 1..Len(log) : log'[k] = log[k]
    PROVE  IInv'
<1>1. UNCHANGED <<committed, position, pc, attempt, processed, dlq, calls,
                  handled, interrupted>>
  BY DEF loopVars, historyVars
<1>2. /\ committed \in Nat /\ position \in Nat /\ Len(log) \in Nat /\ Len(log') \in Nat
      /\ committed <= position /\ position <= Len(log)
  BY DEF IInv, TypeOK
<1>3. TypeOK'
  <2>1. committed' \in 0..Len(log') /\ position' \in committed'..Len(log')
    BY <1>1, <1>2
  <2>2. QED
    BY <1>1, <2>1 DEF IInv, TypeOK
<1>4. position < Len(log) => Current' = Current /\ position' < Len(log')
  BY <1>1, <1>2 DEF Current
<1>5. Session' /\ ClaimedAccounted'
  BY <1>1, <1>4 DEF IInv, Session, ClaimedAccounted, InSession, Done
<1>6. SkippedOnlyIfInterrupted'
  BY <1>1, <1>2 DEF IInv, SkippedOnlyIfInterrupted, Done
<1>7. QED
  BY <1>1, <1>3, <1>5, <1>6 DEF IInv, HandledAtMostOnce, BudgetPerEvent, OneOutcome,
     UnclaimedUntouched, MalformedUnclaimed

LEMMA AppendStep == ASSUME IInv, NEW m \in Message, Append1(m) PROVE IInv'
<1>1. /\ log' \in Seq(Message) /\ Len(log) <= Len(log')
      /\ \A k \in 1..Len(log) : log'[k] = log[k]
  BY DEF IInv, TypeOK, Append1
<1>2. faults' \in 0..MaxFaults /\ UNCHANGED loopVars
  BY DEF IInv, TypeOK, Append1
<1>3. QED
  BY <1>1, <1>2, ProducerStep

\* Every step of the loop, of kafkajs and of the producer.
LEMMA NextIInv == IInv /\ [Next]_vars => IInv'
<1>1. SUFFICES ASSUME IInv, [Next]_vars PROVE IInv'
  OBVIOUS
<1>2. CASE HandleMessage
  BY <1>1, <1>2, ReceiveStep, ClaimStep, SkipStep, ClaimFailsStep, ParseStep,
     HandlerReturnsStep, HandlerThrowsStep, DeadLetterStep, DeadLetterFailsStep
  DEF HandleMessage
<1>3. CASE AutoCommit
  BY <1>1, <1>3, AutoCommitStep
<1>4. CASE Restart
  BY <1>1, <1>4, RestartStep
<1>5. CASE \E m \in Message : Append1(m)
  BY <1>1, <1>5, AppendStep
<1>6. CASE UNCHANGED vars
  BY <1>1, <1>6
  DEF vars, loopVars, historyVars, IInv, TypeOK, HandledAtMostOnce, BudgetPerEvent,
      OneOutcome, SkippedOnlyIfInterrupted, Done, UnclaimedUntouched,
      MalformedUnclaimed, Session, ClaimedAccounted, InSession, Current
<1>7. QED
  BY <1>1, <1>2, <1>3, <1>4, <1>5, <1>6 DEF Next, LoopNext, PollEmpty

-----------------------------------------------------------------------------

\* The inductive invariant holds in every reachable state.
THEOREM Invariance == Spec => []IInv
<1>1. QED
  BY InitIInv, NextIInv, PTL DEF Spec

\* Type correctness of the loop: the position stays between the committed
\* offset and the end, the attempt within the budget (handleMessage).
THEOREM TypeCorrect == Spec => []TypeOK
<1>1. IInv => TypeOK
  BY DEF IInv
<1>2. QED
  BY <1>1, Invariance, PTL

\* However often an event is delivered, its handler returns at most once
\* (handleMessage's dedup before processing).
THEOREM DedupFirst == Spec => []HandledAtMostOnce
<1>1. IInv => HandledAtMostOnce
  BY DEF IInv
<1>2. QED
  BY <1>1, Invariance, PTL

\* The retry budget bounds an event's handler calls over all its deliveries
\* (handleMessage's while loop).
THEOREM BudgetHolds == Spec => []BudgetPerEvent
<1>1. IInv => BudgetPerEvent
  BY DEF IInv
<1>2. QED
  BY <1>1, Invariance, PTL

\* An event is handled or dead-lettered, never both and never twice
\* (handleMessage, deadLetter).
THEOREM SingleOutcome == Spec => []OneOutcome
<1>1. IInv => OneOutcome
  BY DEF IInv
<1>2. QED
  BY <1>1, Invariance, PTL

\* Without a fault between an event's claim and its outcome, the loop never
\* passes the event over: that window is the only way to lose one.
THEOREM LossNeedsInterruption == Spec => []SkippedOnlyIfInterrupted
<1>1. IInv => SkippedOnlyIfInterrupted
  BY DEF IInv
<1>2. QED
  BY <1>1, Invariance, PTL
=============================================================================
