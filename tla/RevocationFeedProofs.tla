------------------------ MODULE RevocationFeedProofs ------------------------
(***************************************************************************)
(* Proofs about RevocationFeed and the Sessions it is composed with, for   *)
(* any number of requests, tokens, resets and pages of any size.         *)
(***************************************************************************)
EXTENDS RevocationFeed, TLAPS, WellFoundedInduction

-----------------------------------------------------------------------------
(* Sessions.                                                               *)

\* A token that is done with is revoked, and one that is revoked is not
\* refreshed: whoever refreshes found nobody to have spent it.
SInv ==
    /\ now \in Instant
    /\ SessionTypeOK
    /\ \A r \in issued \cap Request : pc[r] = "done" /\ kind[r] # "logout"
    /\ \A r \in Request : token[r] \in issued \cup {None} /\ access[r] \in issued \cup {None}
    /\ \A r \in Request : kind[r] = "login" => token[r] = None
    /\ \A r \in Request : kind[r] = "refresh" => token[r] \in issued /\ spent[r] = {}
    /\ \A r \in Request : pc[r] = "done" /\ token[r] # None => token[r] \in revoked

LEMMA Distinct == /\ NoTime \in Int /\ Instant \subseteq Int /\ \A t \in Instant : NoTime < t
                  /\ Request \subseteq Login /\ Early \subseteq Login
                  /\ None \notin Login
BY MaxTimeAssumption, EarlyAssumption DEF NoTime, Instant, Login

LEMMA InitSInv == ClockInit /\ SessionInit => SInv
BY MaxTimeAssumption, EarlyAssumption
DEF ClockInit, SessionInit, SInv, SessionTypeOK, Login, Instant, NoTime

LEMMA BeginKeeps ==
  ASSUME SInv, NEW r \in Request, SessionStep(r), ~CommitIssue(r), ~RollBack(r)
  PROVE  SInv'
<1>1. PICK k \in {"login", "refresh", "logout"}, t \in issued \cup {None}, a \in issued \cup {None} :
        /\ Begin(r, k, t, a)
        /\ k = "refresh" => t \in Usable
        /\ k = "login" => t = None
  BY DEF SessionStep, BeginLogin, BeginRefresh, BeginLogout, Usable
<1>2. issued \subseteq Login /\ pc[r] = "new" /\ r \notin issued
  BY <1>1 DEF SInv, SessionTypeOK, Begin
<1>3. SessionTypeOK'
  BY <1>1, <1>2, Distinct DEF Begin, Goto, SInv, SessionTypeOK, asked, tables
<1>4. k = "refresh" => t \in issued /\ spent'[r] = {}
  <2>1. k = "refresh" => t \in issued /\ t \notin revoked
    BY <1>1 DEF Usable
  <2>2. spent'[r] = {q \in Request : pc[q] = "done" /\ token[q] = t /\ t # None}
    BY <1>1 DEF Begin, SInv, SessionTypeOK
  <2>3. QED
    BY <2>1, <2>2 DEF SInv
<1>5. \A q \in Request : kind'[q] = "refresh" => token'[q] \in issued' /\ spent'[q] = {}
  BY <1>1, <1>4 DEF Begin, SInv, SessionTypeOK, tables
<1>6. QED
  BY <1>1, <1>2, <1>3, <1>5 DEF Begin, Goto, SInv, SessionTypeOK, tables

LEMMA CommitIssueKeeps ==
  ASSUME SInv, NEW r \in Request, CommitIssue(r)
  PROVE  SInv' /\ r \notin issued
<1>1. r \notin issued /\ r \in Login /\ pc[r] = "begun" /\ kind[r] \in {"login", "refresh"}
  BY Distinct DEF SInv, CommitIssue
<1>2. revoked' \subseteq issued' /\ revoked \subseteq revoked' /\ issued \subseteq issued'
  BY DEF SInv, SessionTypeOK, CommitIssue
<1>3. SessionTypeOK'
  BY <1>1, <1>2 DEF SInv, SessionTypeOK, CommitIssue, Goto, asked
<1>4. \A q \in Request : pc'[q] = "done" /\ token'[q] # None => token'[q] \in revoked'
  BY <1>1 DEF SInv, SessionTypeOK, CommitIssue, Goto, asked
<1>5. QED
  BY <1>1, <1>2, <1>3, <1>4 DEF SInv, SessionTypeOK, CommitIssue, Goto, asked

LEMMA CommitLogoutKeeps ==
  ASSUME SInv, NEW r \in Request, CommitLogout(r)
  PROVE  /\ SInv'
         /\ UNCHANGED <<now, issued>>
         /\ stamp[r] \in Instant /\ \A l \in issued : stamp'[l] = stamp[l]
         /\ \/ UNCHANGED <<rows, revokedAt>>
            \/ /\ access[r] \in issued \ rows /\ rows' = rows \cup {access[r]}
               /\ revokedAt' = [revokedAt EXCEPT ![access[r]] = stamp[r]]
<1>1. /\ r \notin issued /\ r \in Login /\ pc[r] = "begun" /\ kind[r] = "logout"
      /\ issued \subseteq Login /\ stamp[r] \in Instant /\ 0 \in Instant
      /\ access[r] \in issued \cup {None} /\ token[r] \in issued \cup {None}
  BY Distinct, MaxTimeAssumption DEF SInv, SessionTypeOK, CommitLogout, Instant
<1>2. \/ UNCHANGED <<rows, revokedAt>>
      \/ /\ access[r] \in issued \ rows /\ rows' = rows \cup {access[r]}
         /\ revokedAt' = [revokedAt EXCEPT ![access[r]] = stamp[r]]
  BY <1>1 DEF CommitLogout
<1>3. /\ rows' \subseteq issued /\ revokedAt' \in [Login -> Instant \cup {NoTime}]
      /\ \A l \in rows' : revokedAt'[l] # NoTime
  BY <1>1, <1>2, Distinct DEF SInv, SessionTypeOK
<1>4. \A l \in issued : stamp'[l] = stamp[l]
  BY <1>1 DEF SInv, SessionTypeOK, CommitLogout
<1>5. SessionTypeOK'
  BY <1>1, <1>3 DEF SInv, SessionTypeOK, CommitLogout, Goto
<1>6. \A q \in Request : pc'[q] = "done" /\ token'[q] # None => token'[q] \in revoked'
  BY <1>1 DEF SInv, SessionTypeOK, CommitLogout, Goto
<1>7. SInv'
  BY <1>1, <1>5, <1>6 DEF SInv, SessionTypeOK, CommitLogout, Goto
<1>8. QED
  BY <1>1, <1>2, <1>4, <1>7 DEF CommitLogout

LEMMA RollBackKeeps ==
  ASSUME SInv, NEW r \in Request, RollBack(r)
  PROVE  SInv' /\ r \notin issued
<1>1. r \notin issued /\ 0 \in Instant
  BY MaxTimeAssumption DEF SInv, RollBack, Instant
<1>2. SessionTypeOK'
  BY <1>1 DEF SInv, SessionTypeOK, RollBack, Goto, tables
<1>3. QED
  BY <1>1, <1>2 DEF SInv, SessionTypeOK, RollBack, Goto, tables

LEMMA CleanupKeeps == SInv /\ Cleanup => SInv'
BY DEF SInv, SessionTypeOK, Cleanup, asked

\* What a step of a request leaves as it is.
LEMMA SessionStepKeeps ==
  ASSUME SInv, NEW r \in Request, SessionStep(r)
  PROVE  /\ SInv'
         /\ UNCHANGED <<now, rows, revokedAt>>
         /\ issued \subseteq issued' /\ \A l \in issued : stamp'[l] = stamp[l]
<1>1. CASE CommitIssue(r)
  BY <1>1, CommitIssueKeeps DEF CommitIssue
<1>2. CASE RollBack(r)
  <2>1. \A l \in issued : stamp'[l] = stamp[l]
    BY <1>2, RollBackKeeps DEF RollBack, SInv, SessionTypeOK
  <2>2. QED
    BY <1>2, <2>1, RollBackKeeps DEF RollBack, tables
<1>3. CASE ~CommitIssue(r) /\ ~RollBack(r)
  <2>1. SInv'
    BY <1>3, BeginKeeps
  <2>2. pc[r] = "new" /\ stamp' = [stamp EXCEPT ![r] = now] /\ UNCHANGED <<now, tables>>
    BY <1>3 DEF SessionStep, BeginLogin, BeginRefresh, BeginLogout, Begin
  <2>3. \A l \in issued : stamp'[l] = stamp[l]
    BY <2>2 DEF SInv, SessionTypeOK
  <2>4. QED
    BY <2>1, <2>2, <2>3 DEF tables
<1>4. QED
  BY <1>1, <1>2, <1>3

LEMMA SInvStutter == SInv /\ UNCHANGED sessionVars /\ now' \in Instant => SInv'
BY DEF SInv, SessionTypeOK, sessionVars, asked, tables

LEMMA SInvNext == SInv /\ [Next]_vars => SInv'
<1> SUFFICES ASSUME SInv, [Next]_vars PROVE SInv'
  OBVIOUS
<1>1. CASE Gateway \/ UNCHANGED vars
  <2>1. UNCHANGED <<now, sessionVars>>
    BY <1>1 DEF Gateway, StartPoll, Serve, Receive, ReceiveNothing, PollFails, Restart, vars
  <2>2. QED
    BY <2>1, SInvStutter DEF SInv
<1>2. CASE Tick /\ UNCHANGED <<sessionVars, gatewayVars, missed>>
  <2>1. now' \in Instant
    BY <1>2, MaxTimeAssumption DEF Tick, SInv, Instant
  <2>2. QED
    BY <1>2, <2>1, SInvStutter
<1>3. QED
  BY <1>1, <1>2, SessionStepKeeps, CommitLogoutKeeps, CleanupKeeps DEF Next, Logout

LEMMA SInvariance == Spec => []SInv
<1>1. Init => SInv
  BY InitSInv DEF Init
<1>2. QED
  BY <1>1, SInvNext, PTL DEF Spec

\* A refresh token that one request has spent buys no session from a request
\* that begins later.
THEOREM SpentStaysSpent == Spec => []SpentForLater
<1>1. SInv => SpentForLater
  BY DEF SInv, SpentForLater, Done
<1>2. QED
  BY <1>1, SInvariance, PTL

-----------------------------------------------------------------------------
(* The feed.                                                               *)

LEMMA GreatestExists ==
  ASSUME NEW b \in Nat, NEW S, S \subseteq 0..b, S # {}
  PROVE  \E n \in S : \A k \in S : n >= k
<1> DEFINE T == {b - n : n \in S}
<1>1. \A n \in S : n \in Nat /\ b - n \in Nat
  OBVIOUS
<1>2. T \subseteq Nat /\ T # {}
  <2>1. PICK n \in S : TRUE
    OBVIOUS
  <2>2. b - n \in T
    OBVIOUS
  <2>3. QED
    BY <1>1, <2>2
<1>3. IsWellFoundedOn({p \in Nat \X Nat : p[1] < p[2]}, Nat)
  BY NatLessThanWellFounded, SMT DEF OpToRel
<1>4. PICK t \in T : \A u \in T : ~(<<u, t>> \in {p \in Nat \X Nat : p[1] < p[2]})
  BY <1>2, <1>3, WFMin
<1>5. PICK n \in S : t = b - n
  OBVIOUS
<1>6. ASSUME NEW k \in S PROVE n >= k
  <2>1. b - k \in T /\ b - k \in Nat /\ b - n \in Nat /\ n \in Nat /\ k \in Nat
    BY <1>1
  <2>2. ~(b - k < b - n)
    BY <1>4, <1>5, <2>1
  <2>3. QED
    BY <2>1, <2>2
<1>7. QED
  BY <1>6

\* The next cursor: the latest revoked_at of a page.
LEMMA NextCursor ==
  ASSUME SInv, NEW p \in SUBSET rows, p # {}
  PROVE  LET n == Max({revokedAt[l] : l \in p})
         IN  n \in Instant /\ \E i \in p : revokedAt[i] = n
<1> DEFINE S == {revokedAt[l] : l \in p}
<1>1. S \subseteq 0..MaxTime
  BY DEF SInv, SessionTypeOK, Instant
<1>2. S # {}
  OBVIOUS
<1>3. \E n \in S : \A k \in S : n >= k
  BY <1>1, <1>2, GreatestExists, MaxTimeAssumption
<1>4. Max(S) \in S
  BY <1>3 DEF Max
<1>5. QED
  BY <1>1, <1>4 DEF Instant

\* What the gateway was brought it keeps for its time.
Held(l) == putAt[l] # NoTime => l \in known \/ putAt[l] + CacheTtl < now

\* A row that is gone had expired.
GoneExpired(l) == revokedAt[l] # NoTime /\ l \notin rows => Expiry(l) < now

\* A row the cursor is past was brought to the gateway, or is passed over.
Followed(l) == revokedAt[l] <= cursor => putAt[l] # NoTime \/ l \in missed

\* A row the answer on its way is past is in it, or is passed over, or at the
\* very end of it.
Answered(l) ==
    cursor < revokedAt[l] /\ revokedAt[l] <= reply.next =>
        l \in reply.jtis \/ l \in missed \/ revokedAt[l] = reply.next

FInv ==
    /\ SInv
    /\ TypeOK
    /\ \A l \in issued : Held(l) /\ GoneExpired(l)
    /\ \A l \in Login \ issued : putAt[l] = NoTime /\ revokedAt[l] = NoTime
    /\ \A l \in rows : Followed(l)
    /\ poll = "reply" => \A l \in rows : Answered(l)

LEMMA InitFInv == Init => FInv
<1> SUFFICES ASSUME Init PROVE FInv
  OBVIOUS
<1>1. SInv
  BY InitSInv DEF Init
<1>2. TypeOK
  BY <1>1, MaxTimeAssumption, PageAssumption, ResetAssumption
  DEF Init, ClockInit, SInv, TypeOK, NoReply, Instant, NoTime
<1>3. \A l \in Login : putAt[l] = NoTime /\ revokedAt[l] = NoTime
  BY DEF Init, SessionInit
<1>4. rows = {} /\ issued \subseteq Login /\ poll = "idle"
  BY <1>1 DEF Init, SessionInit, SInv, SessionTypeOK
<1>5. QED
  BY <1>1, <1>2, <1>3, <1>4 DEF FInv, Held, GoneExpired

\* What is known of the variables of an issued token.
LEMMA TokenInts ==
  ASSUME FInv, NEW l \in issued
  PROVE  /\ l \in Login /\ revokedAt[l] \in Int /\ revokedAt[l] >= NoTime
         /\ stamp[l] \in Int /\ putAt[l] \in Int /\ putAt[l] >= NoTime /\ NoTime \in Int
         /\ cursor \in Int /\ reply.next \in Int /\ now \in Int /\ began \in Int /\ began >= 0
         /\ CacheTtl \in Int /\ Skew \in Int /\ Expiry(l) \in Int
         /\ Expiry(l) = stamp[l] + AccessTtl /\ AcceptedUntil(l) = Expiry(l) + Skew
<1>1. l \in Login /\ stamp[l] \in Int
  BY Distinct DEF FInv, SInv, SessionTypeOK
<1>2. revokedAt[l] \in Instant \cup {NoTime} /\ putAt[l] \in Instant \cup {NoTime}
  BY <1>1 DEF FInv, TypeOK, SessionTypeOK
<1>3. Expiry(l) = stamp[l] + AccessTtl /\ AcceptedUntil(l) = Expiry(l) + Skew
  BY DEF Expiry, AcceptedUntil
<1>4. QED
  BY <1>1, <1>2, <1>3, Distinct, AccessTtlAssumption, CacheTtlAssumption, SkewAssumption
  DEF FInv, TypeOK, Instant, NoTime

LEMMA RowInts ==
  ASSUME FInv, NEW l \in rows
  PROVE  l \in issued /\ revokedAt[l] \in Int /\ NoTime < revokedAt[l]
<1>1. l \in issued /\ l \in Login /\ revokedAt[l] # NoTime
  BY DEF FInv, SInv, SessionTypeOK
<1>2. revokedAt[l] \in Instant
  BY <1>1 DEF FInv, SInv, SessionTypeOK
<1>3. QED
  BY <1>1, <1>2, Distinct

LEMMA LogoutFeeds ==
  ASSUME FInv, NEW r \in Request, Logout(r)
  PROVE  FInv'
<1>1. /\ SInv'
      /\ UNCHANGED <<now, issued, gatewayVars>>
      /\ stamp[r] \in Instant /\ \A l \in issued : stamp'[l] = stamp[l]
      /\ \/ UNCHANGED <<rows, revokedAt>>
         \/ /\ access[r] \in issued \ rows /\ rows' = rows \cup {access[r]}
            /\ revokedAt' = [revokedAt EXCEPT ![access[r]] = stamp[r]]
  BY CommitLogoutKeeps DEF Logout, FInv
<1>2. missed \subseteq missed' /\ missed' \subseteq issued'
  BY <1>1 DEF Logout, FInv, TypeOK
<1>3. TypeOK'
  BY <1>1, <1>2 DEF FInv, TypeOK, SInv, gatewayVars
<1>4. \A l \in issued' : Held(l)'
  BY <1>1 DEF FInv, Held, gatewayVars
<1>5. \A l \in issued' : GoneExpired(l)'
  BY <1>1 DEF FInv, GoneExpired, Expiry, SInv, SessionTypeOK
<1>6. \A l \in Login \ issued' : putAt'[l] = NoTime /\ revokedAt'[l] = NoTime
  BY <1>1 DEF FInv, SInv, SessionTypeOK, gatewayVars
<1>7. ASSUME NEW l \in rows', l \in rows PROVE Followed(l)' /\ (poll = "reply" => Answered(l)')
  <2>1. revokedAt'[l] = revokedAt[l]
    BY <1>1, <1>7 DEF FInv, SInv, SessionTypeOK
  <2>2. QED
    BY <1>1, <1>2, <1>7, <2>1 DEF FInv, Followed, Answered, gatewayVars
<1>8. ASSUME NEW l \in rows', l \notin rows PROVE Followed(l)' /\ (poll = "reply" => Answered(l)')
  <2>1. l = access[r] /\ revokedAt'[l] = stamp[r] /\ rows' # rows
    BY <1>1, <1>8 DEF FInv, SInv, SessionTypeOK
  <2>2. stamp[r] <= Passed => l \in missed'
    BY <2>1 DEF Logout
  <2>3. stamp[r] \in Int /\ cursor \in Int /\ reply.next \in Int
    BY <1>1, Distinct DEF FInv, TypeOK
  <2>4. /\ stamp[r] <= cursor => stamp[r] <= Passed
        /\ poll = "reply" /\ cursor < stamp[r] /\ stamp[r] <= reply.next => stamp[r] <= Passed
    BY <2>3 DEF Passed
  <2>5. QED
    BY <1>1, <2>1, <2>2, <2>4 DEF Followed, Answered, gatewayVars
<1>9. QED
  BY <1>1, <1>3, <1>4, <1>5, <1>6, <1>7, <1>8 DEF FInv, gatewayVars

LEMMA StepFeeds ==
  ASSUME FInv, NEW r \in Request, SessionStep(r), UNCHANGED <<gatewayVars, missed>>
  PROVE  FInv'
<1>1. /\ SInv' /\ UNCHANGED <<now, rows, revokedAt>>
      /\ issued \subseteq issued' /\ \A l \in issued : stamp'[l] = stamp[l]
  BY SessionStepKeeps DEF FInv
<1>2. TypeOK'
  BY <1>1 DEF FInv, TypeOK, SInv, gatewayVars
<1>3. ASSUME NEW l \in issued' PROVE Held(l)' /\ GoneExpired(l)'
  <2>1. CASE l \in issued
    BY <1>1, <2>1 DEF FInv, Held, GoneExpired, Expiry, gatewayVars
  <2>2. CASE l \notin issued
    BY <1>1, <2>2 DEF FInv, SInv, SessionTypeOK, Held, GoneExpired, gatewayVars
  <2>3. QED
    BY <2>1, <2>2
<1>4. QED
  BY <1>1, <1>2, <1>3 DEF FInv, Followed, Answered, gatewayVars

LEMMA CleanupFeeds ==
  ASSUME FInv, Cleanup, UNCHANGED <<gatewayVars, missed>>
  PROVE  FInv'
<1>1. /\ SInv' /\ rows' = {l \in rows : Expiry(l) >= now}
      /\ UNCHANGED <<now, issued, revokedAt, stamp>>
  BY CleanupKeeps DEF FInv, Cleanup
<1>2. TypeOK'
  BY <1>1 DEF FInv, TypeOK, SInv, gatewayVars
<1>3. ASSUME NEW l \in issued PROVE GoneExpired(l)'
  BY <1>1, TokenInts DEF FInv, GoneExpired, Expiry
<1>4. QED
  BY <1>1, <1>2, <1>3 DEF FInv, Held, Followed, Answered, gatewayVars

LEMMA TickFeeds ==
  ASSUME FInv, Tick, UNCHANGED <<sessionVars, gatewayVars, missed>>
  PROVE  FInv'
<1>1. now \in Nat /\ now' = now + 1 /\ now' \in Instant
  BY MaxTimeAssumption DEF Tick, FInv, SInv, Instant
<1>2. SInv' /\ UNCHANGED <<issued, rows, revokedAt, stamp>>
  BY <1>1, SInvStutter DEF FInv, sessionVars, tables
<1>3. TypeOK'
  BY <1>2 DEF FInv, TypeOK, SInv, gatewayVars
<1>4. ASSUME NEW l \in issued PROVE Held(l)' /\ GoneExpired(l)'
  <2>1. /\ putAt[l] + CacheTtl < now => putAt[l] + CacheTtl < now'
        /\ Expiry(l) < now => Expiry(l) < now'
    BY <1>1, TokenInts
  <2>2. QED
    BY <1>2, <2>1 DEF FInv, Held, GoneExpired, Expiry, gatewayVars
<1>5. QED
  BY <1>2, <1>3, <1>4 DEF FInv, Followed, Answered, gatewayVars

LEMMA StartPollFeeds == ASSUME FInv, StartPoll PROVE FInv'
<1>1. SInv' /\ UNCHANGED <<now, issued, rows, revokedAt, stamp, putAt, cursor, reply, missed>>
  BY SInvStutter DEF FInv, SInv, StartPoll, sessionVars, tables
<1>2. TypeOK'
  BY <1>1, PageAssumption DEF FInv, TypeOK, SInv, StartPoll
<1>3. ASSUME NEW l \in issued PROVE Held(l)'
  <2>1. l \in known \ known' => putAt[l] + CacheTtl < now
    BY TokenInts DEF StartPoll
  <2>2. QED
    BY <1>1, <2>1 DEF FInv, Held
<1>4. QED
  BY <1>1, <1>2, <1>3 DEF FInv, StartPoll, Followed, GoneExpired, Expiry

LEMMA ServeFeeds == ASSUME FInv, Serve PROVE FInv'
<1>1. /\ SInv'
      /\ UNCHANGED <<now, issued, rows, revokedAt, stamp, known, putAt, cursor, page, began,
                     resets, missed>>
  BY SInvStutter DEF FInv, SInv, Serve, sessionVars, tables
<1>2. PICK p \in SUBSET Fresh :
        /\ \A i \in p, j \in Fresh \ p : revokedAt[i] <= revokedAt[j]
        /\ reply' = [jtis |-> p,
                      next |-> IF p = {} THEN cursor ELSE Max({revokedAt[l] : l \in p})]
  BY DEF Serve, Page
<1>3. p \subseteq rows /\ p \subseteq issued
  BY <1>2 DEF Fresh, FInv, SInv, SessionTypeOK
<1>4. p # {} => reply'.next \in Instant /\ \E i \in p : revokedAt[i] = reply'.next
  BY <1>2, <1>3, NextCursor DEF FInv
<1>5. reply' \in [jtis : SUBSET issued, next : Instant \cup {NoTime}]
  BY <1>2, <1>3, <1>4 DEF FInv, TypeOK
<1>6. TypeOK'
  BY <1>1, <1>5 DEF FInv, TypeOK, SInv, Serve
<1>7. ASSUME NEW l \in rows PROVE Answered(l)'
  <2>1. cursor < revokedAt[l] => l \in Fresh
    BY RowInts, TokenInts DEF Fresh
  <2>2. CASE p = {}
    BY <1>1, <1>2, <2>2, RowInts, TokenInts DEF Answered
  <2>3. CASE p # {} /\ l \in Fresh \ p
    <3>1. PICK i \in p : revokedAt[i] = reply'.next
      BY <1>4, <2>3
    <3>2. revokedAt[i] <= revokedAt[l] /\ revokedAt[i] \in Int
      BY <1>2, <1>3, <2>3, RowInts, TokenInts
    <3>3. QED
      BY <1>1, <3>1, <3>2, RowInts, TokenInts DEF Answered
  <2>4. QED
    BY <1>1, <1>2, <2>1, <2>2, <2>3 DEF Answered
<1>8. QED
  BY <1>1, <1>6, <1>7 DEF FInv, Held, GoneExpired, Followed, Expiry

LEMMA ReceiveFeeds == ASSUME FInv, Receive PROVE FInv'
<1>1. /\ SInv' /\ UNCHANGED <<now, issued, rows, revokedAt, stamp, resets>>
      /\ cursor' = reply.next /\ missed' = missed \cup Cut /\ known' = known \cup reply.jtis
      /\ putAt' = [l \in Login |-> IF l \in reply.jtis THEN began ELSE putAt[l]]
      /\ reply' = NoReply /\ poll' # "reply"
  BY SInvStutter DEF FInv, SInv, Receive, EndPoll, sessionVars, tables
<1>2. /\ poll' \in {"idle", "ask"} /\ page' \in 0..(MaxPages - 1) /\ began' \in Instant
  BY MaxTimeAssumption, PageAssumption
  DEF FInv, TypeOK, Receive, MorePages, EndPoll, Instant
<1>3. Cut \subseteq issued
  BY DEF Cut, FInv, SInv, SessionTypeOK
<1>4. TypeOK'
  BY <1>1, <1>2, <1>3 DEF FInv, TypeOK, SInv, NoReply
<1>5. \A l \in Login : putAt'[l] = IF l \in reply.jtis THEN began ELSE putAt[l]
  BY <1>1
<1>6. reply.jtis \subseteq issued /\ began # NoTime
  BY Distinct DEF FInv, TypeOK
<1>7. ASSUME NEW l \in issued PROVE Held(l)' /\ GoneExpired(l)'
  BY <1>1, <1>5, TokenInts DEF FInv, Held, GoneExpired, Expiry
<1>8. \A l \in Login \ issued : putAt'[l] = NoTime
  BY <1>5, <1>6 DEF FInv
<1>9. ASSUME NEW l \in rows PROVE Followed(l)'
  <2>1. poll = "reply" /\ l \in Login
    BY RowInts, TokenInts DEF Receive
  <2>2. CASE l \in reply.jtis
    BY <1>5, <1>6, <2>1, <2>2 DEF Followed
  <2>3. CASE l \notin reply.jtis /\ revokedAt[l] <= cursor
    BY <1>1, <1>5, <2>1, <2>3 DEF Followed, FInv
  <2>4. CASE l \notin reply.jtis /\ cursor < revokedAt[l]
    <3>1. cursor < reply.next /\ revokedAt[l] = reply.next => l \in Cut
      BY <2>4 DEF Cut
    <3>2. QED
      BY <1>1, <2>1, <2>4, <3>1 DEF Followed, Answered, FInv
  <2>5. QED
    BY <2>2, <2>3, <2>4, RowInts, TokenInts
<1>10. QED
  BY <1>1, <1>4, <1>7, <1>8, <1>9 DEF FInv

LEMMA ReceiveNothingFeeds == ASSUME FInv, ReceiveNothing PROVE FInv'
<1>1. /\ SInv' /\ UNCHANGED <<now, issued, rows, revokedAt, stamp, known, putAt, reply>>
      /\ cursor' = NoTime /\ missed' = {} /\ poll' = "idle" /\ page' = 0 /\ began' = 0
  BY SInvStutter DEF FInv, SInv, ReceiveNothing, EndPoll, sessionVars, tables
<1>2. TypeOK'
  BY <1>1, MaxTimeAssumption, PageAssumption, ResetAssumption
  DEF FInv, TypeOK, SInv, Instant, ReceiveNothing
<1>3. ASSUME NEW l \in rows PROVE Followed(l)'
  <2>1. ~(revokedAt[l] <= NoTime)
    BY RowInts DEF NoTime
  <2>2. QED
    BY <1>1, <2>1 DEF Followed
<1>4. QED
  BY <1>1, <1>2, <1>3 DEF FInv, Held, GoneExpired, Expiry

LEMMA PollFailsFeeds == ASSUME FInv, PollFails PROVE FInv'
<1>1. /\ SInv'
      /\ UNCHANGED <<now, issued, rows, revokedAt, stamp, known, putAt, cursor, resets, missed>>
      /\ poll' = "idle" /\ page' = 0 /\ began' = 0 /\ reply' = NoReply
  BY SInvStutter DEF FInv, SInv, PollFails, EndPoll, sessionVars, tables
<1>2. TypeOK'
  BY <1>1, MaxTimeAssumption, PageAssumption DEF FInv, TypeOK, SInv, NoReply, Instant
<1>3. QED
  BY <1>1, <1>2 DEF FInv, Held, GoneExpired, Followed, Expiry

LEMMA RestartFeeds == ASSUME FInv, Restart PROVE FInv'
<1>1. /\ SInv' /\ UNCHANGED <<now, issued, rows, revokedAt, stamp>>
      /\ known' = {} /\ putAt' = [l \in Login |-> NoTime] /\ cursor' = NoTime /\ missed' = {}
      /\ poll' = "idle" /\ page' = 0 /\ began' = 0 /\ reply' = NoReply
  BY SInvStutter DEF FInv, SInv, Restart, EndPoll, sessionVars, tables
<1>2. TypeOK'
  BY <1>1, MaxTimeAssumption, PageAssumption, ResetAssumption
  DEF FInv, TypeOK, SInv, NoReply, Instant, Restart
<1>3. ASSUME NEW l \in rows PROVE Followed(l)'
  <2>1. ~(revokedAt[l] <= NoTime)
    BY RowInts DEF NoTime
  <2>2. QED
    BY <1>1, <2>1 DEF Followed
<1>4. \A l \in Login : putAt'[l] = NoTime
  BY <1>1
<1>5. \A l \in issued : l \in Login
  BY TokenInts
<1>6. QED
  BY <1>1, <1>2, <1>3, <1>4, <1>5 DEF FInv, Held, GoneExpired, Expiry

LEMMA FInvNext == FInv /\ [Next]_vars => FInv'
<1> SUFFICES ASSUME FInv, [Next]_vars PROVE FInv'
  OBVIOUS
<1>1. CASE UNCHANGED vars
  <2>1. SInv' /\ UNCHANGED <<now, issued, rows, revokedAt, stamp, gatewayVars, missed>>
    BY <1>1, SInvStutter DEF FInv, SInv, vars, sessionVars, tables
  <2>2. TypeOK'
    BY <2>1 DEF FInv, TypeOK, SInv, gatewayVars
  <2>3. QED
    BY <2>1, <2>2 DEF FInv, Held, GoneExpired, Followed, Answered, Expiry, gatewayVars
<1>2. QED
  BY <1>1, StepFeeds, LogoutFeeds, CleanupFeeds, TickFeeds, StartPollFeeds, ServeFeeds,
     ReceiveFeeds, ReceiveNothingFeeds, PollFailsFeeds, RestartFeeds
  DEF Next, Gateway

LEMMA Invariance == Spec => []FInv
BY InitFInv, FInvNext, PTL DEF Spec

\* Tokens are only known, or on their way, that were issued; a poll never asks
\* for more pages than its share.
THEOREM TypeCorrect == Spec => []TypeOK
<1>1. FInv => TypeOK
  BY DEF FInv
<1>2. QED
  BY <1>1, Invariance, PTL

\* As long as a revoked token would be accepted, skew included, the gateway
\* knows it once the cursor has passed it, with the exceptions the property
\* names. Nothing is assumed of the skew and the two lifetimes.
THEOREM OnlyLateAreMissed == Spec => []FeedMissesOnlyLate
<1>1. ASSUME FInv, NEW l \in issued,
             NoTime < revokedAt[l], revokedAt[l] <= cursor, now <= AcceptedUntil(l)
      PROVE  l \in known \/ l \in missed \/ BroughtTooSoon(l) \/ CleanedUnread(l)
  <2>1. CASE putAt[l] # NoTime
    <3>1. putAt[l] + CacheTtl < now => BroughtTooSoon(l)
      BY <1>1, <2>1, TokenInts DEF BroughtTooSoon
    <3>2. QED
      BY <1>1, <2>1, <3>1 DEF FInv, Held
  <2>2. CASE putAt[l] = NoTime /\ l \in rows
    BY <1>1, <2>2 DEF FInv, Followed
  <2>3. CASE putAt[l] = NoTime /\ l \notin rows
    BY <1>1, <2>3, TokenInts DEF FInv, GoneExpired, CleanedUnread
  <2>4. QED
    BY <2>1, <2>2, <2>3
<1>2. FInv => FeedMissesOnlyLate
  BY <1>1 DEF FeedMissesOnlyLate
<1>3. QED
  BY <1>2, Invariance, PTL
=============================================================================
