--------------------------- MODULE RevocationFeed ---------------------------
(***************************************************************************)
(* The revocation feed from identity-service to the gateway: the gateway   *)
(* polls identity's revocations page by page, with the revoked_at of the   *)
(* last row it was given as its cursor, into a set in memory.  Composed    *)
(* with the sessions whose logouts fill the feed.                          *)
(***************************************************************************)
EXTENDS Sessions, FiniteSets, FiniteSetsExt

CONSTANTS
    PageSize,     \* FEED_PAGE_SIZE
    MaxPages,     \* maxPagesPerPoll
    CacheTtl,     \* tokenTtl: configured to be the lifetime of access tokens
    Skew,         \* clock skew the JWT timestamp check allows
    MaxResets     \* bound on restarts of the gateway and empty bodies

ASSUME PageAssumption     == PageSize \in Nat \ {0} /\ MaxPages \in Nat \ {0}
ASSUME CacheTtlAssumption == CacheTtl \in Nat
ASSUME SkewAssumption     == Skew \in Nat
ASSUME ResetAssumption    == MaxResets \in Nat

VARIABLES
    known,     \* revoked: access tokens the gateway turns down
    putAt,     \* when each was put there last
    cursor,    \* NoTime: null
    poll,      \* whether a poll waits, asks for a page, or awaits the answer
    page,      \* pages the poll has had
    began,     \* its now
    reply,     \* the answer: a page and the next cursor
    resets,    \* how often the cursor went back to null
    missed     \* history: rows the feed has passed over

gatewayVars == <<known, putAt, cursor, poll, page, began, reply, resets>>
vars == <<now, sessionVars, gatewayVars, missed>>

NoReply == [jtis |-> {}, next |-> NoTime]

TypeOK ==
    /\ now \in Instant
    /\ SessionTypeOK
    /\ known \subseteq issued
    /\ putAt \in [Login -> Instant \cup {NoTime}]
    /\ cursor \in Instant \cup {NoTime}
    /\ poll \in {"idle", "ask", "reply"}
    /\ page \in 0..(MaxPages - 1)
    /\ began \in Instant
    /\ reply \in [jtis : SUBSET issued, next : Instant \cup {NoTime}]
    /\ resets \in 0..MaxResets
    /\ missed \subseteq issued

Init ==
    /\ ClockInit
    /\ SessionInit
    /\ known = {}
    /\ putAt = [l \in Login |-> NoTime]
    /\ cursor = NoTime
    /\ poll = "idle"
    /\ page = 0
    /\ began = 0
    /\ reply = NoReply
    /\ resets = 0
    /\ missed = {}

-----------------------------------------------------------------------------

\* The last instant at which the gateway's decoder takes the access token of l
\* if it does not know that it is revoked.
AcceptedUntil(l) == Expiry(l) + Skew

\* The feed has been read up to here, the answer on its way included.
Passed == IF poll = "reply" /\ reply.next > cursor THEN reply.next ELSE cursor

Logout(r) ==
    /\ CommitLogout(r)
    /\ missed' = IF rows' # rows /\ stamp[r] <= Passed THEN missed \cup {access[r]} ELSE missed
    /\ UNCHANGED gatewayVars

EndPoll == poll' = "idle" /\ page' = 0 /\ began' = 0

\* Entries put there longer than the lifetime of a token ago go.
StartPoll ==
    /\ poll = "idle"
    /\ began' = now
    /\ known' = {l \in known : putAt[l] + CacheTtl >= now}
    /\ poll' = "ask" /\ page' = 0
    /\ UNCHANGED <<now, sessionVars, putAt, cursor, reply, resets, missed>>

\* Mutant of Page: ORDER BY is left out.
PageUnordered(fresh, p) ==
    /\ p \subseteq fresh
    /\ Cardinality(p) = PageSize \/ p = fresh

\* The oldest PageSize rows, if there are as many.
Page(fresh, p) ==
    /\ p \subseteq fresh
    /\ Cardinality(p) = PageSize \/ (p = fresh /\ Cardinality(p) < PageSize)
    /\ \A i \in p, j \in fresh \ p : revokedAt[i] <= revokedAt[j]

\* Mutant of Fresh: a null cursor is compared like any other.
FreshSince == {l \in rows : cursor # NoTime /\ revokedAt[l] > cursor}

\* Rows after the cursor, all rows without one.
Fresh == {l \in rows : cursor = NoTime \/ revokedAt[l] > cursor}

\* listRevokedAccessTokens: next is the last one's revoked_at, or the cursor
\* again.
Serve ==
    /\ poll = "ask"
    /\ \E p \in SUBSET Fresh :
          /\ Page(Fresh, p)
          /\ reply' = [jtis |-> p,
                       next |-> IF p = {} THEN cursor ELSE Max({revokedAt[l] : l \in p})]
    /\ poll' = "reply"
    /\ UNCHANGED <<now, sessionVars, known, putAt, cursor, page, began, resets, missed>>

\* Mutant of MorePages: one page too many.
PagesThrough == reply.jtis # {} /\ page + 1 <= MaxPages

MorePages == reply.jtis # {} /\ page + 1 < MaxPages

\* Rows that a page left out although it ended at their revoked_at.
Cut == {l \in rows \ reply.jtis : cursor < reply.next /\ revokedAt[l] = reply.next}

\* The next page is asked for until one is empty or the poll has had its share.
Receive ==
    /\ poll = "reply"
    /\ known' = known \cup reply.jtis
    /\ putAt' = [l \in Login |-> IF l \in reply.jtis THEN began ELSE putAt[l]]
    /\ cursor' = reply.next
    /\ reply' = NoReply
    /\ missed' = missed \cup Cut
    /\ IF MorePages
       THEN poll' = "ask" /\ page' = page + 1 /\ UNCHANGED began
       ELSE EndPoll
    /\ UNCHANGED <<now, sessionVars, resets>>

\* Any exception ends the poll; what earlier pages brought stays.
PollFails ==
    /\ poll # "idle"
    /\ EndPoll /\ reply' = NoReply
    /\ UNCHANGED <<now, sessionVars, known, putAt, cursor, resets, missed>>

\* Identity answers without a body: an empty batch with a null cursor, so the
\* next poll reads the feed from the start.
ReceiveNothing ==
    /\ poll = "ask"
    /\ resets < MaxResets
    /\ resets' = resets + 1
    /\ cursor' = NoTime
    /\ EndPoll
    /\ missed' = {}
    /\ UNCHANGED <<now, sessionVars, known, putAt, reply>>

\* A new gateway reads the feed from the start.
Restart ==
    /\ resets < MaxResets
    /\ resets' = resets + 1
    /\ known' = {}
    /\ putAt' = [l \in Login |-> NoTime]
    /\ cursor' = NoTime
    /\ EndPoll /\ reply' = NoReply
    /\ missed' = {}
    /\ UNCHANGED <<now, sessionVars>>

Gateway == StartPoll \/ Serve \/ Receive \/ ReceiveNothing \/ PollFails \/ Restart

Next ==
    \/ \E r \in Request : SessionStep(r) /\ UNCHANGED <<gatewayVars, missed>>
    \/ \E r \in Request : Logout(r)
    \/ Cleanup /\ UNCHANGED <<gatewayVars, missed>>
    \/ Gateway
    \/ Tick /\ UNCHANGED <<sessionVars, gatewayVars, missed>>

\* @Scheduled starts a poll after each; identity does not fail every call, nor
\* is every answer lost.
Fairness ==
    /\ WF_vars(StartPoll)
    /\ SF_vars(Serve)
    /\ SF_vars(Receive)

Spec == Init /\ [][Next]_vars /\ Fairness

-----------------------------------------------------------------------------
(* Properties.                                                             *)

\* The poll that brought l last began so soon after its issue that it is
\* forgotten while the token is still accepted.
BroughtTooSoon(l) == putAt[l] # NoTime /\ putAt[l] + CacheTtl < AcceptedUntil(l)

\* The row expired and was cleaned up before this gateway read it.
CleanedUnread(l) == putAt[l] = NoTime /\ l \notin rows /\ Expiry(l) < now

\* As long as a revoked token would be accepted, the gateway knows it once the
\* cursor has passed it. The exceptions: a revocation that committed after the
\* feed had served a later one, or that a page cut off from one with its
\* revoked_at (the cursor is compared strictly); a token brought by a poll that
\* began less than the skew after its issue; and a row cleaned up unread, since
\* identity's cleanup does not allow for the skew either.
FeedMissesOnlyLate ==
    \A l \in issued :
        NoTime < revokedAt[l] /\ revokedAt[l] <= cursor /\ now <= AcceptedUntil(l) =>
            l \in known \/ l \in missed \/ BroughtTooSoon(l) \/ CleanedUnread(l)

\* RevocationCache: a logout stops the token within a poll or two. Every
\* revocation the feed has not passed reaches the gateway, whatever fails in
\* between, or its token expires, or a page cuts it off.
RevocationsArrive ==
    \A l \in Early :
        (l \in rows /\ revokedAt[l] > Passed) ~> (l \in known \/ l \notin rows \/ l \in missed)
=============================================================================
