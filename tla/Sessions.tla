------------------------------ MODULE Sessions ------------------------------
(***************************************************************************)
(* identity-service: login, refresh and logout.  Each is a transaction at  *)
(* READ COMMITTED; a refresh token row and an access token are named by    *)
(* the login that issued them.  UPDATE waits for the transaction that      *)
(* holds the row, and its row count is ignored: waiting changes nothing,   *)
(* and what it writes is seen when its transaction commits.                *)
(***************************************************************************)
EXTENDS Clock, Integers

CONSTANTS
    Request,
    Early,      \* logins from before the model starts
    None,
    AccessTtl   \* access-token-ttl

ASSUME EarlyAssumption     == Early \cap Request = {} /\ None \notin Early \cup Request
ASSUME AccessTtlAssumption == AccessTtl \in Nat \ {0}

Login   == Early \cup Request   \* who can issue tokens
NoTime  == -1
Instant == 0..MaxTime

VARIABLES
    pc,         \* where each request stands
    kind,       \* what it is
    token,      \* the refresh token it presents, None for a login
    access,     \* the access token a logout carries, or None
    stamp,      \* the clock it read: iat of a new token, or revoked_at
    issued,     \* committed refresh_tokens
    revoked,    \* those with revoked_at
    rows,       \* committed revoked_access_tokens
    revokedAt,  \* revoked_at of the rows, kept when they are deleted
    spent       \* history: the requests that had spent its token when each began

asked       == <<kind, token, access>>
tables      == <<issued, revoked, rows, revokedAt>>
sessionVars == <<pc, asked, stamp, tables, spent>>

SessionTypeOK ==
    /\ pc \in [Request -> {"new", "begun", "done"}]
    /\ kind \in [Request -> {"login", "refresh", "logout"}]
    /\ token \in [Request -> Login \cup {None}]
    /\ access \in [Request -> Login \cup {None}]
    /\ stamp \in [Login -> Instant]
    /\ issued \subseteq Login
    /\ revoked \subseteq issued
    /\ rows \subseteq issued
    /\ revokedAt \in [Login -> Instant \cup {NoTime}]
    /\ \A l \in rows : revokedAt[l] # NoTime
    /\ spent \in [Request -> SUBSET Request]

SessionInit ==
    /\ pc = [r \in Request |-> "new"]
    /\ kind = [r \in Request |-> "login"]
    /\ token = [r \in Request |-> None]
    /\ access = [r \in Request |-> None]
    /\ stamp = [l \in Login |-> 0]
    /\ issued = Early
    /\ revoked = {}
    /\ rows = {}
    /\ revokedAt = [l \in Login |-> NoTime]
    /\ spent = [r \in Request |-> {}]

Goto(r, label) == pc' = [pc EXCEPT ![r] = label]

\* The request presents the refresh token t and the access token a, and reads
\* the clock it will write; to read it later is to begin later.
Begin(r, k, t, a) ==
    /\ pc[r] = "new" /\ Goto(r, "begun")
    /\ kind' = [kind EXCEPT ![r] = k]
    /\ token' = [token EXCEPT ![r] = t]
    /\ access' = [access EXCEPT ![r] = a]
    /\ stamp' = [stamp EXCEPT ![r] = now]
    /\ spent' = [spent EXCEPT ![r] = {q \in Request : pc[q] = "done" /\ token[q] = t /\ t # None}]
    /\ UNCHANGED <<now, tables>>

\* Mutant of Usable: revoked_at is not looked at.
UsableUnexpired == issued

\* isUsable; a refusal, as of wrong credentials or an expired token, does not
\* begin.
Usable == issued \ revoked

BeginLogin(r)   == Begin(r, "login", None, None)
BeginRefresh(r) == \E t \in Usable : Begin(r, "refresh", t, None)

\* A logout carries a refresh token and the access token it was called with,
\* or one of the two: None is a missing access token, or an unknown refresh
\* token. Each is dealt with apart.
BeginLogout(r) ==
    \E t, a \in issued \cup {None} : (t = a \/ None \in {t, a}) /\ Begin(r, "logout", t, a)

\* A login, or a refresh, which revokes the token it was given.
CommitIssue(r) ==
    /\ pc[r] = "begun" /\ kind[r] \in {"login", "refresh"}
    /\ issued' = issued \cup {r}
    /\ revoked' = IF kind[r] = "refresh" THEN revoked \cup {token[r]} ELSE revoked
    /\ Goto(r, "done")
    /\ UNCHANGED <<now, asked, stamp, rows, revokedAt, spent>>

\* ON CONFLICT DO NOTHING keeps the row of an access token that has one.
CommitLogout(r) ==
    /\ pc[r] = "begun" /\ kind[r] = "logout"
    /\ revoked' = revoked \cup ({token[r]} \ {None})
    /\ IF access[r] \in rows \cup {None}
       THEN UNCHANGED <<rows, revokedAt>>
       ELSE /\ rows' = rows \cup {access[r]}
            /\ revokedAt' = [revokedAt EXCEPT ![access[r]] = stamp[r]]
    /\ Goto(r, "done")
    /\ access' = [access EXCEPT ![r] = None] /\ stamp' = [stamp EXCEPT ![r] = 0]
    /\ UNCHANGED <<now, kind, token, issued, spent>>

\* A failing statement or a crash: rolled back, as if it had not begun.
RollBack(r) ==
    /\ pc[r] = "begun"
    /\ Goto(r, "new")
    /\ kind' = [kind EXCEPT ![r] = "login"]
    /\ token' = [token EXCEPT ![r] = None]
    /\ access' = [access EXCEPT ![r] = None]
    /\ spent' = [spent EXCEPT ![r] = {}]
    /\ stamp' = [stamp EXCEPT ![r] = 0]
    /\ UNCHANGED <<now, tables>>

\* exp of the access token of a login; rows carry it as expires_at. A validator
\* may take the token somewhat longer.
Expiry(l) == stamp[l] + AccessTtl

\* The hourly cleanup.
Cleanup ==
    /\ \E l \in rows : Expiry(l) < now
    /\ rows' = {l \in rows : Expiry(l) >= now}
    /\ UNCHANGED <<now, pc, asked, stamp, issued, revoked, revokedAt, spent>>

SessionStep(r) ==
    BeginLogin(r) \/ BeginRefresh(r) \/ BeginLogout(r) \/ CommitIssue(r) \/ RollBack(r)

-----------------------------------------------------------------------------
(* Properties.                                                             *)

Done == {r \in Request : pc[r] = "done"}

\* RefreshToken: single-use, consumed by a refresh and ended by a logout. A
\* token that one request has spent buys no session from a request that begins
\* later; only requests that overlap can spend it twice.
SpentForLater ==
    \A q, r \in Done : q \in spent[r] => kind[r] # "refresh"
=============================================================================
