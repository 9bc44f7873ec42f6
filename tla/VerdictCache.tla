---------------------------- MODULE VerdictCache ----------------------------
(***************************************************************************)
(* Household access in meter-, provider- and reading-service: the role of  *)
(* one user in one household is asked of household-service over HTTP and   *)
(* its answer cached.  A cached verdict is used without asking; the call   *)
(* has no time limit and nothing orders the answers of two calls.          *)
(***************************************************************************)
EXTENDS Clock

CONSTANTS
    Caller,      \* requests that need a verdict
    Role,        \* "NONE": not a member
    WriteRoles,  \* WRITE_ROLES
    VerdictTtl,  \* VERDICT_TTL_MS
    MaxChanges   \* bound on role changes

ASSUME RoleAssumption       == "NONE" \in Role /\ WriteRoles \subseteq Role \ {"NONE"}
ASSUME VerdictTtlAssumption == VerdictTtl \in Nat \ {0}
ASSUME MaxChangesAssumption == MaxChanges \in Nat

VARIABLES
    role,     \* household-service: the user's role
    changes,  \* how often it has changed, which tells verdicts apart
    cached,   \* entries: the cached verdict
    call,     \* each caller: its call, or the verdict it acts on
    settled   \* history: since when no superseded answer has been cached

cacheVars == <<role, changes, cached, call, settled>>

Verdict == [role : Role, of : 0..MaxChanges]
NoEntry == [verdict |-> [role |-> "NONE", of |-> 0], expires |-> 0]

CacheTypeOK ==
    /\ role \in Role
    /\ changes \in 0..MaxChanges
    /\ cached \in [verdict : Verdict, expires : Nat]
    /\ call \in [Caller -> [step : {"idle", "sent"}]
                           \cup [step : {"answered", "known"}, verdict : Verdict]]
    /\ settled \in Nat

CacheInit ==
    /\ role \in Role
    /\ changes = 0
    /\ cached = NoEntry
    /\ call = [c \in Caller |-> [step |-> "idle"]]
    /\ settled = 0

Current        == [role |-> role, of |-> changes]
SetCall(c, to) == call' = [call EXCEPT ![c] = to]
Know(c, v)     == SetCall(c, [step |-> "known", verdict |-> v])

\* A membership is created, changed or removed.
ChangeRole ==
    /\ changes < MaxChanges
    /\ role' \in Role \ {role}
    /\ changes' = changes + 1
    /\ settled' = now
    /\ UNCHANGED <<now, cached, call>>

\* Mutant of Hit: expiresAt is not looked at.
HitAny == cached # NoEntry

Hit == cached.expires > now

\* get: an entry that has not expired is the verdict.
Get(c) ==
    /\ call[c].step = "idle"
    /\ IF Hit THEN Know(c, cached.verdict) ELSE SetCall(c, [step |-> "sent"])
    /\ UNCHANGED <<now, role, changes, cached, settled>>

\* household-service answers with the role of this moment.
Answer(c) ==
    /\ call[c].step = "sent"
    /\ SetCall(c, [step |-> "answered", verdict |-> Current])
    /\ UNCHANGED <<now, role, changes, cached, settled>>

\* put: whatever arrives replaces the entry, the answer to an older call, too.
Put(c) ==
    /\ call[c].step = "answered"
    /\ cached' = [verdict |-> call[c].verdict, expires |-> now + VerdictTtl]
    /\ settled' = IF call[c].verdict = Current THEN settled ELSE now
    /\ Know(c, call[c].verdict)
    /\ UNCHANGED <<now, role, changes>>

\* FetchError, or the end of the request: nothing is cached.
Drop(c) == SetCall(c, [step |-> "idle"])

\* assertCanRead and assertCanWrite let the caller pass.
CanRead(c)  == call[c].step = "known" /\ call[c].verdict.role # "NONE"
CanWrite(c) == call[c].step = "known" /\ call[c].verdict.role \in WriteRoles

\* The Map is in memory.
CacheRestart ==
    /\ cached' = NoEntry
    /\ UNCHANGED <<role, changes, call, settled>>

\* The stale-allow window of docs/service-boundaries: a wrong verdict is taken
\* from the cache only within VERDICT_TTL of the change that made it wrong, or
\* of the arrival of the last answer that the change had overtaken.
StaleAllowWindow ==
    [][\A c \in Caller :
          call[c].step = "idle" /\ call'[c].step = "known" /\ call'[c].verdict # Current
              => now < settled + VerdictTtl]_call
=============================================================================
