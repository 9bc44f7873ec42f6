------------------------------ MODULE Membership ------------------------------
(***************************************************************************)
(* household-service: invites and members of one household.  Every request *)
(* is a transaction at READ COMMITTED whose statements are separate steps: *)
(* a read sees what is committed, a write is seen by others at the commit  *)
(* and blocks writers of the same row until then.                          *)
(*                                                                         *)
(* Invites are updated by writing back the whole row that was read.  Only  *)
(* a live invite is written back, so what a redemption or a revocation     *)
(* writes is known: the other one's columns as null.                       *)
(***************************************************************************)
EXTENDS Naturals, FiniteSets

CONSTANTS
    Request,  \* requests of every kind; a membership's id is the redemption that made it
    User,
    Owner,
    Invite,
    Nobody,
    MaxLive   \* MAX_LIVE_INVITES

ASSUME OwnerAssumption   == Owner \in User /\ Nobody \notin User
ASSUME MaxLiveAssumption == MaxLive \in Nat \ {0}
ASSUME InviteAssumption  == IsFiniteSet(Invite)

VARIABLES
    pc,         \* where each request stands
    ask,        \* what it asks for
    wrote,      \* tables it has written: "members", "invites"
    target,     \* the membership a removal read
    invites,    \* committed rows of household_invites
    redeemedBy,
    revoked,
    expired,    \* invites past their expires_at
    joined,     \* committed rows of household_members, the owner's aside
    removed,    \* those with removed_at
    before      \* history: the requests that had succeeded when each began

vars == <<pc, ask, wrote, target, invites, redeemedBy, revoked, expired, joined, removed, before>>
rowVars == <<invites, redeemedBy, revoked, joined, removed>>

Ask ==
    [kind : {"redeem"}, user : User, invite : Invite]
    \cup [kind : {"revoke", "create"}, invite : Invite]
    \cup [kind : {"remove"}, user : User]

Kind(k) == {r \in Request : ask[r].kind = k}

TypeOK ==
    /\ pc \in [Request -> {"new", "member", "rejoin", "insert", "reinsert", "update", "commit",
                           "done", "refused"}]
    /\ ask \in [Request -> Ask]
    /\ wrote \in [Request -> SUBSET {"members", "invites"}]
    /\ target \in [Request -> Request \cup {Nobody}]
    /\ invites \subseteq Invite
    /\ redeemedBy \in [Invite -> User \cup {Nobody}]
    /\ revoked \subseteq {i \in invites : redeemedBy[i] = Nobody}
    /\ expired \subseteq Invite
    /\ joined \subseteq Kind("redeem")
    /\ removed \subseteq joined
    /\ before \in [Request -> SUBSET Request]

\* Some invites exist already; those to be created have ids of their own.
Init ==
    /\ pc = [r \in Request |-> "new"]
    /\ ask \in [Request -> Ask]
    /\ wrote = [r \in Request |-> {}]
    /\ target = [r \in Request |-> Nobody]
    /\ invites \in {I \in SUBSET Invite : Cardinality(I) <= MaxLive}
    /\ \A q, r \in Kind("create") :
          ask[q].invite \notin invites /\ (ask[q].invite = ask[r].invite => q = r)
    /\ redeemedBy = [i \in Invite |-> Nobody]
    /\ revoked = {}
    /\ expired = {}
    /\ joined = {}
    /\ removed = {}
    /\ before = [r \in Request |-> {}]

-----------------------------------------------------------------------------

\* The live memberships of u, and whether u has one.
MembershipsOf(u) == {q \in joined \ removed : ask[q].user = u}
IsMember(u)      == u = Owner \/ MembershipsOf(u) # {}

Dead(i) == redeemedBy[i] # Nobody \/ i \in revoked

\* Mutant of IsLive: revocation is not looked at.
IsUnused(i) == redeemedBy[i] = Nobody /\ i \notin expired

IsLive(i) == ~Dead(i) /\ i \notin expired

\* r has written the invite i, or a membership of u, and not committed yet.
WritesInvite(r, i) == pc[r] # "done" /\ "invites" \in wrote[r] /\ ask[r].invite = i
WritesMember(r, u) == pc[r] # "done" /\ "members" \in wrote[r] /\ ask[r].user = u

Goto(r, label) == pc' = [pc EXCEPT ![r] = label]
Begin(r) ==
    pc[r] = "new" /\ before' = [before EXCEPT ![r] = {q \in Request : pc[q] = "done"}]
Write(r, table) == wrote' = [wrote EXCEPT ![r] = @ \cup {table}]

-----------------------------------------------------------------------------
(* redeem                                                                  *)

\* findByCodeHash: a live invite, or one the caller redeemed before.
FindByCode(r) ==
    /\ Begin(r) /\ ask[r].kind = "redeem"
    /\ LET i == ask[r].invite
       IN  /\ i \in invites
           /\ IsLive(i) \/ redeemedBy[i] = ask[r].user
           /\ Goto(r, IF IsLive(i) THEN "member" ELSE "rejoin")
    /\ UNCHANGED <<ask, wrote, target, expired, rowVars>>

\* A member spends a live invite without joining; a caller who redeemed it
\* before gets a membership only if theirs is gone.
FindMember(r) ==
    /\ pc[r] \in {"member", "rejoin"}
    /\ Goto(r, IF pc[r] = "member" THEN IF IsMember(ask[r].user) THEN "update" ELSE "insert"
                                   ELSE IF IsMember(ask[r].user) THEN "done" ELSE "reinsert")
    /\ UNCHANGED <<ask, wrote, target, expired, rowVars, before>>

\* Mutant of InsertMember: the unique index does not exist.
InsertUnindexed(r) ==
    /\ pc[r] \in {"insert", "reinsert"}
    /\ Write(r, "members")
    /\ Goto(r, IF pc[r] = "insert" THEN "update" ELSE "commit")
    /\ UNCHANGED <<ask, target, expired, rowVars, before>>

\* The partial unique index makes it wait for whoever inserts or removes a
\* membership of the user, and fail if one is live then.
InsertMember(r) ==
    /\ pc[r] \in {"insert", "reinsert"}
    /\ \A q \in Request \ {r} : ~WritesMember(q, ask[r].user)
    /\ IF IsMember(ask[r].user)
       THEN Goto(r, "refused") /\ UNCHANGED wrote
       ELSE Write(r, "members") /\ Goto(r, IF pc[r] = "insert" THEN "update" ELSE "commit")
    /\ UNCHANGED <<ask, target, expired, rowVars, before>>

\* UPDATE of the whole row by its id, for redeem and revoke.
UpdateInvite(r) ==
    /\ pc[r] = "update" /\ ask[r].kind \in {"redeem", "revoke"}
    /\ \A q \in Request \ {r} : ~WritesInvite(q, ask[r].invite)
    /\ Write(r, "invites")
    /\ Goto(r, "commit")
    /\ UNCHANGED <<ask, target, expired, rowVars, before>>

CommitRedeem(r) ==
    /\ pc[r] = "commit" /\ ask[r].kind = "redeem"
    /\ joined' = IF "members" \in wrote[r] THEN joined \cup {r} ELSE joined
    /\ LET i == ask[r].invite
       IN  IF "invites" \in wrote[r]
           THEN /\ redeemedBy' = [redeemedBy EXCEPT ![i] = ask[r].user]
                /\ revoked' = revoked \ {i}
           ELSE UNCHANGED <<redeemedBy, revoked>>
    /\ Goto(r, "done")
    /\ UNCHANGED <<ask, wrote, target, invites, expired, removed, before>>

-----------------------------------------------------------------------------
(* revokeInvite, createInvite, removeMember: by the owner, whose role never *)
(* changes.                                                                 *)

FindLive(r) ==
    /\ Begin(r) /\ ask[r].kind = "revoke"
    /\ ask[r].invite \in invites /\ IsLive(ask[r].invite)
    /\ Goto(r, "update")
    /\ UNCHANGED <<ask, wrote, target, expired, rowVars>>

\* Mutant of CommitRevoke: only revoked_at is written.
CommitRevokedAt(r) ==
    /\ pc[r] = "commit" /\ ask[r].kind = "revoke"
    /\ revoked' = revoked \cup {ask[r].invite}
    /\ Goto(r, "done")
    /\ UNCHANGED <<ask, wrote, target, invites, redeemedBy, expired, joined, removed, before>>

CommitRevoke(r) ==
    /\ pc[r] = "commit" /\ ask[r].kind = "revoke"
    /\ revoked' = revoked \cup {ask[r].invite}
    /\ redeemedBy' = [redeemedBy EXCEPT ![ask[r].invite] = Nobody]
    /\ Goto(r, "done")
    /\ UNCHANGED <<ask, wrote, target, invites, expired, joined, removed, before>>

\* countLiveByHouseholdId: expired invites count.
CountLive == Cardinality({i \in invites : ~Dead(i)})

\* Mutant of CheckLimit: off by one.
CheckLimitReached(r) ==
    /\ Begin(r) /\ ask[r].kind = "create"
    /\ CountLive <= MaxLive
    /\ Goto(r, "commit")
    /\ UNCHANGED <<ask, wrote, target, expired, rowVars>>

CheckLimit(r) ==
    /\ Begin(r) /\ ask[r].kind = "create"
    /\ CountLive < MaxLive
    /\ Goto(r, "commit")
    /\ UNCHANGED <<ask, wrote, target, expired, rowVars>>

CommitInvite(r) ==
    /\ pc[r] = "commit" /\ ask[r].kind = "create"
    /\ invites' = invites \cup {ask[r].invite}
    /\ Goto(r, "done")
    /\ UNCHANGED <<ask, wrote, target, redeemedBy, revoked, expired, joined, removed, before>>

\* Mutant of FindTarget: removed memberships are found, too.
FindTombstone(r) ==
    /\ Begin(r) /\ ask[r].kind = "remove"
    /\ \E m \in {q \in joined : ask[q].user = ask[r].user} : target' = [target EXCEPT ![r] = m]
    /\ Goto(r, "update")
    /\ UNCHANGED <<ask, wrote, expired, rowVars>>

\* The owner cannot be removed.
FindTarget(r) ==
    /\ Begin(r) /\ ask[r].kind = "remove"
    /\ ask[r].user # Owner
    /\ \E m \in MembershipsOf(ask[r].user) : target' = [target EXCEPT ![r] = m]
    /\ Goto(r, "update")
    /\ UNCHANGED <<ask, wrote, expired, rowVars>>

\* UPDATE ... WHERE id AND removed_at IS NULL.
MarkRemoved(r) ==
    /\ pc[r] = "update" /\ ask[r].kind = "remove"
    /\ \A q \in Request \ {r} : WritesMember(q, ask[r].user) => target[q] # target[r]
    /\ Write(r, "members")
    /\ Goto(r, "commit")
    /\ UNCHANGED <<ask, target, expired, rowVars, before>>

CommitRemove(r) ==
    /\ pc[r] = "commit" /\ ask[r].kind = "remove"
    /\ removed' = removed \cup {target[r]}
    /\ Goto(r, "done")
    /\ UNCHANGED <<ask, wrote, target, invites, redeemedBy, revoked, expired, joined, before>>

-----------------------------------------------------------------------------
\* A refusal, a failing statement, a crash: the transaction rolls back.
Refuse(r) ==
    /\ pc[r] \notin {"done", "refused"}
    /\ Goto(r, "refused")
    /\ wrote' = [wrote EXCEPT ![r] = {}]
    /\ target' = [target EXCEPT ![r] = Nobody]
    /\ UNCHANGED <<ask, expired, rowVars, before>>

Expire(i) ==
    /\ i \in invites \ expired
    /\ expired' = expired \cup {i}
    /\ UNCHANGED <<pc, ask, wrote, target, rowVars, before>>

Redeem(r) == FindByCode(r) \/ FindMember(r) \/ InsertMember(r) \/ CommitRedeem(r)
Revoke(r) == FindLive(r) \/ CommitRevoke(r)
Create(r) == CheckLimit(r) \/ CommitInvite(r)
Remove(r) == FindTarget(r) \/ MarkRemoved(r) \/ CommitRemove(r)

Next ==
    \/ \E r \in Request :
          Redeem(r) \/ Revoke(r) \/ UpdateInvite(r) \/ Create(r) \/ Remove(r) \/ Refuse(r)
    \/ \E i \in Invite : Expire(i)

Spec == Init /\ [][Next]_vars

-----------------------------------------------------------------------------
(* Properties.                                                             *)

\* One of two requests had succeeded when the other began.
Serial(q, r) == q \in before[r] \/ r \in before[q]

Done(k) == {r \in Kind(k) : pc[r] = "done"}

\* Requests that spent an invite: live redemptions and revocations.
Spent == {r \in Done("redeem") \cup Done("revoke") : "invites" \in wrote[r]}

\* However redemptions race, a user has at most one live membership, so
\* removing it removes the user.
OneMembership ==
    \A q, r \in joined \ removed : ask[q].user = ask[r].user => q = r

\* An invite is spent twice, by redeeming or revoking it, only by requests
\* that ran at the same time.
SpentOnceUnlessConcurrent ==
    \A q, r \in Spent : q # r /\ ask[q].invite = ask[r].invite => ~Serial(q, r)

\* A spent invite shows one of the requests that spent it and nothing older:
\* whole-row updates never make it live again or lose a later redemption.
ShowsWhoSpentIt ==
    \A r \in Spent : LET i == ask[r].invite IN
        \E q \in Spent :
            /\ ask[q].invite = i /\ q \notin before[r]
            /\ IF ask[q].kind = "redeem" THEN redeemedBy[i] = ask[q].user /\ i \notin revoked
                                         ELSE redeemedBy[i] = Nobody /\ i \in revoked

\* The limit on live invites holds unless creations race.
LimitUnlessConcurrent ==
    (\A q, r \in Done("create") : q # r => Serial(q, r)) => CountLive <= MaxLive

\* A removal that succeeded leaves no membership that was there before it began.
RemovalTakesEffect ==
    \A r \in Done("remove") : MembershipsOf(ask[r].user) \cap before[r] = {}

\* spec 4: an invite is single-use.
SingleUse ==
    \A q, r \in joined : ask[q].invite = ask[r].invite => ask[q].user = ask[r].user
=============================================================================
