-------------------------- MODULE MembershipProofs --------------------------
(***************************************************************************)
(* Proofs about Membership, for every set of requests, users and invites:  *)
(* what the transactions guarantee although redeem and revoke lock nothing *)
(* before they decide.                                                     *)
(*                                                                         *)
(* Places says what a request's program counter tells about what it wrote  *)
(* and read.  The other parts each follow one kind of row: a membership    *)
(* being inserted (Inserting), an invite about to be spent (Spending), a   *)
(* membership about to be removed (Removing). LimitInv, apart from these,  *)
(* follows the count a creation read until it commits.                     *)
(***************************************************************************)
EXTENDS Membership, FiniteSetTheorems, TLAPS

Places ==
    \A r \in Request :
        /\ \A q \in before[r] : pc[q] = "done"
        /\ pc[r] \in {"member", "rejoin", "insert", "reinsert"} => ask[r].kind = "redeem"
        /\ pc[r] \notin {"update", "commit", "done"} => wrote[r] = {}
        /\ "members" \in wrote[r] => ask[r].kind \in {"redeem", "remove"}
        /\ "invites" \in wrote[r] =>
              ask[r].kind \in {"redeem", "revoke"} /\ pc[r] \in {"commit", "done"}
        /\ r \in joined => pc[r] = "done"
        /\ ask[r].kind = "revoke" /\ pc[r] \in {"update", "commit"} => ask[r].invite \in invites
        /\ ask[r].kind = "revoke" /\ pc[r] = "commit" => "invites" \in wrote[r]

\* A membership being inserted is the only one of its user, and the only insert.
Inserting ==
    \A r \in Kind("redeem") : pc[r] # "done" /\ "members" \in wrote[r] =>
        /\ MembershipsOf(ask[r].user) = {}
        /\ \A q \in Kind("redeem") : WritesMember(q, ask[r].user) => q = r

\* r found its invite live and is about to spend it.
Spends(r) ==
    \/ ask[r].kind = "redeem" /\ pc[r] \in {"member", "insert", "update"}
    \/ ask[r].kind \in {"redeem", "revoke"} /\ pc[r] = "commit" /\ "invites" \in wrote[r]
    \/ ask[r].kind = "revoke" /\ pc[r] = "update"

Spending ==
    \A r \in Request : Spends(r) =>
        \A q \in Spent : ask[q].invite = ask[r].invite => q \notin before[r]

Removing ==
    \A r \in Kind("remove") : pc[r] \in {"update", "commit"} =>
        /\ target[r] \in joined
        /\ MembershipsOf(ask[r].user) \cap before[r] \subseteq {target[r]}

IInv ==
    /\ TypeOK
    /\ Places
    /\ Inserting
    /\ Spending
    /\ Removing
    /\ OneMembership
    /\ SpentOnceUnlessConcurrent
    /\ ShowsWhoSpentIt
    /\ RemovalTakesEffect

-----------------------------------------------------------------------------

LEMMA InitIInv == Init => IInv
<1>1. SUFFICES ASSUME Init PROVE IInv
  OBVIOUS
<1>2. TypeOK
  BY <1>1, OwnerAssumption DEF Init, TypeOK, Kind
<1>3. Spent = {}
  BY <1>1 DEF Init, Spent, Done, Kind
<1>4. Places /\ Inserting /\ Removing /\ OneMembership /\ RemovalTakesEffect
  BY <1>1 DEF Init, Places, Inserting, Removing, OneMembership, RemovalTakesEffect, Kind, Done
<1>5. Spending /\ SpentOnceUnlessConcurrent /\ ShowsWhoSpentIt
  BY <1>3 DEF Spending, SpentOnceUnlessConcurrent, ShowsWhoSpentIt
<1>6. QED
  BY <1>2, <1>4, <1>5 DEF IInv

-----------------------------------------------------------------------------
(* Steps that commit nothing.                                               *)

\* A step of r alone that leaves every committed row as it is.
Quiet(r) ==
    /\ pc[r] # "done"
    /\ pc'[r] = "done" => ask[r].kind = "redeem" /\ wrote'[r] = {}
    /\ \A q \in Request \ {r} : pc'[q] = pc[q] /\ wrote'[q] = wrote[q]
                                /\ target'[q] = target[q] /\ before'[q] = before[q]
    /\ UNCHANGED <<ask, rowVars>>

LEMMA QuietKeepsRows ==
  ASSUME IInv, NEW r \in Request, Quiet(r)
  PROVE  /\ Spent' = Spent
         /\ \A u : MembershipsOf(u)' = MembershipsOf(u)
         /\ OneMembership' /\ SpentOnceUnlessConcurrent' /\ ShowsWhoSpentIt' /\ RemovalTakesEffect'
<1>1. \A u : MembershipsOf(u)' = MembershipsOf(u)
  BY DEF Quiet, rowVars, MembershipsOf
<1>2. Spent' = Spent /\ r \notin Spent
  BY DEF Quiet, Spent, Done, Kind
<1>3. \A q \in Spent : before'[q] = before[q] /\ q \in Request
  BY <1>2 DEF Quiet, Spent, Done, Kind
<1>4. OneMembership'
  BY DEF Quiet, rowVars, IInv, OneMembership
<1>5. SpentOnceUnlessConcurrent'
  BY <1>2, <1>3 DEF Quiet, IInv, SpentOnceUnlessConcurrent, Serial
<1>6. ShowsWhoSpentIt'
  BY <1>2, <1>3 DEF Quiet, rowVars, IInv, ShowsWhoSpentIt
<1>7. RemovalTakesEffect'
  BY <1>1 DEF Quiet, IInv, RemovalTakesEffect, Done, Kind
<1>8. QED
  BY <1>1, <1>2, <1>4, <1>5, <1>6, <1>7

\* The other requests' parts survive; what is left is r's own.
LEMMA QuietStep ==
  ASSUME IInv, NEW r \in Request, Quiet(r), TypeOK',
         /\ \A q \in before'[r] : q \in Request /\ pc[q] = "done"
         /\ pc'[r] \in {"member", "rejoin", "insert", "reinsert"} => ask[r].kind = "redeem"
         /\ pc'[r] \notin {"update", "commit", "done"} => wrote'[r] = {}
         /\ "members" \in wrote'[r] => ask[r].kind \in {"redeem", "remove"}
         /\ "invites" \in wrote'[r] =>
               ask[r].kind \in {"redeem", "revoke"} /\ pc'[r] \in {"commit", "done"}
         /\ ask[r].kind = "revoke" /\ pc'[r] \in {"update", "commit"} => ask[r].invite \in invites
         /\ ask[r].kind = "revoke" /\ pc'[r] = "commit" => "invites" \in wrote'[r],
         ask[r].kind = "redeem" /\ "members" \in wrote'[r] =>
            \/ "members" \in wrote[r]
            \/ /\ MembershipsOf(ask[r].user) = {}
               /\ \A q \in Request \ {r} : ~WritesMember(q, ask[r].user),
         Spends(r)' => \A q \in Spent : ask[q].invite = ask[r].invite => q \notin before'[r],
         ask[r].kind = "remove" /\ pc'[r] \in {"update", "commit"} =>
            /\ target'[r] \in joined
            /\ MembershipsOf(ask[r].user) \cap before'[r] \subseteq {target'[r]}
  PROVE  IInv'
<1>1. Places'
  BY DEF Quiet, rowVars, IInv, TypeOK, Places
<1>2. Inserting'
  <2>1. SUFFICES ASSUME NEW q \in Kind("redeem"), pc'[q] # "done", "members" \in wrote'[q]
                 PROVE  /\ MembershipsOf(ask[q].user) = {}
                        /\ \A x \in Kind("redeem") : WritesMember(x, ask[q].user)' => x = q
    BY QuietKeepsRows DEF Inserting, Quiet, Kind
  <2>2. CASE q = r
    BY <2>1, <2>2 DEF Quiet, IInv, Inserting, Kind, WritesMember
  <2>3. CASE q # r
    BY <2>1, <2>3 DEF Quiet, IInv, Inserting, Kind, WritesMember
  <2>4. QED
    BY <2>2, <2>3
<1>3. Spending'
  BY QuietKeepsRows DEF Quiet, IInv, Spending, Spends
<1>4. Removing'
  BY QuietKeepsRows DEF Quiet, rowVars, IInv, Removing, Kind
<1>5. QED
  BY <1>1, <1>2, <1>3, <1>4, QuietKeepsRows DEF IInv

\* A spent invite is not live.
LEMMA SpentIsDead == IInv => \A q \in Spent : Dead(ask[q].invite)
BY OwnerAssumption DEF IInv, TypeOK, Ask, ShowsWhoSpentIt, Dead, Spent, Done, Kind

LEMMA BeginStep ==
  ASSUME IInv, NEW r \in Request, FindByCode(r) \/ FindLive(r) \/ CheckLimit(r) \/ FindTarget(r)
  PROVE  IInv'
<1>1. Quiet(r) /\ TypeOK'
  BY DEF FindByCode, FindLive, CheckLimit, FindTarget, Begin, Goto, Quiet, rowVars, IInv, TypeOK,
     MembershipsOf, Kind
<1>2. pc[r] = "new" /\ wrote[r] = {} /\ wrote' = wrote
  BY DEF FindByCode, FindLive, CheckLimit, FindTarget, Begin, IInv, Places
<1>3. \A q \in before'[r] : q \in Request /\ pc[q] = "done"
  BY DEF FindByCode, FindLive, CheckLimit, FindTarget, Begin, IInv, TypeOK
<1>4. CASE FindByCode(r)
  <2>1. Spends(r)' => ~Dead(ask[r].invite)
    BY <1>2, <1>4 DEF FindByCode, Goto, Spends, IsLive, IInv, TypeOK
  <2>2. QED
    BY <1>1, <1>2, <1>3, <1>4, <2>1, SpentIsDead, QuietStep
    DEF FindByCode, Goto, IInv, TypeOK
<1>5. CASE FindLive(r)
  BY <1>1, <1>2, <1>3, <1>5, SpentIsDead, QuietStep DEF FindLive, IsLive, Goto, IInv, TypeOK
<1>6. CASE CheckLimit(r)
  <2>1. ~Spends(r)'
    BY <1>2, <1>6 DEF CheckLimit, Goto, Spends, IInv, TypeOK
  <2>2. QED
    BY <1>1, <1>2, <1>3, <1>6, <2>1, QuietStep DEF CheckLimit, Goto, IInv, TypeOK
<1>7. CASE FindTarget(r)
  <2>1. ~Spends(r)'
    BY <1>2, <1>7 DEF FindTarget, Goto, Spends, IInv, TypeOK
  <2>2. target'[r] \in joined /\ MembershipsOf(ask[r].user) \subseteq {target'[r]}
    BY <1>7 DEF FindTarget, MembershipsOf, IInv, TypeOK, OneMembership
  <2>3. QED
    BY <1>1, <1>2, <1>3, <1>7, <2>1, <2>2, QuietStep DEF FindTarget, Goto, IInv, TypeOK
<1>8. QED
  BY <1>4, <1>5, <1>6, <1>7

LEMMA FindMemberStep == ASSUME IInv, NEW r \in Request, FindMember(r) PROVE IInv'
<1>1. ask[r].kind = "redeem" /\ wrote[r] = {} /\ wrote' = wrote
  BY DEF FindMember, IInv, Places
<1>2. Quiet(r) /\ TypeOK'
  BY <1>1 DEF FindMember, Goto, Quiet, rowVars, IInv, TypeOK, Kind
<1>3. Spends(r)' => Spends(r)
  BY <1>1 DEF FindMember, Goto, Spends, IInv, TypeOK
<1>4. QED
  BY <1>1, <1>2, <1>3, QuietStep DEF FindMember, Goto, IInv, TypeOK, Places, Spending

LEMMA InsertMemberStep == ASSUME IInv, NEW r \in Request, InsertMember(r) PROVE IInv'
<1>1. ask[r].kind = "redeem" /\ wrote[r] = {}
  BY DEF InsertMember, IInv, Places
<1>2. Quiet(r) /\ TypeOK'
  BY <1>1 DEF InsertMember, Goto, Write, Quiet, rowVars, IInv, TypeOK, Kind
<1>3. /\ wrote'[r] \in {{}, {"members"}}
      /\ pc'[r] \in {"update", "commit", "refused"}
      /\ pc'[r] = "refused" => wrote'[r] = {}
      /\ pc'[r] = "update" => pc[r] = "insert"
      /\ wrote'[r] # {} => ~IsMember(ask[r].user)
  BY <1>1 DEF InsertMember, Goto, Write, IInv, TypeOK
<1>4. Spends(r)' => Spends(r)
  BY <1>1, <1>3 DEF InsertMember, Spends
<1>5. before'[r] = before[r] /\ \A q \in Request \ {r} : ~WritesMember(q, ask[r].user)
  BY DEF InsertMember
<1>6. QED
  BY <1>1, <1>2, <1>3, <1>4, <1>5, QuietStep DEF IsMember, IInv, TypeOK, Places, Spending

LEMMA UpdateInviteStep == ASSUME IInv, NEW r \in Request, UpdateInvite(r) PROVE IInv'
<1>1. Quiet(r) /\ TypeOK'
  BY DEF UpdateInvite, Goto, Write, Quiet, rowVars, IInv, TypeOK, Kind
<1>2. /\ wrote'[r] = wrote[r] \cup {"invites"} /\ pc'[r] = "commit" /\ pc[r] = "update"
      /\ ask[r].kind \in {"redeem", "revoke"} /\ before'[r] = before[r]
  BY DEF UpdateInvite, Goto, Write, IInv, TypeOK
<1>3. Spends(r)
  BY <1>2 DEF Spends
<1>4. QED
  BY <1>1, <1>2, <1>3, QuietStep DEF IInv, TypeOK, Places, Spending

LEMMA MarkRemovedStep == ASSUME IInv, NEW r \in Request, MarkRemoved(r) PROVE IInv'
<1>1. Quiet(r) /\ TypeOK'
  BY DEF MarkRemoved, Goto, Write, Quiet, rowVars, IInv, TypeOK, Kind
<1>2. /\ wrote'[r] = wrote[r] \cup {"members"} /\ pc'[r] = "commit" /\ pc[r] = "update"
      /\ ask[r].kind = "remove" /\ before'[r] = before[r] /\ target'[r] = target[r]
  BY DEF MarkRemoved, Goto, Write, IInv, TypeOK
<1>3. ~Spends(r)'
  BY <1>1, <1>2 DEF Spends, Quiet
<1>4. QED
  BY <1>1, <1>2, <1>3, QuietStep DEF IInv, TypeOK, Places, Removing, Kind

LEMMA RefuseStep == ASSUME IInv, NEW r \in Request, Refuse(r) PROVE IInv'
<1>1. Quiet(r) /\ TypeOK'
  BY DEF Refuse, Goto, Quiet, rowVars, IInv, TypeOK, Kind
<1>2. wrote'[r] = {} /\ pc'[r] = "refused" /\ before'[r] = before[r]
  BY DEF Refuse, Goto, IInv, TypeOK
<1>3. ~Spends(r)'
  BY <1>1, <1>2 DEF Spends, Quiet
<1>4. QED
  BY <1>1, <1>2, <1>3, QuietStep DEF IInv, TypeOK, Places

-----------------------------------------------------------------------------
(* Commits.                                                                 *)

\* When r commits, nobody's before holds r, and every before still lists
\* requests that are done.
LEMMA CommitFacts ==
  ASSUME IInv, NEW r \in Request, pc[r] = "commit", Goto(r, "done"),
         UNCHANGED <<ask, wrote, target, before>>
  PROVE  /\ \A q \in Request : r \notin before[q]
         /\ pc'[r] = "done" /\ \A q \in Request \ {r} : pc'[q] = pc[q]
         /\ \A k : k # ask[r].kind => Done(k)' = Done(k)
         /\ Done(ask[r].kind)' = Done(ask[r].kind) \cup {r}
         /\ \A q \in Request : Spends(q)' => Spends(q) /\ q # r
BY DEF IInv, TypeOK, Places, Goto, Done, Kind, Spends

LEMMA CommitPlaces ==
  ASSUME IInv, NEW r \in Request, pc[r] = "commit", Goto(r, "done"),
         UNCHANGED <<ask, wrote, target, before>>,
         invites \subseteq invites', joined' \subseteq joined \cup {r}
  PROVE  Places'
<1>1. \A q \in Request : before[q] \subseteq Request
  BY DEF IInv, TypeOK
<1>2. pc'[r] = "done" /\ \A q \in Request \ {r} : pc'[q] = pc[q]
  BY CommitFacts
<1>3. QED
  BY <1>1, <1>2 DEF IInv, Places

\* What a commit does to the invites it may have spent.
LEMMA SpendStep ==
  ASSUME IInv, NEW r \in Request, pc[r] = "commit", Goto(r, "done"),
         UNCHANGED <<ask, wrote, target, before>>,
         "invites" \notin wrote[r] => UNCHANGED <<redeemedBy, revoked>>,
         \A i \in Invite : i # ask[r].invite =>
            redeemedBy'[i] = redeemedBy[i] /\ (i \in revoked' <=> i \in revoked),
         "invites" \in wrote[r] =>
            IF ask[r].kind = "redeem"
            THEN redeemedBy'[ask[r].invite] = ask[r].user /\ ask[r].invite \notin revoked'
            ELSE redeemedBy'[ask[r].invite] = Nobody /\ ask[r].invite \in revoked'
  PROVE  Spending' /\ SpentOnceUnlessConcurrent' /\ ShowsWhoSpentIt'
<1>1. CASE "invites" \notin wrote[r]
  <2>1. Spent' = Spent
    BY <1>1, CommitFacts DEF Spent, Done, Kind
  <2>2. Spending'
    BY <2>1, CommitFacts DEF IInv, Spending
  <2>3. SpentOnceUnlessConcurrent' /\ ShowsWhoSpentIt'
    BY <1>1, <2>1 DEF IInv, SpentOnceUnlessConcurrent, Serial, ShowsWhoSpentIt
  <2>4. QED
    BY <2>2, <2>3
<1>2. CASE "invites" \in wrote[r]
  <2>1. ask[r].kind \in {"redeem", "revoke"} /\ Spends(r)
    BY <1>2 DEF IInv, Places, Spends
  <2>2. Spent' = Spent \cup {r} /\ Spent \subseteq Request
    BY <1>2, <2>1, CommitFacts DEF Spent, Done, Kind
  <2>3. \A q \in Spent : ask[q].invite = ask[r].invite => q \notin before[r]
    BY <2>1 DEF IInv, Spending
  <2>4. Spending'
    BY <2>2, CommitFacts DEF IInv, Spending
  <2>5. SpentOnceUnlessConcurrent'
    BY <2>2, <2>3, CommitFacts DEF IInv, SpentOnceUnlessConcurrent, Serial
  <2>6. ASSUME NEW q \in Spent', ask[q].invite = ask[r].invite
        PROVE  r \in Spent' /\ r \notin before[q]
    BY <2>2, CommitFacts
  <2>7. ASSUME NEW q \in Spent, ask[q].invite # ask[r].invite
        PROVE  ask[q].invite \in Invite
    BY <2>2, <2>7 DEF IInv, TypeOK, Ask, Spent, Done, Kind
  <2>8. ShowsWhoSpentIt'
    <3>1. SUFFICES ASSUME NEW q \in Spent'
                   PROVE  \E c \in Spent' :
                     /\ ask[c].invite = ask[q].invite /\ c \notin before[q]
                     /\ IF ask[c].kind = "redeem"
                        THEN redeemedBy'[ask[q].invite] = ask[c].user
                             /\ ask[q].invite \notin revoked'
                        ELSE redeemedBy'[ask[q].invite] = Nobody /\ ask[q].invite \in revoked'
      BY DEF ShowsWhoSpentIt
    <3>2. CASE ask[q].invite = ask[r].invite
      BY <1>2, <2>6, <3>2
    <3>3. CASE ask[q].invite # ask[r].invite
      BY <2>2, <2>7, <3>3 DEF IInv, ShowsWhoSpentIt
    <3>4. QED
      BY <3>2, <3>3
  <2>9. QED
    BY <2>4, <2>5, <2>8
<1>3. QED
  BY <1>1, <1>2

LEMMA CommitRedeemStep == ASSUME IInv, NEW r \in Request, CommitRedeem(r) PROVE IInv'
<1>1. /\ pc[r] = "commit" /\ ask[r].kind = "redeem" /\ Goto(r, "done")
      /\ UNCHANGED <<ask, wrote, target, before, invites, removed, expired>>
      /\ joined' = IF "members" \in wrote[r] THEN joined \cup {r} ELSE joined
      /\ r \notin joined /\ r \notin removed
  BY DEF CommitRedeem, IInv, Places, TypeOK
<1>2. TypeOK'
  BY DEF CommitRedeem, Goto, IInv, TypeOK, Ask, Kind
<1>3. Spending' /\ SpentOnceUnlessConcurrent' /\ ShowsWhoSpentIt'
  BY <1>1, SpendStep DEF CommitRedeem, IInv, TypeOK, Ask
<1>4. Places'
  BY <1>1, CommitPlaces
<1>5. "members" \in wrote[r] =>
        /\ MembershipsOf(ask[r].user) = {}
        /\ \A q \in Kind("redeem") : WritesMember(q, ask[r].user) => q = r
  BY <1>1 DEF IInv, Inserting, Kind
<1>6. \A u : MembershipsOf(u)' \subseteq
              MembershipsOf(u) \cup (IF "members" \in wrote[r] /\ ask[r].user = u THEN {r} ELSE {})
  BY <1>1 DEF MembershipsOf
<1>7. OneMembership'
  BY <1>1, <1>5 DEF IInv, OneMembership, MembershipsOf
<1>8. Inserting'
  <2>1. SUFFICES ASSUME NEW q \in Kind("redeem"), pc'[q] # "done", "members" \in wrote[q]
                 PROVE  /\ MembershipsOf(ask[q].user)' = {}
                        /\ \A x \in Kind("redeem") : WritesMember(x, ask[q].user)' => x = q
    BY <1>1 DEF Inserting, Kind
  <2>2. q # r /\ pc[q] # "done" /\ WritesMember(q, ask[q].user)
    BY <1>1, <2>1, CommitFacts DEF Kind, WritesMember
  <2>3. "members" \in wrote[r] => ask[r].user # ask[q].user
    BY <1>5, <2>1, <2>2 DEF WritesMember
  <2>4. MembershipsOf(ask[q].user)' = {}
    BY <1>1, <1>6, <2>1, <2>2, <2>3 DEF IInv, Inserting
  <2>5. \A x \in Kind("redeem") : WritesMember(x, ask[q].user)' => WritesMember(x, ask[q].user)
    BY <1>1, CommitFacts DEF WritesMember, Kind
  <2>6. QED
    BY <2>1, <2>2, <2>4, <2>5 DEF IInv, Inserting
<1>9. Removing' /\ RemovalTakesEffect'
  <2>1. \A q \in Kind("remove") : MembershipsOf(ask[q].user)' \cap before[q]
                                     \subseteq MembershipsOf(ask[q].user) \cap before[q]
    BY <1>1, <1>6, CommitFacts DEF Kind
  <2>2. \A q \in Kind("remove") : q # r /\ pc'[q] = pc[q]
    BY <1>1, CommitFacts DEF Kind
  <2>3. Removing'
    BY <1>1, <2>1, <2>2 DEF IInv, Removing, Kind
  <2>4. RemovalTakesEffect'
    BY <1>1, <2>1, <2>2 DEF IInv, RemovalTakesEffect, Done, Kind
  <2>5. QED
    BY <2>3, <2>4
<1>10. QED
  BY <1>2, <1>3, <1>4, <1>7, <1>8, <1>9 DEF IInv

LEMMA CommitRevokeStep == ASSUME IInv, NEW r \in Request, CommitRevoke(r) PROVE IInv'
<1>1. /\ pc[r] = "commit" /\ ask[r].kind = "revoke" /\ Goto(r, "done")
      /\ UNCHANGED <<ask, wrote, target, before, invites, joined, removed, expired>>
      /\ "invites" \in wrote[r] /\ ask[r].invite \in invites
  BY DEF CommitRevoke, IInv, Places
<1>2. TypeOK'
  BY <1>1 DEF CommitRevoke, Goto, IInv, TypeOK, Ask, Kind
<1>3. Spending' /\ SpentOnceUnlessConcurrent' /\ ShowsWhoSpentIt'
  BY <1>1, SpendStep DEF CommitRevoke, IInv, TypeOK, Ask
<1>4. Places'
  BY <1>1, CommitPlaces
<1>5. Inserting' /\ OneMembership'
  BY <1>1, CommitFacts
  DEF IInv, Inserting, Kind, WritesMember, MembershipsOf, OneMembership
<1>6. Removing' /\ RemovalTakesEffect'
  BY <1>1, CommitFacts DEF IInv, Removing, RemovalTakesEffect, Done, Kind, MembershipsOf
<1>7. QED
  BY <1>2, <1>3, <1>4, <1>5, <1>6 DEF IInv

LEMMA CommitInviteStep == ASSUME IInv, NEW r \in Request, CommitInvite(r) PROVE IInv'
<1>1. /\ pc[r] = "commit" /\ ask[r].kind = "create" /\ Goto(r, "done")
      /\ UNCHANGED <<ask, wrote, target, before, redeemedBy, revoked, joined, removed, expired>>
      /\ invites \subseteq invites' /\ "invites" \notin wrote[r]
  BY DEF CommitInvite, IInv, Places
<1>2. TypeOK'
  BY <1>1 DEF CommitInvite, Goto, IInv, TypeOK, Ask, Kind
<1>3. Spending' /\ SpentOnceUnlessConcurrent' /\ ShowsWhoSpentIt'
  BY <1>1, SpendStep
<1>4. Places'
  BY <1>1, CommitPlaces
<1>5. Inserting' /\ OneMembership'
  BY <1>1, CommitFacts
  DEF IInv, Inserting, Kind, WritesMember, MembershipsOf, OneMembership
<1>6. Removing' /\ RemovalTakesEffect'
  BY <1>1, CommitFacts DEF IInv, Removing, RemovalTakesEffect, Done, Kind, MembershipsOf
<1>7. QED
  BY <1>2, <1>3, <1>4, <1>5, <1>6 DEF IInv

LEMMA CommitRemoveStep == ASSUME IInv, NEW r \in Request, CommitRemove(r) PROVE IInv'
<1>1. /\ pc[r] = "commit" /\ ask[r].kind = "remove" /\ Goto(r, "done")
      /\ UNCHANGED <<ask, wrote, target, before, invites, redeemedBy, revoked, joined, expired>>
      /\ removed' = removed \cup {target[r]} /\ target[r] \in joined
      /\ "invites" \notin wrote[r]
  BY DEF CommitRemove, IInv, Places, Removing, Kind
<1>2. TypeOK'
  BY <1>1 DEF Goto, IInv, TypeOK, Kind
<1>3. Spending' /\ SpentOnceUnlessConcurrent' /\ ShowsWhoSpentIt'
  BY <1>1, SpendStep
<1>4. Places'
  BY <1>1, CommitPlaces
<1>5. \A u : MembershipsOf(u)' = MembershipsOf(u) \ {target[r]}
  BY <1>1 DEF MembershipsOf
<1>6. OneMembership'
  BY <1>1 DEF IInv, OneMembership
<1>7. Inserting'
  BY <1>1, <1>5, CommitFacts DEF IInv, Inserting, Kind, WritesMember
<1>8. Removing'
  BY <1>1, <1>5, CommitFacts DEF IInv, Removing, Kind
<1>9. RemovalTakesEffect'
  BY <1>1, <1>5, CommitFacts DEF IInv, Removing, RemovalTakesEffect, Done, Kind
<1>10. QED
  BY <1>2, <1>3, <1>4, <1>6, <1>7, <1>8, <1>9 DEF IInv

LEMMA NextIInv == IInv /\ [Next]_vars => IInv'
<1>1. SUFFICES ASSUME IInv, [Next]_vars PROVE IInv'
  OBVIOUS
<1>2. ASSUME NEW r \in Request,
             \/ Redeem(r) \/ Revoke(r) \/ UpdateInvite(r) \/ Create(r) \/ Remove(r) \/ Refuse(r)
      PROVE  IInv'
  BY <1>1, <1>2, BeginStep, FindMemberStep, InsertMemberStep, UpdateInviteStep, MarkRemovedStep,
     RefuseStep, CommitRedeemStep, CommitRevokeStep, CommitInviteStep, CommitRemoveStep
  DEF Redeem, Revoke, Create, Remove
<1>3. CASE (\E i \in Invite : Expire(i)) \/ UNCHANGED vars
  <2>1. UNCHANGED <<pc, ask, wrote, target, before, rowVars>> /\ expired' \subseteq expired \cup Invite
    BY <1>3 DEF Expire, vars, rowVars
  <2>2. TypeOK' /\ Places' /\ Inserting' /\ Removing' /\ OneMembership' /\ RemovalTakesEffect'
    BY <1>1, <2>1
    DEF rowVars, IInv, TypeOK, Places, Inserting, Removing, OneMembership, RemovalTakesEffect,
        Kind, Done, MembershipsOf, WritesMember
  <2>3. Spent' = Spent /\ \A r \in Request : Spends(r)' = Spends(r)
    BY <2>1 DEF Spent, Done, Kind, Spends
  <2>4. Spending' /\ SpentOnceUnlessConcurrent' /\ ShowsWhoSpentIt'
    BY <1>1, <2>1, <2>3
    DEF rowVars, IInv, Spending, SpentOnceUnlessConcurrent, Serial, ShowsWhoSpentIt
  <2>5. QED
    BY <2>2, <2>4 DEF IInv
<1>4. QED
  BY <1>1, <1>2, <1>3 DEF Next

-----------------------------------------------------------------------------
(* The limit on live invites. A creation reads the count when it begins; the *)
(* count it read still bounds the table at its commit if every creation that *)
(* succeeded had done so before.                                             *)

LiveInvites == {i \in invites : ~Dead(i)}

CreateInv ==
    \A r \in Kind("create") :
        pc[r] = "commit" /\ Done("create") \subseteq before[r] => CountLive < MaxLive

LimitInv == CreateInv /\ LimitUnlessConcurrent

LEMMA LiveFinite ==
  ASSUME TypeOK
  PROVE  IsFiniteSet(LiveInvites) /\ CountLive = Cardinality(LiveInvites) /\ CountLive \in Nat
<1>1. IsFiniteSet(LiveInvites)
  BY InviteAssumption, FS_Subset DEF TypeOK, LiveInvites
<1>2. QED
  BY <1>1, FS_CardinalityType DEF LiveInvites, CountLive

LEMMA InitLimit == Init => LimitInv
<1>1. SUFFICES ASSUME Init PROVE LimitInv
  OBVIOUS
<1>2. LiveInvites = invites
  BY <1>1 DEF Init, LiveInvites, Dead
<1>3. CountLive <= MaxLive
  BY <1>1, <1>2 DEF Init, LiveInvites, CountLive
<1>4. QED
  BY <1>1, <1>3 DEF Init, LimitInv, CreateInv, LimitUnlessConcurrent, Kind

\* A step that ends no creation and revives no invite.
LEMMA LimitKept ==
  ASSUME IInv, IInv', LimitInv, UNCHANGED ask,
         LiveInvites' \subseteq LiveInvites,
         Done("create")' = Done("create"),
         \A q \in Done("create") : before'[q] = before[q],
         \A q \in Kind("create") : pc'[q] = "commit" =>
            CountLive < MaxLive \/ (pc[q] = "commit" /\ before'[q] = before[q])
  PROVE  LimitInv'
<1>1. CountLive \in Nat /\ CountLive' \in Nat /\ CountLive' <= CountLive /\ MaxLive \in Nat
  <2>1. IsFiniteSet(LiveInvites) /\ CountLive = Cardinality(LiveInvites) /\ CountLive \in Nat
    BY LiveFinite DEF IInv
  <2>2. (TypeOK => CountLive = Cardinality(LiveInvites) /\ CountLive \in Nat)'
    BY LiveFinite, PTL
  <2>3. Cardinality(LiveInvites') <= Cardinality(LiveInvites)
    BY <2>1, FS_Subset
  <2>4. QED
    BY <2>1, <2>2, <2>3, MaxLiveAssumption DEF IInv
<1>2. Kind("create")' = Kind("create")
  BY DEF Kind
<1>3. CreateInv'
  BY <1>1, <1>2 DEF LimitInv, CreateInv
<1>4. LimitUnlessConcurrent'
  BY <1>1 DEF LimitInv, LimitUnlessConcurrent, Serial
<1>5. QED
  BY <1>3, <1>4 DEF LimitInv

\* Spending an invite leaves no invite alive that was dead.
LEMMA CommitKillsOnly ==
  ASSUME IInv, NEW r \in Request, CommitRedeem(r) \/ CommitRevoke(r)
  PROVE  LiveInvites' \subseteq LiveInvites
<1>1. CASE CommitRedeem(r)
  <2>1. "invites" \in wrote[r] => ask[r].user \in User
    BY <1>1 DEF CommitRedeem, IInv, TypeOK, Ask
  <2>2. QED
    BY <1>1, <2>1, OwnerAssumption DEF CommitRedeem, IInv, TypeOK, LiveInvites, Dead
<1>2. CASE CommitRevoke(r)
  BY <1>2 DEF CommitRevoke, IInv, TypeOK, LiveInvites, Dead
<1>3. QED
  BY <1>1, <1>2

\* The steps of r that end no creation.
LEMMA RequestLimit ==
  ASSUME IInv, IInv', LimitInv, NEW r \in Request,
         \/ Redeem(r) \/ Revoke(r) \/ UpdateInvite(r) \/ CheckLimit(r) \/ Remove(r) \/ Refuse(r)
  PROVE  LimitInv'
<1>1. /\ UNCHANGED ask /\ pc[r] # "done"
      /\ \A q \in Request \ {r} : pc'[q] = pc[q] /\ before'[q] = before[q]
  BY DEF Redeem, Revoke, Remove, FindByCode, FindMember, InsertMember, CommitRedeem, FindLive,
     CommitRevoke, UpdateInvite, CheckLimit, FindTarget, MarkRemoved, CommitRemove, Refuse,
     Begin, Goto, IInv, TypeOK
<1>2. LiveInvites' \subseteq LiveInvites
  <2>1. CASE CommitRedeem(r) \/ CommitRevoke(r)
    BY <2>1, CommitKillsOnly
  <2>2. CASE ~(CommitRedeem(r) \/ CommitRevoke(r))
    <3>1. UNCHANGED <<invites, redeemedBy, revoked>>
      BY <2>2 DEF Redeem, Revoke, Remove, FindByCode, FindMember, InsertMember, FindLive,
         UpdateInvite, CheckLimit, FindTarget, MarkRemoved, CommitRemove, Refuse, rowVars
    <3>2. QED
      BY <3>1 DEF LiveInvites, Dead
  <2>3. QED
    BY <2>1, <2>2
<1>3. ask[r].kind = "create" => pc'[r] # "done" /\ (pc'[r] = "commit" => CheckLimit(r))
  BY DEF Redeem, Revoke, Remove, FindByCode, FindMember, InsertMember, CommitRedeem, FindLive,
     CommitRevoke, UpdateInvite, CheckLimit, FindTarget, MarkRemoved, CommitRemove, Refuse,
     Begin, Goto, IInv, TypeOK, Places
<1>4. Done("create")' = Done("create")
  BY <1>1, <1>3 DEF Done, Kind
<1>5. \A q \in Done("create") : before'[q] = before[q]
  BY <1>1 DEF Done, Kind
<1>6. \A q \in Kind("create") : pc'[q] = "commit" =>
         CountLive < MaxLive \/ (pc[q] = "commit" /\ before'[q] = before[q])
  BY <1>1, <1>3 DEF Kind, CheckLimit
<1>7. QED
  BY <1>1, <1>2, <1>4, <1>5, <1>6, LimitKept

\* A creation that every other creation preceded finds the count it read, at
\* most; one that did not makes the premise false.
LEMMA CommitInviteLimit ==
  ASSUME IInv, IInv', LimitInv, NEW r \in Request, CommitInvite(r)
  PROVE  LimitInv'
<1>1. /\ pc[r] = "commit" /\ ask[r].kind = "create" /\ Goto(r, "done")
      /\ UNCHANGED <<ask, wrote, target, before, redeemedBy, revoked>>
      /\ invites' = invites \cup {ask[r].invite}
  BY DEF CommitInvite
<1>2. /\ \A q \in Request : r \notin before[q]
      /\ pc'[r] = "done" /\ \A q \in Request \ {r} : pc'[q] = pc[q]
      /\ Done("create")' = Done("create") \cup {r}
  BY <1>1, CommitFacts
<1>3. r \notin Done("create") /\ Done("create") \subseteq Request
  BY <1>1 DEF Done, Kind
<1>4. CreateInv'
  BY <1>1, <1>2 DEF CreateInv, Kind
<1>5. LimitUnlessConcurrent'
  <2>1. SUFFICES ASSUME \A q \in Done("create") : Serial(q, r)' PROVE CountLive' <= MaxLive
    BY <1>2, <1>3 DEF LimitUnlessConcurrent
  <2>2. Done("create") \subseteq before[r]
    BY <1>1, <1>2, <1>3, <2>1 DEF Serial
  <2>3. CountLive < MaxLive
    BY <1>1, <2>2 DEF LimitInv, CreateInv, Kind
  <2>4. IsFiniteSet(LiveInvites) /\ CountLive = Cardinality(LiveInvites) /\ CountLive \in Nat
    BY LiveFinite DEF IInv
  <2>5. (TypeOK => CountLive = Cardinality(LiveInvites) /\ CountLive \in Nat)'
    BY LiveFinite, PTL
  <2>6. LiveInvites' \subseteq LiveInvites \cup {ask[r].invite}
    BY <1>1 DEF LiveInvites, Dead
  <2>7. /\ IsFiniteSet(LiveInvites \cup {ask[r].invite})
        /\ Cardinality(LiveInvites \cup {ask[r].invite}) <= CountLive + 1
    BY <2>4, FS_AddElement
  <2>8. Cardinality(LiveInvites') <= Cardinality(LiveInvites \cup {ask[r].invite})
    BY <2>6, <2>7, FS_Subset
  <2>9. Cardinality(LiveInvites \cup {ask[r].invite}) \in Nat
    BY <2>7, FS_CardinalityType
  <2>10. QED
    BY <2>3, <2>4, <2>5, <2>7, <2>8, <2>9, MaxLiveAssumption DEF IInv
<1>6. QED
  BY <1>4, <1>5 DEF LimitInv

LEMMA NextLimit == IInv /\ IInv' /\ LimitInv /\ [Next]_vars => LimitInv'
<1>1. SUFFICES ASSUME IInv, IInv', LimitInv, [Next]_vars PROVE LimitInv'
  OBVIOUS
<1>2. ASSUME NEW r \in Request,
             \/ Redeem(r) \/ Revoke(r) \/ UpdateInvite(r) \/ Create(r) \/ Remove(r) \/ Refuse(r)
      PROVE  LimitInv'
  BY <1>1, <1>2, RequestLimit, CommitInviteLimit DEF Create
<1>3. CASE (\E i \in Invite : Expire(i)) \/ UNCHANGED vars
  <2>1. UNCHANGED <<pc, ask, before, rowVars>>
    BY <1>3 DEF Expire, vars, rowVars
  <2>2. LiveInvites' \subseteq LiveInvites /\ Done("create")' = Done("create")
    BY <2>1 DEF rowVars, LiveInvites, Dead, Done, Kind
  <2>3. QED
    BY <1>1, <2>1, <2>2, LimitKept
<1>4. QED
  BY <1>1, <1>2, <1>3 DEF Next

-----------------------------------------------------------------------------
\* Every reachable state of invites and members satisfies the inductive
\* invariant.
THEOREM Invariance == Spec => []IInv
  BY InitIInv, NextIInv, PTL DEF Spec

\* Invites, memberships and requests keep their shapes; no invite is both
\* redeemed and revoked.
THEOREM TypeCorrect == Spec => []TypeOK
<1>1. IInv => TypeOK
  BY DEF IInv
<1>2. QED
  BY <1>1, Invariance, PTL

\* The partial unique index keeps a user at one live membership, however many
\* codes are redeemed at once.
THEOREM OneEach == Spec => []OneMembership
<1>1. IInv => OneMembership
  BY DEF IInv
<1>2. QED
  BY <1>1, Invariance, PTL

\* Reading an invite live is enough to keep it single-use among requests that
\* do not overlap; the finding on single use needs two that do.
THEOREM SpentOnce == Spec => []SpentOnceUnlessConcurrent
<1>1. IInv => SpentOnceUnlessConcurrent
  BY DEF IInv
<1>2. QED
  BY <1>1, Invariance, PTL

\* Writing whole invite rows back never revives an invite and never shows
\* less than the last request that spent it.
THEOREM SpentIsShown == Spec => []ShowsWhoSpentIt
<1>1. IInv => ShowsWhoSpentIt
  BY DEF IInv
<1>2. QED
  BY <1>1, Invariance, PTL

\* Removing the membership that was read removes the user.
THEOREM RemovalHolds == Spec => []RemovalTakesEffect
<1>1. IInv => RemovalTakesEffect
  BY DEF IInv
<1>2. QED
  BY <1>1, Invariance, PTL

\* Counting before inserting keeps the limit on live invites as long as no two
\* creations overlap (createInvite's countLiveByHouseholdId).
THEOREM LimitHoldsSerially == Spec => []LimitUnlessConcurrent
<1>1. Init => IInv /\ LimitInv
  BY InitIInv, InitLimit
<1>2. IInv /\ LimitInv /\ [Next]_vars => (IInv /\ LimitInv)'
  BY NextIInv, NextLimit
<1>3. IInv /\ LimitInv => LimitUnlessConcurrent
  BY DEF LimitInv
<1>4. QED
  BY <1>1, <1>2, <1>3, PTL DEF Spec
=============================================================================
