-------------------------- MODULE ProviderAccounts --------------------------
(***************************************************************************)
(* provider-service: the catalogue of providers and the accounts one       *)
(* member of one household ("home") creates and updates while the          *)
(* catalogue changes.  A request asks for its access verdicts, then reads  *)
(* the provider, then opens the transaction that stores the account; only  *)
(* the last holds a lock.  Composed with the verdict cache.                *)
(***************************************************************************)
EXTENDS VerdictCache, SubmissionWindow

CONSTANTS
    Provider,
    Rule,      \* submission rules that clients send
    None,
    Cycles,    \* bound on the months the windows are compared in
    Reach,     \* bound on the months they are sought in, from the one of a date
    MaxEdits   \* bound on changes of the catalogue

\* A provider belongs to a household, or to all ("global").
ProviderRow == [owner : {"home", "other", "global"}, archived : BOOLEAN, rule : Rule \cup {None}]

Account == [provider : Provider, rule : Rule]

ASSUME NoneAssumption     ==
    None \notin Caller \cup Provider \cup Rule \cup ProviderRow \cup Account
ASSUME RulesAssumption    == Rule \subseteq SubmissionRule
ASSUME CyclesAssumption   == Cycles \subseteq Nat
ASSUME ReachAssumption    == Reach \subseteq Int
ASSUME MaxEditsAssumption == MaxEdits \in Nat

VARIABLES
    catalog,   \* providers, as the database has them; None for no row
    edits,     \* how often the catalogue has changed
    pc,        \* where each account request stands
    ask,       \* what it carries
    choice,    \* what it read: a provider, or None, and the rule to store
    account,   \* provider_accounts, by the request that created it
    doomed     \* history: requests whose provider was archived before and has been since

accountVars == <<pc, ask, choice, account>>
vars == <<now, cacheVars, catalog, edits, accountVars, doomed>>

Ask == [of : Caller \cup {None}, provider : Provider \cup {None}, rule : Rule \cup {None}]

NoAsk    == [of |-> None, provider |-> None, rule |-> None]
NoChoice == [provider |-> None, rule |-> None]

TypeOK ==
    /\ now \in 0..MaxTime
    /\ CacheTypeOK
    /\ catalog \in [Provider -> ProviderRow \cup {None}]
    /\ edits \in 0..MaxEdits
    /\ pc \in [Caller -> {"new", "member", "access", "choose", "store", "done"}]
    /\ ask \in [Caller -> Ask]
    /\ choice \in [Caller -> [provider : Provider \cup {None}, rule : Rule \cup {None}]]
    /\ account \in [Caller -> Account \cup {None}]
    /\ \A r \in Caller : account[r] # None => ask[r].of = None /\ pc[r] = "done"
    /\ doomed \subseteq Caller

Init ==
    /\ ClockInit
    /\ CacheInit
    /\ catalog = [p \in Provider |-> None]
    /\ edits = 0
    /\ pc = [r \in Caller |-> "new"]
    /\ ask = [r \in Caller |-> NoAsk]
    /\ choice = [r \in Caller |-> NoChoice]
    /\ account = [r \in Caller |-> None]
    /\ doomed = {}

\* requireValidRule.
AcceptedRules == {rule \in Rule : Accepted(rule)}

Goto(r, label) == pc' = [pc EXCEPT ![r] = label]

-----------------------------------------------------------------------------
(* The catalogue. Each request ends in one statement; what it reads before *)
(* only decides whether it is refused.                                     *)

Edit(p, row) ==
    /\ edits < MaxEdits
    /\ edits' = edits + 1
    /\ catalog' = [catalog EXCEPT ![p] = row]
    /\ doomed' = IF row.archived THEN doomed ELSE {r \in doomed : ask[r].provider # p}
    /\ UNCHANGED <<now, cacheVars, accountVars>>

\* A default rule is one that requireValidRule accepts.
CreateProvider(p) ==
    /\ catalog[p] = None
    /\ \E o \in {"home", "other", "global"}, rule \in AcceptedRules \cup {None} :
          Edit(p, [owner |-> o, archived |-> FALSE, rule |-> rule])

\* archived and the default rule change or stay; a rule is never removed.
UpdateProvider(p) ==
    /\ catalog[p] # None
    /\ \E a \in BOOLEAN, rule \in AcceptedRules \cup {catalog[p].rule} :
          Edit(p, [catalog[p] EXCEPT !.archived = a, !.rule = rule])

\* Only from a household to all; there is no way back.
PromoteProvider(p) ==
    /\ catalog[p] # None /\ catalog[p].owner # "global"
    /\ Edit(p, [catalog[p] EXCEPT !.owner = "global"])

-----------------------------------------------------------------------------
(* createProviderAccount and updateProviderAccount                         *)

Begin(r, a) ==
    /\ pc[r] = "new"
    /\ ask' = [ask EXCEPT ![r] = a]
    /\ doomed' = IF a.provider # None /\ catalog[a.provider].archived
                 THEN doomed \cup {r} ELSE doomed
    /\ UNCHANGED <<now, cacheVars, catalog, edits, choice, account>>

\* A provider that does not exist is refused as one that cannot be seen.
Known == {p \in Provider : catalog[p] # None}

BeginCreate(r) ==
    /\ \E p \in Known, rule \in Rule \cup {None} :
          Begin(r, [of |-> None, provider |-> p, rule |-> rule])
    /\ Goto(r, "access")

\* An update reads the account: the provider counts only if it differs.
BeginUpdate(r) ==
    /\ \E q \in Caller : /\ account[q] # None
                         /\ \E p \in (Known \ {account[q].provider}) \cup {None},
                               rule \in Rule \cup {None} :
                               Begin(r, [of |-> q, provider |-> p, rule |-> rule])
    /\ Goto(r, "member")

\* The verdict has come: assertCanRead, then assertCanWrite with a verdict of
\* its own.
PassMember(r) ==
    /\ pc[r] = "member" /\ CanRead(r)
    /\ Goto(r, "access")

PassAccess(r) ==
    /\ pc[r] = "access" /\ CanWrite(r)
    /\ Goto(r, "choose")

Pass(r) ==
    /\ PassMember(r) \/ PassAccess(r)
    /\ Drop(r)
    /\ UNCHANGED <<now, role, changes, cached, settled, catalog, edits, ask, choice, account, doomed>>

\* Mutant of Offered: archived is not looked at.
Visible(p) == catalog[p].owner \in {"home", "global"}

\* chooseProvider finds the provider, for this household, and not archived.
Offered(p) == catalog[p].owner \in {"home", "global"} /\ ~catalog[p].archived

\* The rule to store: the one that was sent, or for a new account the default
\* of the provider; None if there is none, or it is not accepted.
Vetted(r) ==
    LET rule == IF ask[r].of = None /\ ask[r].rule = None
                THEN catalog[ask[r].provider].rule ELSE ask[r].rule
    IN  IF rule \in AcceptedRules THEN rule ELSE None

\* Mutant of RuleFits: a new account may do without a rule.
RuleFitsUpdate(r) == ask[r].rule # None => Vetted(r) # None

\* A rule that is sent is accepted, and a new account gets one.
RuleFits(r) == ask[r].of = None \/ ask[r].rule # None => Vetted(r) # None

Choose(r) ==
    /\ pc[r] = "choose"
    /\ ask[r].provider # None => Offered(ask[r].provider)
    /\ RuleFits(r)
    /\ choice' = [choice EXCEPT ![r] = [provider |-> ask[r].provider, rule |-> Vetted(r)]]
    /\ Goto(r, "store")
    /\ UNCHANGED <<now, cacheVars, catalog, edits, ask, account, doomed>>

Changed(old, new) == IF new = None THEN old ELSE new

\* The transaction; an update locks the row and changes what differs.
Store(r) ==
    /\ pc[r] = "store"
    /\ account' =
           IF ask[r].of = None THEN [account EXCEPT ![r] = choice[r]]
           ELSE [account EXCEPT ![ask[r].of] =
                     [provider |-> Changed(@.provider, choice[r].provider),
                      rule     |-> Changed(@.rule, choice[r].rule)]]
    /\ Goto(r, "done")
    /\ choice' = [choice EXCEPT ![r] = NoChoice]
    /\ ask' = [ask EXCEPT ![r].rule = None]
    /\ UNCHANGED <<now, cacheVars, catalog, edits, doomed>>

\* 4xx, a failing call or statement, a crash: nothing is stored, as if the
\* request had not come.
Refuse(r) ==
    /\ pc[r] \in {"member", "access", "choose", "store"}
    /\ Goto(r, "new")
    /\ ask' = [ask EXCEPT ![r] = NoAsk]
    /\ choice' = [choice EXCEPT ![r] = NoChoice]
    /\ doomed' = doomed \ {r}
    /\ Drop(r)
    /\ UNCHANGED <<now, role, changes, cached, settled, catalog, edits, account>>

Asking(r) == pc[r] \in {"member", "access"}

CacheStep(r) ==
    /\ \/ Asking(r) /\ Get(r)
       \/ Answer(r) \/ Put(r)
    /\ UNCHANGED <<catalog, edits, accountVars, doomed>>

Request(r) ==
    BeginCreate(r) \/ BeginUpdate(r) \/ CacheStep(r) \/ Pass(r) \/ Choose(r) \/ Store(r) \/ Refuse(r)

Next ==
    \/ \E p \in Provider : CreateProvider(p) \/ UpdateProvider(p) \/ PromoteProvider(p)
    \/ \E r \in Caller : Request(r)
    \/ ChangeRole /\ UNCHANGED <<catalog, edits, accountVars, doomed>>
    \/ CacheRestart /\ UNCHANGED <<now, catalog, edits, accountVars, doomed>>
    \/ Tick /\ UNCHANGED <<cacheVars, catalog, edits, accountVars, doomed>>

Spec == Init /\ [][Next]_vars

-----------------------------------------------------------------------------
(* Properties.                                                             *)

\* An account belongs to a provider that its household can see, and no request
\* attaches one to a provider that was archived before the request came and
\* has been since: only an archiving that overtakes the request is missed.
ProvidersWereOnOffer ==
    \A r \in Caller :
        /\ account[r] # None => Visible(account[r].provider)
        /\ pc[r] = "done" => r \notin doomed

NeverOverlapping == {rule \in Rule : \A c \in Cycles : ~Overlaps(rule, c)}

\* The finite check of the validator is enough: the windows of a stored rule
\* leave a gap in every month of every year.
StoredRulesNeverOverlap ==
    /\ \A r \in Caller : account[r] # None => account[r].rule \in NeverOverlapping
    /\ \A p \in Provider : catalog[p] # None => catalog[p].rule \in NeverOverlapping \cup {None}

\* currentAndNext sees what a search through all months would.
FindsCurrentAndNext(rule, c, p) ==
    /\ \A k \in Reach : IsCurrent(rule, c, p, k) => CurrentOf(rule, c, p) = {k}
    /\ NextOf(rule, c, p) # {}
    /\ \A k \in Reach : IsAhead(rule, c, p, k) =>
           WindowAt(rule, c, First(NextOf(rule, c, p))).opens <= WindowAt(rule, c, k).opens

\* windowsOverlapping leaves out no window.
FindsRange(rule, c, p) ==
    \A n \in Reach \cap Nat : \A d \in 1..(DaysInMonth(c + n) + 1), k \in Reach :
        LET t == FirstOf(c, n) + d
        IN  InRange(rule, c, p, t, k) => k \in Overlapping(rule, c, n, p, t)

Searchable == {rule \in Rule : \A c \in Cycles : \A p \in 1..DaysInMonth(c) :
                                   FindsCurrentAndNext(rule, c, p) /\ FindsRange(rule, c, p)}

\* The windows a client is shown for an account, those that began a month ago
\* and those that reach into the next included, are the right ones.
WindowsFound == \A r \in Caller : account[r] # None => account[r].rule \in Searchable
=============================================================================
