# meter-hub in TLA+

meter-hub is a set of services around household utility meters: people submit
meter readings, bind meters to provider accounts and share households. This
directory holds TLA+ models of the parts where concurrency and failure decide
whether the data is right, the TLC runs that check them on small instances,
and machine-checked proofs (TLAPS) of what holds on instances of any size.

    tlc -workers 2 -config MCOutbox.cfg MCOutbox     # one run
    tlapm ConsumerLoopProofs.tla                     # the proofs of one module

`PROJECT.json` lists the runs with their properties, maps every modelling
definition to source lines, and lists the hazards, the findings and the
theorems. Comments "Mutant of X" introduce deliberately broken versions of a
definition; no specification uses them. They document the bug each property
would catch.

## Inventory of the system

| Component | State | Operations | Talks to |
|---|---|---|---|
| reading-service, submission (`reading/reading.service.ts`) | `readings` | create, latest, list | meter-service and household-service (HTTP), outbox (same transaction) |
| reading-service, outbox and relay (`reading/outbox.*.ts`) | `reading_outbox`, `running` | save, relayRound | Kafka topic `meter.reading.created` |
| provider-service, outbox and relay (`outbox/`) | `provider_outbox`, `running` | save, tick | Kafka topics of account and binding snapshots |
| events-demo, consumer loop (`consumer/`) | `processed_events`, group offset | handleMessage, deadLetter | Kafka topic and its `.dlq` |
| provider-service, bindings and accounts (`binding/`, `account/`) | `meter_bindings`, `provider_accounts` | bind, end, create, update (archive) | meter-service, outbox |
| provider-service, catalogue (`provider/`) | `providers` | create, update, archive, promote | accounts choose a provider |
| provider-service, submission windows | none (pure) | validate a rule, enumerate windows | accounts and bindings |
| reading-service, idempotency store | `idempotency_keys` | acquire, complete, release, extend, prune | wraps reading creation |
| household-service, membership | households, members, invites | create, invite, revoke, redeem, remove | asked for access verdicts |
| verdict caches (reading, provider, meter) | in-memory map with a TTL | assertCanRead, assertCanWrite | household-service |
| identity-service | users, refresh tokens, revoked access tokens | register, login, refresh, logout, reconcile admins | feed of revocations |
| api-gateway | revocation cache, rate limiter buckets | poll, filter | identity-service feed |
| meter-service | meters | create, update, get | asked by reading and provider |
| frontend, contracts, infrastructure, e2e | - | - | - |

What is hard in it, and what would make each component correct:

* **Outbox.** A row must commit with its reading, be produced before it is
  marked, and survive any crash between. Correct: nothing uncommitted is
  published, nothing marked is missing, every committed event is published,
  order slips only where it is admitted, duplicates come only from failures.
* **Consumer loop.** Redelivery after crashes and rejected handlers, with a
  dedup table, a retry budget and a dead-letter topic. Correct: handled at
  most once, one outcome per event, no poisoned message blocks the partition,
  no committed record without an outcome (which the code does not provide).
* **Readings.** Requests interleave between comparison and store. Correct: a
  meter's counter never decreases in the order of `recordedAt` (it may).
* **Bindings and accounts.** Transactions at READ COMMITTED, an advisory lock,
  a row lock, a partial unique index and a foreign key that together have to
  exclude overlaps and archived accounts.
* **Idempotency store.** Lock expiry against a slow or dead owner.
* **Membership.** Single-use invites redeemed or revoked concurrently; updates
  that write a whole row read earlier.
* **Verdict caches and revocation feed.** Answers applied late, a timestamp
  cursor against commits out of order.
* **Sessions.** Two refreshes with one token.

The full list, each at its line, is under "hazards" in `PROJECT.json`.

## Modules

| Module | Models | Extends / instances |
|---|---|---|
| `Outbox` | writing transaction, relay, broker | |
| `ConsumerLoop` | one consumer of one partition | |
| `EventDelivery` | abstract: what the backbone promises about one event | |
| `AsyncBackbone` | both ends over one topic, refines `EventDelivery` | extends `Outbox`, `ConsumerLoop` as `Consumer` |
| `Readings` | concurrent submissions | |
| `MeterBindings` | bindings and account updates | |
| `Membership` | invites and members of one household | |
| `Clock` | the wall clock | |
| `IdempotencyStore` | the store behind POST /readings | `Clock` |
| `Sessions` | login, refresh, logout | `Clock` |
| `RevocationFeed` | the gateway's poll of revoked access tokens | `Sessions` |
| `VerdictCache` | cached household access verdicts | `Clock` |
| `SubmissionWindow` | calendar, windows and rules, as operators | |
| `ProviderAccounts` | catalogue and account requests | `VerdictCache`, `SubmissionWindow` |
| `...Proofs` (eight) | theorems; those about `Outbox` are in `AsyncBackboneProofs` | the module they are about |
| `MC...` | model values and symmetry for TLC | the module of that name |

### Outbox

`tx[e]` is the transaction of event `e`: `SaveDomainRow`, `SaveOutboxRow`
(which takes `created_at`, before the commit), `CommitTx` or `AbortTx`. The
relay's `phase`, `batch`, `sent` are the locals of `relayRound` and
`publishBatch`; `phase = "idle"` is `running = false`. `StartRound` reads the
batch and produces its first entry, `SendOk` continues after a resolved
`send`, `SendFails` is the `catch` and `break`, `MarkPublished` and `MarkFails`
are the update and its failure. `wire[e]` counts produce requests of `e` that
may still reach the broker: a request outlives the `send` that rejected, the
round and the process. `BrokerAppends` may leave a copy behind (the client's
own retry). `Crash` rolls open transactions back and forgets the round.

`overtaken[e]` is a history variable: what the relay already held when `e`
committed. It states where FIFO order may slip (`FifoExceptLateCommit`).

provider-service has a copy of the relay with two topics; each topic and
partition behaves like the one modelled.

### ConsumerLoop

One action per stretch of `handleMessage` between two awaits: `Receive`,
`Claim` / `Skip` / `ClaimFails` (the insert into `processed_events`), `Parse`,
`HandlerReturns` / `HandlerThrows`, `DeadLetter` / `DeadLetterFails`. kafkajs is
external: resolved offsets (`position`) are committed by `AutoCommit`, or when
`handleMessage` throws; `Restart` goes back to `committed`. A message is its
`eventId`, in one of four classes: well-formed, `Malformed` (no usable
eventId), `Garbled` (not JSON) and `Poison` (the handler always throws). Any
message may fail an attempt.

### AsyncBackbone and EventDelivery

`AsyncBackbone` is `Outbox` with a consumer: it adds the variables of
`ConsumerLoop` and shares `log` and the budget of faults with it. The refinement maps
each event to a status: absent, stored once its transaction commits, then
handled, dead-lettered or lost, once. "Lost" is part of the abstract
specification because the code loses events (see findings); `DeliversOnce`
says that this, too, is a final outcome and that nothing gets two outcomes.

### Readings

`pc[r]` is where `createReadingRecord` stands. `Preceding` is `findPrevious`:
rows of one instant are all candidates, since the query orders by
`recordedAt` alone. `seen[r]` is history: what was stored when `r` was
compared. meter-service and household-service answer
yes or no.

### MeterBindings

Requests of three kinds step through their transactions. Locks last until the
transaction ends, so there are no lock variables: who holds a lock follows
from `pc`. `MeterKey` is the text the advisory lock hashes, the request's text
for a bind and the stored id for an end; `Spelling` is the set of texts one id
may be given as. `InsertBinding` waits for a concurrent insert of the same
meter (unique index) and for a holder of the account's row (foreign key).
`updateProviderAccount` takes the row lock, and its change is archive,
unarchive or anything else ("relabel"). An event is the snapshot a transaction
wrote to `provider_outbox`.

### Membership

One household; its owner always is one. A request is a transaction of
`redeem`, `revokeInvite`, `createInvite` or `removeMember`, one action per
statement; `wrote[r]` holds the tables it has written, which is also what it
locks. Only a live invite is ever written back, so the row that `update`
writes needs no copy: `CommitRedeem` clears `revoked`, `CommitRevoke` clears
`redeemedBy`, whatever happened in between. A membership is identified by the
redemption that inserted it; `InsertMember` waits and fails as the partial
unique index makes it. `rejoin` is the path of a caller who redeemed the code
before. `before[r]` is history: the requests that had succeeded when `r` began.

### IdempotencyStore

One `Attempt` is one HTTP request; `input` is its key and the fingerprint of
its body, chosen at the start. `acquire` is two statements: `Insert` (the INSERT
... ON CONFLICT ... WHERE expires_at <= now) and `Find`, between which anything
may happen to the row. A statement carries the clock that was read before it
was sent: `at[a]` for `acquire`, `complete` and `release`, the bound `t` of
`Extend`. `Prune` may use the present clock, since a clock read earlier deletes
a subset of the rows. What the interceptor of `@nestjs/idempotency` does with the
store follows from the contract its tests state (acquire, handler with renewals,
complete on success, release on failure) and is marked external. `Commit`
covers the reading's transaction, with the connection possibly lost after the
commit. `lapsed` is history: records that had expired when they were replaced.

### Sessions and RevocationFeed

A refresh token and an access token are named by the login that issued them;
`Early` are logins from before. Every request is a transaction at READ
COMMITTED with `Begin...` (reads and checks) and `Commit...` (its effects
become visible). `spent[r]` is history: who had spent the token of `r` when `r`
began. Passwords, the expiry of refresh tokens and suspended users only
refuse requests, and `RollBack` is any refusal after the start. The gateway's
poll is `StartPoll` (pruning), then for each page `Serve` (identity reads) and
`Receive` (the cursor moves), `PollFails` at any point, `Restart` at any time.
`ReceiveNothing` is an answer without a body, which the client turns into an
empty batch with a null cursor: the next poll reads the feed from the start.
`missed` is history: rows the feed has passed over, because they committed
behind the cursor or because a page ended in the middle of their instant
(`Cut`). Expired access tokens can be logged out, too: `logoutUser` parses them
without verifying.

A token has two ends. `Expiry` is its `exp`, by which identity cleans up.
`AcceptedUntil` is `Skew` later: the gateway's decoder is built with
`JwtValidators.createDefaultWithIssuer`, whose timestamp check allows 60 s. The
retention of the gateway's cache, `CacheTtl`, is a setting of its own that
mirrors the lifetime of access tokens; nothing in the model relates the three.

### VerdictCache, SubmissionWindow, ProviderAccounts

`VerdictCache` is one entry of the map (one user, one household), filled by
calls whose answers (`Answer`) and arrivals (`Put`) are steps apart, so an old
answer may replace a newer one. `settled` is history: since when no superseded
answer has arrived. The three services have the same code.

`SubmissionWindow` numbers months and counts days; it has no state.
`daysInMonth` and the days before a month (`DaysBefore`, in years that begin in
March) are written out because the code leaves them to `Date.UTC`. The two are
independent, and a proof shows that they agree (`NextMonth`). Windows
compare by local date: the code compares instants, but a local day begins after
the day before it (but for the zones that once skipped a whole day).

`ProviderAccounts` composes the cache with the requests that ask it. An update
asks twice, first to read and then to write, then reads the provider
(`Choose`) and then stores in a transaction (`Store`). Nothing locks the
provider in between. `doomed` is history: requests whose provider was archived
when they came and has been since.

## Runs

| Run | Shows | Bounds |
|---|---|---|
| `outbox_safety` | five safety properties and `MarkedNeverResent` | 3 events, batch of 2, 2 faults |
| `consumer_loop` | dedup, budget, outcomes, progress | 4 messages, 3 records, 2 attempts, 2 faults |
| `consumer_loop_loss` | finding: a record behind the offset without an outcome | same |
| `async_backbone` | refinement of `EventDelivery`, the backlog drains, every stored event gets its outcome | 2 events (one poisoned), batch of 2, 1 attempt, 2 faults |
| `readings` | in-order submissions never decrease | 3 requests, 3 instants, values 0..2 |
| `bindings` | bindings of one spelling are disjoint, archiving, versions, no request waits for ever | 3 requests of any kind, 2 spellings, 2 days |
| `bindings_overlap` | finding | same |
| `membership` | one membership per user, what racing requests can and cannot do to an invite, the limit, removal | 4 requests, 2 users beside the owner, 2 invites, limit 1 |
| `membership_single_use` | finding | 2 requests |
| `idempotency` | when a key stores two readings, replays, records last | 3 attempts, 1 key, 2 bodies, lifetimes 2, time 0..4 |
| `identity` | a refresh token spends once unless refreshes overlap, what the gateway may miss or forget, that the rest arrives | 2 requests, 2 early logins, lifetimes 2, skew 1, time 0..3, page size 1, 2 pages a poll, 1 restart or empty body |
| `provider_accounts` | stale verdicts and providers, rules that never overlap, windows that are found | 2 requests, 2 providers, 2 rules, 1 role change, 2 catalogue changes, time 0..2, 16 months, windows sought from 2 months before to 3 after |

Why the bounds are enough. Outbox: three events with batches of two give a
batch that is cut off, one that is full, and a row that commits late; two
faults give a failure during the recovery from another. Consumer: one message
of each class, each of which may appear three times, gives redelivery and
producer duplicates of every class. Readings: three rows are what it takes for
a new one to have a neighbour on both sides. Bindings: a meter and its account
are independent of every other, so one of each is enough; three requests allow
bind, end and bind again, or a bind and an end that an archive races.
Membership: four requests allow redeem, remove, redeem again with the old code
and remove again, or two redemptions and a revocation of one invite at once;
two users compete for two invites. Idempotency: keys do not interact; three
attempts allow an owner that stalls, one that takes over and a third that is
replayed, and time 4 lets a record made after an expired lock expire as well.
Identity: a page of one row makes every second revocation a new page, and two
pages a poll end a poll with rows left; one token is issued while a poll is
under way; at time 3 everything issued at 0 has expired, is cleaned up and
pruned, and is still accepted. Each exception of `FeedMissesOnlyLate` is
reached: without any one of them TLC refutes the property. Two restarts or empty
bodies (`MaxResets = 2`) gave no error either. Provider
accounts: one role change and two fetches in flight give a stale answer that
lands after a fresh one; two changes of the catalogue create a provider and
then archive, change or promote it, or create both. An archive that is undone
takes a third (12.7 million states, checked once without error; the theorems
hold for any number). The
months cover a leap February, a short one and two ends of year; the search is
wider than the one the code makes on both sides. The rules are
one that is accepted and one that only a February of 28 days refutes. Beyond
the run of `provider_accounts`, evaluating all 3,481 rules day by day over 1896 to 2110 outside TLC
gave 3,192 accepted ones, none of which overlaps; a check of one year would
have accepted 60 more that do. `MaxFaults`, `MaxLog`, `MaxDay`,
`MaxTime`, `MaxValue`, `MaxLive`, `MaxAttempts`, `MaxChanges`, `MaxEdits`,
`MaxResets`, `Cycles` and `Reach` are the only bounds.

The runs of `Readings`, `MeterBindings`, `Membership`, `IdempotencyStore`,
`RevocationFeed` and `ProviderAccounts` allow deadlock: a finite set of requests
that have all finished, with the clock at its bound, has no next step. Runs
without liveness use symmetry of requests, events, users or invites, which no
definition distinguishes; those with liveness use none.

**Fairness.** Weak fairness of each step of the relay and the loop: the timer
(`@Interval`) fires again, a resolved promise continues, the broker answers a
request it received, kafkajs keeps fetching. Nothing is assumed of failures
except that they are finitely many (`MaxFaults`). For bindings, a started
request keeps running and PostgreSQL grants a lock that stays free.
Weak fairness is enough because requests are finitely many, so a lock is in the
end free for good; a refusal (Prisma's transaction timeout among them) may
happen at any step but is never assumed. For the feed, `@Scheduled` starts a
poll after each (weak fairness of `StartPoll`). Polls may fail for ever in
between, so serving and receiving a page need strong fairness: a page that is
asked for again and again is in the end served, and its answer received.

## Findings

* `consumer_loop_loss`: the dedup row is committed before the handler runs; a
  crash in between loses the event, although the class comment and conventions
  15 promise at-least-once.
* `bindings_overlap`: the advisory lock hashes the id as the client wrote it.
  Upper- and lower-case UUIDs are both accepted and take different locks.
* `membership_single_use`: an invite read live by two redemptions admits both.

Other races the models contain, with a property that says how far they go:

* Two submissions of readings may both compare before either stores, so a
  series can decrease; `InOrderSeriesNeverDecreases` says that this needs a race
  or a backdated reading.
* A bind reads the account's archived flag before its transaction only, so it
  can bind to an account archived in between; `ArchiveRespectsBindings` says
  that this needs an update of the account after the read.
* A provider can be archived between `chooseProvider` and the account's
  transaction (`ProvidersWereOnOffer`).
* Two refreshes that overlap both get a session from one token
  (`SpentForLater`).
* The gateway misses a revocation that commits behind its cursor, or shares its
  instant with the last row of a full page, until the token expires
  (`FeedMissesOnlyLate`). With a page of 1000 rows and timestamps in
  microseconds this is rare, and the class admits to be a latency optimization.
* A revoked token can come back to life for up to a minute. The gateway accepts
  it until `exp` + 60 s (SecurityConfig.java:110), but forgets it one token
  lifetime after the poll that brought it (RevocationCache.java:61). A token
  that is logged out and polled less than 60 s after its issue, say 12 s after,
  is forgotten at 15 min 12 s and accepted until 16 min. The class comment
  (RevocationCache.java:18-20, "a revoked token is rejected on `exp` at the latest
  anyway, so the cache never needs to remember a jti longer than that") overlooks
  the skew. `FeedMissesOnlyLate` names the case (`BroughtTooSoon`).
* For the same reason identity's cleanup (RevocationCleanupTask.java: "no
  validator accepts those tokens on `exp` anymore") may delete the row of a token
  the gateway still accepts; a gateway that had not read it, or restarts then,
  never learns of it (`CleanedUnread`).
* A removed member is let in for a verdict lifetime after the removal, which the
  docs accept (~30 s, service-boundaries.md:282), and for up to another one if an answer
  computed before the removal arrives late and replaces a newer verdict:
  `HouseholdAccessService` puts an answer into the cache whenever it comes. The
  bound is a lifetime after the last such arrival (`StaleAllowWindow`,
  proved as `StaleAllowBounded`).

docs/api-examples (line 190) words the rule for readings as "not lower than the
newest existing one"; code and docs/tasks compare with the preceding one, and
the model follows the code. The comment of `startOfLocalDay`
(submission-window/calendar.ts:96) about skipped midnights holds for the jumps
that begin at midnight; conversions of instants are not modelled.

## Proofs

Every theorem holds for all values of the constants that satisfy the named
assumptions of its module: any number of events, messages or requests, any
batch size and retry budget from one up, any bound on faults, any number of
days. Each one rests on an inductive invariant `IInv`, with one lemma per
action; TLC checked `IInv` on small instances first.

`AsyncBackboneProofs`, the outbox (`TypeCorrect`, `OnlyCommittedReachesTopic`,
`MarkedReachedTopic`, `MarkedStaysSilent`, `TopicFollowsCreation`,
`EveryDuplicateHasItsFault`). Events are finite, `BatchSize` is
positive. "A marked row is on the topic" is not inductive, because
`MarkPublished` marks what the round believes it sent. `RoundInv` adds why it may believe
so: a send is acknowledged only after the append, and the log only grows.
`BatchUnmarked` adds that no row of the running round is marked yet, which
makes `MarkedNeverResent` a consequence of each single step. The last two
theorems have invariants of their own. `OrderInv`: a row the relay has not
overtaken stands before every younger one in the batch, and is on the topic
before a younger one is on the wire. `CopiesInv`: the copies of an event on the
topic and on the wire are at most the faults so far, and one more once the relay
has taken the event up.

`AsyncBackboneProofs`, the backbone (`ImplementsDelivery`,
`ActsOnCommittedOnly`, `StoredEventsAccounted`). `BackboneInv` joins the
invariants of both ends - the consumer's is `IInv` of `ConsumerLoopProofs`, whose
lemmas are used as they stand - with `LoopOnTopic`: what the consumer claimed is
on the topic, and what a fault gave up is claimed and never again in a session.
The first makes an event's row committed before anything happens to it, so its
status never skips "stored"; the second makes an outcome final. Then every step
is one of `EventDelivery` or a stutter: `CommitTx` stores, `HandlerReturns`,
`DeadLetter` and the faults in a session settle, nothing else changes a status.
`StoredEventsAccounted` puts `MarkedIsOnTopic` and `SkippedOnlyIfInterrupted`
together: the event of a stored reading is unmarked in the outbox, on the topic
ahead of the consumer, settled, or was hit by a fault between its claim and its
outcome. There is no fifth place.

`ConsumerLoopProofs` (`TypeCorrect`, `DedupFirst`, `BudgetHolds`,
`SingleOutcome`, `LossNeedsInterruption`). The message classes are subsets of
`Message`. A message gets one session in its life: before its claim nothing
happened to it (`UnclaimedUntouched`), during the session its counters are the
session's (`Session`), and after it only `Skip` meets it. `ClaimedAccounted`
says that a claimed message has an outcome, is in its session or was
interrupted; so a record can pass without an outcome only through a crash or
a failed dead-letter, which is the exact extent of the finding of
`consumer_loop_loss`.

`MeterBindingsProofs` (`TypeCorrect`, `OneOpen`, `ArchiveRespects`,
`TextsDisjoint`, `VersionsApart`, `NoDeadlock`). `Locks` says which requests may stand where at
once, `EndReady` and `BindReady` what a request that passed its check may rely on
when it commits, `AccountFresh` and `ArchiveReady` why an account that kept its
version was not archived. `TextsDisjoint` is what is left of "at most one binding
on any date" (see `bindings_overlap`): transactions that give a meter id as one
text exclude each other, so a binding about to commit lies after all others
made with its text (`BehindAll`). `VersionsApart` assumes that
requests and accounts are different things, as their ids are. `NoDeadlock` is the
safety half of `RequestsFinish`, for any number of requests: who waits for an
advisory lock or a row lock holds nothing yet, and an insert waits only for
requests past their last wait, so while any request is in flight the guard of
some next statement holds.

`MembershipProofs` (`TypeCorrect`, `OneEach`, `SpentOnce`, `SpentIsShown`,
`RemovalHolds`, `LimitHoldsSerially`). The owner is a user, `Nobody` is not,
and there are finitely many invites. `Places` ties what a
request wrote to where it stands, `Inserting` says that a membership being
inserted is the only one of its user, `Spending` that a request about to spend
an invite began before any other that spent it succeeded, `Removing` that a
removal still points at the only membership it could have seen. `LimitInv` says that
while no two creations overlapped, one about to commit still finds the count
below the limit: no other request adds a live invite.

`ReadingsProofs` (`TypeCorrect`, `InOrder`). The invariant says that a request
which passed the check was compared with a row that preceded it then. `InOrder`
argues by minimal counterexample over the well-founded order of the instants:
the least reading that lies below an earlier one was compared with its
predecessor, which then lies below it as well.

`IdempotencyStoreProofs` (`TypeCorrect`, `OneUnlessLost`, `ReplaysAreTrue`,
`RecordsStay`). The argument turns on one inequality, `at[a] <= now`: a clock read
before a statement is never ahead of the one it runs at, so nothing takes a
record for expired that is not. `RowTrue` ties a row to the request that made it,
`InPlace` says that a record which was made and has not lapsed is still there,
so a second request cannot have recorded, nor own, another.

`RevocationFeedProofs` (`TypeCorrect`, `SpentStaysSpent`, `OnlyLateAreMissed`).
The sessions have an invariant of their own, which the composition keeps: a
token that is done with is revoked, and what is revoked is never refreshed.
For the feed, whatever row the cursor has passed was brought to the gateway or is
in `missed` (`Followed`), what was brought stays until `CacheTtl` after the poll
that brought it has gone by (`Held`), and a row that is gone had expired
(`GoneExpired`). Put together they leave the four exceptions of
`FeedMissesOnlyLate` and no other, whatever the two lifetimes and the skew are.

`ProviderAccountsProofs` (`FiniteCheckIsEnough`, `StaleAllowBounded`,
`TypeCorrect`, `OnOffer`, `NoStoredOverlap`, `AllWindowsFound`). The validator
compares 23 pairs of months; `FiniteCheckIsEnough` shows that every month of every
year, before the epoch too, has the length of one of them, its successor
included, and that a window depends on those two lengths alone.
`AllWindowsFound` is about all months and any range searched: the days before a
month grow by the length of each (`NextMonth`, hence `DaysGrow`, by minimal
counterexample), an accepted rule's window closes before the next one opens
(`WindowsFollow`), so windows lie in the order of their months (`WindowsApart`),
and a window that can be current, next or in a range is among the few the code
looks at.
`StaleAllowBounded` needs only the cache: an entry that is not
the present verdict expires within a lifetime of `settled`. The others follow a
request's choice to the store.

Model-checked only: the five liveness properties (`BacklogDrains`,
`PartitionKeepsFlowing`, `DeliversEventually`, `RequestsFinish`,
`RevocationsArrive`). TLAPS reasons about neither fairness nor ENABLED here.
Every invariant, action property and refinement that a passing run checks is
also proved. No module uses a RECURSIVE operator.

## Not modelled

* **Users and administrators** (identity-service). Registration is one INSERT
  behind two look-ups, and the unique indexes decide it: of two registrations
  that race for a name the later fails. (No handler knows the exception of the
  index, so it is answered with 500, where the contract has 409.)
  Reconciliation is one transaction that sets every role from the environment,
  whatever an earlier start left; logins and refreshes read the role anew.
* **Rate limiter** (gateway). The bucket is Bucket4j's; the filter picks a key
  and takes one token in one atomic call.
* **Meter registry**. Each operation is one statement behind the access check
  that `VerdictCache` models; nothing read before is written back.
* **Creating a household**: two inserts in one transaction, no reader of a part.
* **Provider outbox**: the same relay with two topics; its snapshots and their
  versions are in `MeterBindings`.
* **Conversions between instants and local dates**: a function of one argument,
  decided by the time zone data of the runtime.
* **Partition rebalancing and several relays**: the deployment runs one
  consumer and one relay (spec 5).
* **Frontend, generated clients and database models, HTTP plumbing, metrics,
  tracing, configuration, deployment.** They keep no state that the services
  share. They are also most of the repository's lines: the generated Prisma
  and OpenAPI code alone outweighs the hand-written services several times, so
  the modelled share of all lines is small although every stateful operation of
  the services above is either modelled or one of the cases just listed.
