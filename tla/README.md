# A verification project for activities-api

TLA+ models of activities-api (a TypeScript service that records completed activities, grants
their rewards, keeps progress records and quest states, and shows badges, on PostgreSQL), the
TLC configurations that check them, and TLAPS proofs of the results that matter most. Paths
below are relative to the repository root; a file is often named by the last part of its path.

1. [The system](#1-the-system)
2. [What the models cover](#2-what-the-models-cover)
3. [What is outside the repository](#3-what-is-outside-the-repository)
4. [The runs](#4-the-runs)
5. [Waiting, and fairness](#5-waiting-and-fairness)
6. [The proofs](#6-the-proofs)
7. [What the models found](#7-what-the-models-found)
8. [What is not modelled, and why](#8-what-is-not-modelled-and-why)
9. [What could follow](#9-what-could-follow)

## 1. The system

| Component | State it keeps | Operations | Who calls it |
|---|---|---|---|
| Event store (`packages/adapters/src/postgres/event-store.ts`, `in-memory/completion-event.ts`) | table `event_store`: one chain of events per partition | `append` (compare-and-set on the tip), `getTip`, `read`, `port.emit`, `port.query` | completion dispatch, read routes |
| Atomic completion (`postgres/atomic-completion.ts`) | `event_store`, `reward_grants`, and the host's ledger through the proc `apply_resource_mutation` | `grantAndComplete`: event, grant and ledger row in one transaction | completion dispatch |
| Reward port (`postgres/reward.ts`) and `retryGrant` (`engine/src/activities/retry.ts`) | `reward_grants`, a counter of synthetic ids per process | `grant`, `query`, retries with backoff | exported |
| Progress port (`postgres/progress.ts`) | `progress_records`: steps and a version per (activity, identity) | `getProgress`, `advanceProgress` (optimistic compare-and-set) | hosts, read routes |
| Identity resolver (`postgres/identity-resolver.ts`, `in-memory/identity-resolver.ts`) | `identity_bindings` | `resolveToChainAddress`, `resolveFromChainAddress`, `bind` | completion dispatch |
| Completion dispatch (`engine/src/activities/complete.ts`) | none of its own; up to two appends per call | `complete`: on the kind of reward, one append, append-and-grant, or an append and a parked reward | write routes |
| Write routes (`apps/runtime/src/routes/writes.ts`, `_shared.ts`) | none; an event per completion | three completion routes behind a gate and a grader; errors to HTTP statuses | HTTP clients |
| Read routes, composition, server (`routes/reads.ts`, `composition.ts`, `server.ts`) | the `pg` pool, the configuration | reads, wiring, shutdown | HTTP clients |
| Authentication (`apps/runtime/src/auth`, `clients/identity-resolve.ts`) | none | JWT and service-token checks, the look-up of a Discord account | every route |
| Hyper (`apps/runtime/src/hyper/core`) | the routing trie | method override, routing, body parsing, the request timer, errors to responses | the server |
| Eligibility, verifiers (`engine/src/activities`) | none | verdicts on evidence | write routes |
| Quest state machine, dispatch, persistence (`engine/src/quest-state-machine.ts`, `dispatch.ts`, `persistence`) | one quest state per player and quest | transitions, grading, `load`, `save`, `list`, `delete` (last writer wins) | Discord handlers |
| Discord renderer (`packages/discord-renderer/src`) | none | button, modal and slash handlers, delivered at least once | Discord |
| MCP guards (`packages/mcp-tools/src/auth`, `pagination`) | replay tracker, token buckets, bounded audit log, signing keys | validate, record, tryConsume, append, verifyCursor | an MCP gateway |
| Badges and Merkle proofs (`engine/src/badge`) | none | tree, proof, signed snapshot context, projection to badges | read routes, graders |

Completions meet in the database. Several requests in flight, in one process or in many, run
transactions on the same tables; nothing is locked in memory, and every guarantee rests on
isolation levels, unique indexes, a compare-and-set on a tip or a version, and bounded
retries. Quest states meet in a table without any guard at all. The MCP guards meet in the
memory of one process. The hard behaviours follow from that:

* **interleaving**: `SELECT ... FOR UPDATE` locks nothing in an empty partition, so what two
  first writers may do depends on serialization failures and on the unique indexes; a Discord
  handler saves over whatever was stored since it loaded;
* **retries**: each adapter starts its transaction over up to eight times, and what it
  answers when the retries are spent differs by the statement that failed;
* **lost answers**: a connection that breaks during COMMIT leaves a transaction that has
  taken effect and a caller that does not know; a 504 leaves a handler that goes on;
* **crashes** between the two appends of a deferred reward, and restarts that forget the
  replay tracker or change the configuration;
* **repeated calls** of the same completion, on any tip, by any route and with any timestamp;
* **stale answers**: identity-api names the identity of an account that is linked anew while
  the attestation is graded; a resolved address is bound anew before it is credited;
* **the pool**: a bounded number of clients, one code path that needs two, and a shutdown
  that closes it while requests are in flight;
* **several processes** that draw "unique" ids from counters of their own;
* **clocks** that are set back under a rate limiter, a replay window and a cold start.

What makes each component correct:

* event store: a partition is one gapless chain, an event is stored once and follows the tip
  its caller named, answers are true, nobody waits for ever;
* atomic completion: event, grant and ledger row are one unit, a completion pays once,
  answers are true, nobody waits for ever on the smallest pool;
* reward grants: one grant per (event, recipient), the record returned is the caller's own,
  every call returns;
* completion dispatch: a resource completion is paid in full and a paid completion is
  recorded, a parked reward directly follows its completion, a credit reaches the current
  address;
* progress: no acknowledged advance is lost, an advance only leaves the version it named;
* routes: one badge per identity and activity, no completion without an authority of its own,
  statuses a client can act on, pages without gaps;
* quests: completed only on an approved essay of the same player, no way back but by the
  known overwrites;
* MCP guards: a token is served once within its window, the limiter is fair to both sides,
  memory is bounded;
* snapshots: exactly the wallets on a list are granted.

## 2. What the models cover

| Module | Models | Role |
|---|---|---|
| `EventStore` | `event-store.ts`: `append`, `emit`, `getTip`; `pool.ts` | detailed specification, one action per statement |
| `EventLog` | `in-memory/completion-event.ts` | abstract specification: an append is one step |
| `EventStoreRefinement` | - | the mapping from `EventStore` to `EventLog` |
| `AtomicCompletion` | `atomic-completion.ts` and the proc's fixture | detailed specification and the other writers of its tables |
| `RewardGrant` | `reward.ts` and `retry.ts` | grants by several processes |
| `RewardPromise`, `RewardRefinement` | `in-memory/reward.ts` | abstract specification, and the mapping to it |
| `Progress` | `progress.ts` | detailed specification |
| `ProgressPromise`, `ProgressRefinement` | `in-memory/progress.ts` | abstract specification, and the mapping to it |
| `Identity` | both identity resolvers | the bindings, in both directions |
| `Completion` | `complete.ts` | composition: `EventLog`, `Identity`, credits |
| `EventIds` | `compute-event-id.ts` | what an event id depends on |
| `Auth` | `jwt-verify.ts`, `require-identity.ts`, `require-service-token.ts` | who may call |
| `Verdicts` | `eligibility.ts`, the three verifiers, the fixtures of the activities | what is approved |
| `Merkle`, `Badges` | `merkle.ts`, `snapshot-sig.ts`; `static-uri.ts`, `badge-projection.ts` | algorithms |
| `Hyper` | `hyper/core`: `router.ts`, `app.ts`, `request.ts`, `hyper.ts` | from a request to its handler |
| `Routes` | `writes.ts`, `_shared.ts`, `reads.ts`, `composition.ts`, `server.ts`, `identity-resolve.ts` | composition: `Hyper`, `Auth`, `Verdicts`, `Badges`, `EventIds`, `EventLog` |
| `BadgeGrants` | bulk grants from signed snapshots | composition: `Verdicts`, `Merkle` |
| `QuestFlow` | `quest-state-machine.ts`, `dispatch.ts`, the persistence adapters, the Discord handlers | composition |
| `McpGateway` | `bearer-token.ts`, `in-memory-key-provider.ts`, `rate-limit.ts`, `audit-log.ts`, `WorldScope.ts` | the guards as one gateway |
| `Cursors` | `pagination/cursor.ts` | part of `McpGateway` |
| `EventStoreProofs`, `AtomicCompletionProofs`, `RewardProofs`, `ProgressProofs`, `CompletionProofs`, `RuntimeProofs`, `QuestFlowProofs`, `McpGatewayProofs` | - | theorems |
| `MC...` | - | instances for TLC |

How state and actions correspond to the code:

* A **worker**, caller or client is one call in flight. `pc` is what it waits for; an `await`
  of the code is the boundary between two actions, and everything between two awaits is one
  action.
* The variables named like tables hold the **committed** rows. What an open transaction has
  written is not a variable: it follows from the worker's `pc` and its snapshot (`NewRow`,
  `NewEvent`, `NewGrant`, `NewLedgerRows`), and joins the tables in `MakeDurable`.
* `tip`, `snapshot` and `stored` are what the transaction's snapshot shows.
* `outcome`, `answer`, `reply` and `response` are what a call returned: the tag of the sealed
  error or of the success, with the payload fields a property speaks of. The tag `lost` stands
  for a caller that received nothing.
* `attempt` is the counter of the retry loop. `Retry` is `attempt += 1; continue`.
* Hashes and signatures are ideal. In the stores an event id is a model value, and an event
  whose id is not its hash is a member of `Forged`; in `EventIds` an event is its own id; a
  signature is the key it was made with and what it is over; the hash of two nodes is the
  unordered pair of them.
* The map of the replay tracker, whose order is that of insertion, is a set of entries that know
  their place in that order (`nth`), so that the oldest is the one with the least place.
* A decoder keeps the fields it knows and refuses a value without those it needs.
* `origin`, `by`, `wrote`, `disturbed`, `confirmed`, `acked`, `due`, `approved`, `trusted`,
  `granted` and `history` are history variables. They tell the properties who did what, and no
  guard reads them, but for bounds.

**Composition.** `Completion` and `Routes` do not repeat the stores. They use `EventLog`, in
which an append may take effect without its answer arriving, and `EventStore` is shown to
implement it. `Completion` treats the grant and the ledger row as part of an append on the
resource path, which is what `AtomicCompletion` shows (`AllOrNothing`). `Routes` calls
`completion.complete` where every reward is None, as all fixtures the routes serve are; on that
path `complete` is one append, which `Completion` has as one of its cases. `Routes` takes each
request through `Hyper`, so a property of a route holds for what the framework lets through.

**Abstract specifications.** `EventLog` differs from the in-memory adapter in two points where a
database cannot give what the reference gives: an event id is unique over all partitions (the
adapter checks one partition, the table has a primary key), and a caller whose tip has been
passed may be told `DuplicateEvent` for `CASFailed`, which is what the defect of section 7.5
amounts to. Its phase `refused` and the step back, `Reopen`, are the attempt that saw another
tip and was then started over. `ProgressPromise` and `RewardPromise` widen their references in
one point: an answer may be lost, and a conflict may name a version of an earlier moment.

`McpGateway`: the repository has the guards and not the gateway that calls them; their order is
the one the audit outcomes and the errors name, and is marked external in the map, as is the
driver of `BadgeGrants`, which may put a grant together from parts of different snapshots.

## 3. What is outside the repository

PostgreSQL is modelled from what the code asks of it.

* A SERIALIZABLE transaction reads from the snapshot of its first statement. The first
  statement is always the SELECT, so `SelectTip`, `Select` take the snapshot and the
  following actions read nothing newer.
* FOR UPDATE waits for the transaction that holds the same row; when that row does not exist
  it waits for nobody. An INSERT waits for an uncommitted row with an equal key.
* A duplicate key is 23505, the primary key before the other index.
* **40001 or 40P01** may come from any statement, and from COMMIT, of a transaction that
  overlaps another one or whose snapshot is stale (`Overlapped`). It is not forced: the models
  do not rely on the database to detect a conflict, except in one place, next.
* Where serializability alone keeps the code safe (an UPDATE, or an ON CONFLICT, of a row that
  has changed since the snapshot), the statement has no other outcome than 40001. These are
  the conjuncts `~Stale(w)` of `Progress` and `~AccountMoved(w)` of `AtomicCompletion`. In
  `Progress` this makes the branch `rowCount === 0` of `progress.ts:202` unreachable; it is
  modelled (`~GuardHolds`) and no behaviour takes it.
* `Fault` is any other error, at any statement; at COMMIT the transaction may have taken
  effect. `Crash` and `Restart` are the end of a process. In `QuestFlow` a save whose query
  was rejected may still be carried out later (`LateSave`).
* The pool hands out `PoolSize` clients and never rejects a caller, as
  `new Pool({ connectionString })` in `composition.ts` does, which sets no timeout; once it is
  closed it refuses every call (`draining`).

identity-api answers with the link of the moment, or not at all. Graders of essays are outside:
`QuestFlow` lets them return any status about any submission.

## 4. The runs

Each passing property has a mutant: a plausible mistake in a definition that models code,
written beside it, under which TLC finds the property violated.

| Run | Instance | Distinct states | Shows |
|---|---|---|---|
| `EventStore` | 2 workers, 2 events and a forged one, 2 partitions and one out of scope, 3 clients, 1 retry, 3 calls | 730,000 | the chain, true answers, no circular wait, and `ImplementsPromise`: the refinement of `EventLog` |
| `EventStorePool` | 2 workers, 2 clients | (violation) | 7.1 |
| `AtomicCompletion` | 2 workers, one of them opted out of pinned keys; 2 partitions, 2 recipients; 1 row of another writer; 2 clients | 1,250,000 | the unit of work |
| `RewardGrant` | 2 processes, 2 events, 2 recipients of which one unresolvable; 3 attempts, 4 calls, 1 fault, 1 restart, injected failures | 249,000 | grants implement `RewardPromise`, and every call returns |
| `Completion` | 2 workers, one completion of each kind, 1 fault, 2 recipients, 2 addresses; any number of calls | 1,160,000 | the dispatch |
| `CompletionRetry` | 1 worker that retries for ever, 1 fault | (violation) | 7.2 |
| `Progress` | 2 workers, 1 record, versions to 2, 1 retry, 3 calls | 87,000 | `Progress` implements `ProgressPromise`, and every call returns |
| `Routes` | 2 requests at a time out of 45, 2 identities, 1 Discord account, 3 environments, clock to 1; any number of requests and restarts | 890,000 | the service as its clients see it |
| `RouteReplay` | 1 client, one request | (violation) | 7.3 |
| `QuestFlow` | 2 handlers, 16 interactions, 4 essays, one person before and after linking a wallet, 1 late save; any number of calls and crashes | 2,850,000 | quests |
| `McpGateway` | 2 calls at a time, 3 good tokens of one caller and 3 bad ones, clock to 2, window 1, cold start 1, tracker of 2, bucket of 1, 2 processes, 4 tokens served | 5,150,000 | the guards |
| `BadgeGrants` | snapshots of 1 to 5 wallets (two wallets in both orders), 2 environments, 2 keys, 2 snapshots | 70,000 | the snapshots |

What the properties say is written above each of them. Those that need a word more:

* `AnswerIsTrue` (`EventStore`, `AtomicCompletion`, `Routes`) is one property for everything a
  caller concludes from an answer: a success is durable, a definite refusal stored nothing and
  has its reason, and only the indefinite answers leave it open.
* `OneBadge` holds although an event id does not recognise a replay (the clock is part of it):
  the claim of an empty partition does it, whichever route a completion comes by.
* `AuthorizedGrants` speaks of the moment an event is stored, with the request, the
  configuration and the links of that time, and not of the checks that were made earlier.
* `NoWayBack` allows the four overwrites the code has, each with the phase it leads to:
  accepting again (to accepted), a submission that has loaded no state (to submitted), a save
  that was late, and one over a row that changed after the load. The second covers a failed
  load, which sets back a row that has not changed at all. Everything else that lowers a phase
  is excluded: no handler undoes what it has loaded, and a quest is not judged again after its
  verdict.
* `ServedOnce` and `RateIsHonest` speak of the history of what was served, and allow exactly
  what the bounds of the tracker, the window and a clock set back make unavoidable.
* `MembersOnly` and `MembersAlways` are the two directions of one equivalence, on trees of one
  to five leaves: odd nodes on each level, and orders of leaves that sorting changes. The
  theorems drop the bound.

Bounds, all of them CONSTANTS:

* `MaxCalls`, `MaxOthers`, `MaxFaults`, `MaxRestarts`, `MaxVersion`, `MaxLate`, `MaxServed`,
  `MaxLives`, `MaxSnapshots` and `MaxTime` bound the models, not the code. Three calls let a
  third append follow two that raced. `Completion`, `Routes` and `QuestFlow` have no bound on
  calls, their state is finite without one.
* `MaxRetries` is 8 in the code and 1 in the runs. The loop has no memory but its counter, so
  one retry shows both the way back and the way out; the proofs hold for every value.
* Two workers: every wait and every conflict of the code is between two transactions. In
  `EventStore` and `EventStorePool` the number of workers matters only relative to the pool.
* Two partitions: the primary key spans partitions and the compare-and-set does not.
* `RewardGrant` has 4 calls because a process has to be two ids behind another one before its
  attempts can run out.
* `Routes`: skews and freshness are 0 units and the clock has two readings, so that a token or
  an attestation is good at one reading and expired at the next. The requests are one good one
  of each kind and one for each check that may refuse it. The second identity is there as
  somebody else the account is linked to, and as the one a body names that nobody asks.
* `McpGateway`: a tracker of two with three good tokens evicts one that is still good; four
  tokens served let one be served again after that.
* Symmetry is used only in runs without liveness properties, over workers, clients, events,
  partitions or addresses nothing tells apart.
* VIEW leaves the last answer out of the state (`ButOutcome`, `ButReply`, `ButResponse`). No
  step reads it, the invariants speak of it only where TypeOK does, and the action properties
  that do are evaluated on every step, whether its successor is new or not.

CHECK_DEADLOCK FALSE stands where the bound on calls ends the behaviour with all workers idle.
The other runs check deadlock.

## 5. Waiting, and fairness

Where a component only waits for its own transactions, "every call returns" is split in two
invariants, which need no fairness: `NobodyStuck` (one of the calls in flight always has a step
of its own that can be taken, without an error that would set it free) and the bound on the
retries in `TypeOK`. `NobodyStuck` has two halves: of the calls in flight one has what its next
statement waits for (`SomebodyIsServed`), and whoever has it can take its step. A lock, a client of the pool and a conflicting insert are handed on by
whoever holds them, so together they exclude both a circle and an endless loop. In `Routes`,
`NeverStuck` says the same of each request by itself: its handler, its timer or the store can
end its wait.

Liveness under fairness is checked where calls return by more than that:

* `Progress`: SF of each worker's own progress, with 40001 as one of its fair outcomes, since
  on a changed row it is the only one. SF and not WF because a waiter can be enabled and
  disabled again: the pool serves its queue in order, and PostgreSQL its lock queues. Calls,
  faults and crashes are not fair.
* `RewardGrant`: WF of each caller; a query is answered and a sleep ends. There are no locks.
* `EventStorePool`: SF as in `Progress`; the counterexample stays in one state for ever.
* `CompletionRetry`: WF of a worker's own steps, SF of the store's answers, and SF of the
  caller that submits its completions again on the current tip. Faults are bounded and not
  fair, so the counterexample does not need them to go on.

## 6. The proofs

TLAPS checks every leaf; nothing is assumed but the assumptions on constants that the modules
state, which TLC evaluates in the runs. Besides types and bounds they say:

* `KeysOK` (`AtomicCompletion`): the ledger key of a completion is its own event's or one of the
  host's coarse keys, never another completion's event (`atomic-completion.ts:222-227`).
* `InputOK`, `KindsApart` (`Completion`): the input of an activity follows from its completion
  event, and no event has the id of one of another kind. Ids are hashes that cover the kind.
* `RoutesOK`, `RequestsOK` (`Routes`): every identity has a partition for each activity, what
  decodes as an attestation has an account and a timestamp, and a limit is a number if anything.
* `BadgeGrantsOK`: a list of wallets that a snapshot is made of is not empty, names a wallet once
  and holds no malformed one. Hashes are terms (`Merkle`), so that hashing is injective.
* `McpGatewayOK`: the subjects of tokens are the callers that buckets are kept for.
* None is no value of the kind it stands in for (`ResponsesOK` and parts of the others), which
  the code has from its types.

Each proof follows one pattern. An inductive invariant that says what is in flight at each step
of a handler was checked by TLC first, as an invariant of the run; then it is shown for each
action by itself, with lemmas on what an action leaves alone (`...Keeps...`, `Untouched`). An
action property is a consequence of it for one step.

`EventStoreProofs`, for any number of workers, events, partitions, retries and clients:

* `TypeCorrect`: `Spec => []TypeOK`. The invariant proved is `TypeOK /\ ActiveCall`: a worker
  that is not idle works on a real call. Without it the row a worker inserts has no type.
* `GaplessChain` (`Gapless`) and `ChainIsClaimed` (`ChainFollowsClaims`). Neither is inductive.
  The inductive invariant `IInv` adds
  * `TxnInv`: the tip a transaction works from is still a row of the table (rows are never
    removed), and past the comparison it is the tip the caller named;
  * `PendingInv`: a row that is inserted and not committed conflicts neither with a committed
    row nor with another worker's uncommitted row. This is where the unique indexes enter:
    `Insert` waits for a conflicting uncommitted row, so of two workers that passed the
    comparison on one snapshot the second finds the slot taken.

  The argument for COMMIT is `NewRowFollows` and `DurableKeepsChain`: the new row is one past
  the row of the tip it names, and its slot is free. Every other action leaves the table alone,
  and the frame lemmas (`LocalKeeps`, `LeavingKeeps`, `GotoKeeps`) reduce it to what it does to
  one worker. The proofs do not use serializability: the indexes and the comparison are enough.
* `AnswersAreTrue` (`AnswerIsTrue`). `HistoryInv` is added to `IInv`: below every row its whole
  chain is stored (`Dense`), calls are numbered and no two workers share one (`Numbered`), and
  `AnswerInv` says what a worker's answer rests on, before and after it has been given: a
  transaction that found the tip to differ goes on to a look-up in which it still differs.
* `RefinesEventLog` (`ImplementsPromise`): `EventStore` implements `EventLog`. COMMIT is `Apply`,
  whether its answer arrives or not; the comparison that fails is `Refuse`, an attempt that is
  started over is `Reopen`; all else is invisible. So what `Completion` and `Routes` assume of
  the store is a theorem about the store.
* `NobodyWaitsInACircle` (`SomebodyIsServed`, the half of `NobodyStuck` that is not about
  ENABLED), for finitely many workers and a pool with more clients than workers. The waits have
  an order: a transaction at COMMIT waits for nothing, one that inserts only for those, one that
  locks the tip only for these two, and a client is always free, even for a look-up that needs a
  second one. The hypothesis on the pool is what the look-up on `event-store.ts:194` costs; a
  pool with as many clients as workers is the counterexample of `EventStorePool`. A tip to read
  takes a lemma of its own: the table stays finite, so some row of a partition is its last.

`AtomicCompletionProofs`:

* `UnitOfWork`: `Spec => []AllOrNothing`. The strengthening is `PayingInv`: a transaction that
  has reached COMMIT is not divergent. It is established by the check of
  `applied === 0 && expected > 0`, and kept because the snapshot the check was made on does not
  change.
* `NeverPaidTwice`: `Spec => []PaidOnce`. The inductive invariant `OnceInv` says of what is
  inserted and not committed that it is nobody else's: an insert waits for an uncommitted row
  with an equal key and fails on a committed one (`Fresh`, `Apart`). An event id has one row
  (`EventsOnce`, `OwnEvent`), a tuple one grant (`GrantsOnce`); with `AllOrNothing` whoever
  wrote a ledger row has written the event of it, so two ledger rows for one event come from one
  call.
* `TypeCorrect` (`TypeOK`), `AnswersAreTrue` (`AnswerIsTrue`) and `ClaimedTipFollowed`
  (`FollowsClaimedTip`). The second adds `HistoryInv`, which is that of `EventStore` and
  `LedgerKeys`: a row of the ledger is the host's, under a coarse key, or a completion's under
  its own. This is where `KeysOK` is needed: a worker that uses its own key finds it taken only
  by its own event.
* `NobodyWaitsInACircle` (`SomebodyIsServed`), for any number of workers and any pool that has a
  client at all. The order is COMMIT, ledger, grant, event, lock, client: nobody waits for a
  transaction that has come less far, and the look-up uses the client the transaction has.

`ProgressProofs`, for any number of callers, records, versions and retries:

* `TypeCorrect` (`TypeOK`).
* `AdvanceNeverLost` (`NoLostAdvance`) and `ConflictsAreReal` (`ConflictIsReal`), from one
  inductive invariant, `TypeInv /\ SafetyInv`, which TLC confirmed before it was proved:
  * `OneStepPerVersion`: a record at version n has n steps, so a later advance cannot displace
    an earlier step;
  * `Standing`: past the comparison a transaction is at the version its caller named, past the
    upsert its snapshot is the record;
  * `OneWriter`: of the transactions on one record at most one is between its upsert and its
    COMMIT. The proof needs only that the upsert waits for another transaction's uncommitted
    row, which holds for the first advance too, where FOR UPDATE has no row to lock.

  The argument is `DurableAppends` (COMMIT appends to the record as it stands) and
  `DurableGrows` (nothing of the past changes), hence `DurableKeeps` (every answer given
  before remains true).
* `ImplementsReference` (`ImplementsPromise`): the port implements the in-memory reference, that
  is, `Progress` refines `ProgressPromise`. Under the same invariant each step is a step of the
  abstract specification or a stutter (`StepMapped`): COMMIT is `Advance` (`DurableMapped`), a
  return is an answer (`ReturnAnswers`), and everything else changes nothing a caller can see
  (`WithinStutters`).

`RewardProofs`, for any number of processes, callers, events and recipients:

* `TypeCorrect` (`TypeOK`, which bounds the attempts), and from the invariant
  `TypeInv /\ SafetyInv`, which TLC confirmed before it was proved, `OutcomesAreTrue`
  (`OutcomeIsTrue`). The recovery goes by the id of a grant alone, and processes draw equal ids;
  it finds the right record because
  * `UniqueIds`: the index admits an id once;
  * `Part`: a call that looks for an id got it from a row of its own tuple, and one that inserts
    has found its recipient, hence `Resolvable`: nobody who cannot be found holds a grant.
* `ImplementsReference` (`ImplementsPromise`): `RewardGrant` refines `RewardPromise`. The INSERT
  is the grant, whether its answer arrives or not (`InsertMapped`), a query that finds the record
  is the recovery, the end of a process loses its calls (`RestartMapped`), and all else is
  invisible (`WithinStutters`).

`CompletionProofs`, for any number of workers, inputs, recipients and addresses, over `EventLog`:

* `TypeCorrect` (`TypeOK`), from `FlowInv` (a worker is on the branch its reward takes) and
  `RequestInv` (what it has asked the store for is its own completion, or the pending event of
  it on that very tip).
* `PendingInPlace` (`PendingFollowsCompletion`): a pending event is appended only where its
  completion is the tip, so it directly follows it, whatever the clock put into it.
* `RewardsMatch` (`RewardMatchesCompletion`): the log and the credits change in one step, the
  credit is the sum of the translated tiers, and the log admits an event once.
* `OutcomesAreTrue` (`OutcomeIsTrue`): `WroteInv` says what a call has stored so far and what the
  answer it holds says of that.
* `CreditsReachTheirOwner` (`CreditsCurrentAddress`): the address of an identity leads back to it
  (`RoundTrip`, through every re-binding of either adapter), and a resolved address is the
  recipient's unless that was bound anew (`Resolved`).

`RuntimeProofs` on `Routes`, for any requests, identities, accounts, environments and restarts:

* `TypeCorrect` (`TypeOK`). `FlowInv` says what is left of the checks while a handler waits: the
  clock and the links move on, the token's signature, the body and the environment do not
  (`Granted`), and what is submitted is the completion that was granted (`Requested`,
  `CompletionFits`).
* `OneBadgeEver` (`OneBadge`): a partition belongs to one identity and one activity, and is
  claimed to be empty, so it never holds a second event (`PartitionInv`).
* `GrantsAuthorized` (`AuthorizedGrants`): `ConfirmedInv` says that a link that is there while
  identity-api is asked, or was when it answered, is a confirmed one; `Grade` admits no other.
* `AnswersAreTrue` (`AnswerIsTrue`): a handler answers its own request only (`ReplyIsOwn`), holds
  "Appended" only if it wrote (`WroteInv`), and every other answer of the store is a 503.
* `PagesAreHonest` (`PageIsHonest`). That a page shows what was acknowledged takes `PagesInv`,
  which TLC confirmed first: what was acknowledged is stored (`AckedInv`), so is what the store
  has acknowledged and the client was not told yet (`AppendedInv`), and what a waiting read has
  to show is of its own subject and stays acknowledged (`DueInv`). The rest is about data:
  * the rows are finitely many (`RowsAre`) and their order is a strict one, so each rank below
    their number is taken by exactly one of them (`RanksAreTaken`) and the sorted list is one of
    them all (`RankedIsAll`); a page is a beginning of it, and all of it unless it is as long as
    the limit (`PageIs`), when it has a next one;
  * the loop of `projectEarnedBadges` keeps for each family the badge of some event that earned
    it (`KeptIs`), and no two activities earn one family (`FamilyIs`), so that the badges show
    every activity of the page and nothing else (`BadgesAre`).

`RuntimeProofs` on `Merkle` and `BadgeGrants`, for lists of any length, any proofs, keys,
rotations and environments. They share a module with those on `Routes` because they are about
the same graders (`Verdicts`):

* Of trees, what `levels`, `index`, `siblings` and `computed` are at each step: recursive
  functions, shown to exist by induction over a set of numbers (`Induction`, from the
  well-foundedness of Nat, since an induction principle that takes a predicate cannot be used).
  `HeightIs`: the levels shrink, so one of them is a root. Hence
  * `NoForgedProof`: nothing but a leaf verifies, whatever sequence of hashes is the proof. A
    node is a leaf or the hash of two nodes (`NodesAreHashed`), a pair has one hash, and so, from
    the root down, all that the verification went through are nodes (`OnlyLeavesVerify`); what it
    began with is no pair, because leaves are hashed twice;
  * `EveryLeafHasItsProof`: after the siblings of k levels the verification is at the leaf's
    ancestor on level k (`ProofsFollowTheTree`), promoted or paired, since a pair is hashed in
    either order (`PairsCommute`).
* `BadgesGoToMembersOnly` (`MembersOnly`) by the invariant `BadgeInv`: what was published was built
  and signed with one context (`SnapshotsOK`), and a key id stands for its key and was trusted
  from the moment it was set (`KeysOK`). A grant is put together from a context, a signature, a
  wallet and a proof of any origin; a signature is over one context, and that has one root
  (`ApprovedAreListed`).
* `BadgesGoToEveryMember` (`MembersAlways`) by the same invariant and `ListedAreApproved`.

`QuestFlowProofs`, for any players, quests, interactions, essays, graders and late saves:

* `TypeCorrect` (`TypeOK`) and `ShownQuestsEarned` (`CompletedOnMerit`). What is stored, late or
  on its way is `Storable`: it has a verdict just when it was judged, and an APPROVED one only if
  an essay of that player for that quest was approved. The grader may name the ids of another
  submission; the verdict goes to the one it was asked about (`Subject`).
* `PhasesAdvance` (`NoWayBack`): a state that a handler is to save is no earlier than the one it
  loaded; without one it is accepted or submitted, and the handler of a verdict always has one
  (`TaskInv`). This rests on a state being loaded only from a row that is there
  (`NoRowIsNoState`).

`McpGatewayProofs`, for any tokens, callers, capacities, windows, clocks and restarts:

* `TypeCorrect` (`TypeOK`), with the bounds of the tracker and of the audit log.
* `TokensServedOnce` (`ServedOnce`). `HeldInv`: the tracker holds what this process served, each
  token once; `RememberedInv`: of what it served it has forgotten only what is past its window,
  or what as many other tokens were spent after as the tracker can hold. The second is kept by
  the eviction because the entry that goes is the one inserted first, so that all that stay were
  spent after it (a set of as many tokens as the tracker holds). A token that is served again is
  not in the tracker, hence forgettable.
* `LimiterIsHonest` (`RateIsHonest`), where the capacity is not 0. `Bounded`: what a bucket holds
  and what its caller got since any of its calls is at most a full bucket and what the clock has
  added up to `lastRefill`; `Owed`: a caller that was turned away finds a token when it comes
  back. A bucket of no capacity, which the code accepts, satisfies the first half only: it tells
  every caller to come back, and never lets one in.

Only model-checked:

* the half of `NobodyStuck` that says a worker with all it waits for can move, `NeverStuck` (both
  ENABLED) and all liveness properties (`EveryCallReturns`, `CompletionIsParked`): beyond the
  prover.

Every other property of a passing run is a theorem. For `Merkle`, `Badges` and the page of
`Routes` this decided how an algorithm is written: as a recursive function over indexes, or as a
list sorted by rank (`Sorted`), and not with the recursive operators of the community modules,
which a module with theorems cannot reach.

## 7. What the models found

Three runs end in a violation of what a comment says:

1. **`EventStorePool`**. `event-store.ts:194` looks the expected tip up with `pool.query`
   while the append still holds its client. With as many stale appends as clients they wait
   for each other for ever; the comment at 154-160 promises a retryable
   `EventStoreUnavailable`. `atomic-completion.ts:412` uses its own client, and its run passes
   with a pool no larger than the number of its workers.
2. **`CompletionRetry`**. A deferred completion that fails between its two appends is never
   parked by a retry (`complete.ts:248-250, 403`): the retry stops at the first append.
3. **`RouteReplay`**. The replay of a stored completion is answered 503, each time it is sent,
   and not 409 as `_shared.ts:278-283` says: every failure of the one append is wrapped as
   `DeferredRecordingFailed`, and `statusForError` unwraps only `AtomicGrantFailed`.

Disagreements that the models contain and that have no run of their own:

4. A Discord handler overwrites, although `quest-state.ts:21-27` calls the phases "strictly
   ordered". Accepting a quest again sets any phase back (`button-handler.ts:92`). A submission is
   saved over a verdict that came after its load (`modal-handler.ts:154`). And it takes any failed
   load for a skipped accept (`modal-handler.ts:138-149`), a rejected query and a row that does
   not decode included, where its comment at 123-125 says "if not found": one handler alone takes
   a judged or completed quest that nobody else has touched back to submitted. `NoWayBack` names
   these three and the save that lands late, and says that there is no other.
5. When the last retry meets a taken sequence the answer is `DuplicateEvent` for an event that is
   not stored (`event-store.ts:235-243`; the comment calls it a serialization conflict);
   `atomic-completion.ts:447-457` is the same. `AnswerIsTrue` and `EventLog` leave room for it:
   a caller may conclude that its tip has been passed, and no more.
6. A 23505 of the account row is transient but answered as deterministic
   (`atomic-completion.ts:570-584`).
7. The synthetic ids of two processes collide on `reward_grants_granted_event_id_uniq`; the
   adapter takes this for a lost race on the tuple (`reward.ts:219`), and `retryGrant` may run
   out of attempts without any fault. `OutcomeIsTrue` shows that no wrong record is returned.
8. `resolveResourceTier` looks an alias up with `aliases[kind]`, so the kind `constructor` finds
   an inherited member, is no unknown kind, and becomes a credit of zero (`complete.ts:128,
   145-151`). No code configures aliases; the instances of `Completion` exclude it (`InputOK`).
9. The in-memory resolver keeps the reverse entry of an address its identity has left; the
   table's upsert frees it. `Identity` has both.
10. `merkleMembershipVerifier` does not compare the signed `activityId` and `badgeFamilyId` with
    the step it grades; a key and a snapshot id tell the steps apart.
11. A request the rate limiter turns away has spent its token: `record` comes before it. A token
    may live longer than the replay window of 3600 s, since its lifetime has no upper bound, and
    is good again afterwards (`ServedOnce` allows it).
12. `verifyCursor` leaves caller, tool and filters to be compared by the adapters, as
    `Cursor.ts:23-28` says they must; no adapter in the repository does.

Smaller ones, about comments and the framework:

* `event-store.ts:7` says nothing is ever thrown; `getTip`, `read` and `query` wrap their query in
  `Effect.promise`, so a rejected query is a defect (`FaultTag`).
* `event-store.ts:20-22` says the waiting writer "sees the advanced tip and fails CAS". Under
  SERIALIZABLE it gets 40001, and sees the new tip in its next attempt.
* `atomic-completion.ts:60-61` says that on a retry the duplicate-reject fires first. The
  compare-and-set at 408 comes first: a retry on the old tip is `CASFailed`.
* `AtomicGrantFailed` is documented as "rolled back", which a lost answer to COMMIT is not.
* `progress.ts:14-17` argues from READ COMMITTED, the code uses SERIALIZABLE. A retry of an
  advance whose COMMIT answer was lost is a `ConcurrentUpdate` with its own first effect.
* `ActivityReward.ts` says that every reward emission emits a pending event first; `retryGrant`
  and the resource path emit none.
* `applyDerive` gives every request the one static context (`decorate.ts:84-91`), and the log
  plugin writes its logger and request id into it (`log/plugin.ts:78-85`).
* Bun's `idleTimeout` of 10 s (`hyper.ts:571`) ends a connection before the 30 s timer of a
  request answers 504. Hyper's own signal handler (`hyper.ts:264-287`) runs beside the one of
  `server.ts` that closes the pool.
* The router answers 404 for a static node without a handler although a param route matches;
  a malformed escape throws outside the handler's try (`app.ts:305`); a body is parsed before
  its caller is authenticated; `/complete` accepts a form.
* Postgres' `load` and `list` do not filter by `world_slug`, which `postgres.ts:41-56` speaks of;
  the skip button only acknowledges; the submitted text is not persisted; an interaction is
  answered with the state the handler wanted to save, even when the save failed.

## 8. What is not modelled, and why

* `event-store.ts` `read`, `getProgress`, `snapshot`, `clear`: they change nothing, or are for
  tests, and their results are the tables' rows.
* JSON and schema decoding beyond required fields, hashing, encoding: data the properties do not
  tell apart.
* Balances of the ledger: a row of `resource_transactions` stands for the mutation, and whether
  a spend can be afforded is left open.
* Backoff times: a wait of unknown length.
* Lifecycle transitions and the composition of activities (`lifecycle.ts`, `compose.ts`), the
  raffle threshold, and the Sietch, `AuthCheckPort` and `BadgeIssuancePort` layers: pure
  functions and stubs that no running code composes.
* Of Hyper: plugins, derives, groups and decorators, streaming, the OpenAPI document, the
  development server. Routes use none of them but the two plugins above.
* Rendering of Discord answers, UI, beacon and health documents, the protocol schemas that no
  modelled step reads, golden vectors, documentation.

## 9. What could follow

* A second account and world in `Routes`, and its service tokens under rotation while a request
  is under way.
* The lifecycle of an activity, once code calls it.
