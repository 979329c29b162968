# Verification of the Coach Engine

TLA+ models of the parts of chenchess that are concurrent, that survive crashes, or
that keep promises across several documents, with the TLC configurations that
model-check them and the TLAPS proofs of their safety properties. Everything is
translated from `services/coach-engine`, the Rust service that holds the program's own
logic; paths below are relative to `services/coach-engine/src` unless they start with
`crates/`, `services/`, `apps/` or `docs/`.

## 1. The system

The Coach Engine runs as several identical *cells*. A cell serves a Player's live Review
Session, imports games, and runs *Daily Coaching*: every local day a Player with enabled
coaching gets a Daily Window, whose Run selects recent games, reviews them with an engine
and a language layer, and publishes a Coaching Digest that is emailed. Cells share no
memory. They meet in Firestore, where a transaction is atomic and a task may stall or die
between any two transactions.

| Component | State | Operations | What is hard |
|---|---|---|---|
| Daily Coaching Runs (`daily_coaching/runs*`) | one Run document per Player and window: lease, run fence, frozen selection, outcome, regeneration count; digest; one card per digested game | `create`, `take_over`, `check_fence`, `heartbeat`, `freeze_selection`, `record_game`, `terminalize_unfinished`, `publish`, `complete`, `reopen_for_regeneration` | stale lease holders, takeovers, publication over three kinds of document, rebuilds |
| Daily Coaching lifecycle (`daily_coaching/lifecycle*`) | the tasks of a cell, and what each remembers of documents it read | `tick`, `promote`, `process_player`, `execute`, `force_regenerate_last_digest`, the work boundary | loops over a stale document, crashes between steps, deadlines, retries |
| Daily Coaching setup (`daily_coaching/state*`) | connections, enabled, next Daily Window, run fence | `connect`, `replace`, `remove`, `set_enabled`, `advance_daily_window` | edits race with Runs in flight |
| Digest email delivery (`daily_coaching/delivery*`) | delivery records, preference, suppressions; the provider's idempotency keys | `begin` (claim), `redrive`, `deliver`, `finish`, `observe_verified_email`, `set_enabled`, `ingest_webhook` | lost receipts, recovered claims, retry horizon against key retention, webhooks in any order |
| Initial backfill (`daily_coaching/*/initial_backfill.rs`) | backfill candidates of a new profile | prepare, reconcile at publication | published once across Runs |
| Exact engine cache, single flight (`crates/pipeline`) | in-flight requests, a byte-budgeted LRU | lookup, register, wait, complete, insert, evict | lost wake-ups, a cancelled leader, stale recency records |
| Engine worker limit (`crates/pipeline`) | a semaphore | acquire one or several permits | batches that hold some permits and wait for more |
| Coach and engine admission (`review_session_processor/admission*`) | permits, waiters, per-Player claims, a deployment ceiling | acquire, release, cancel, prefetch | limits checked and recorded in separate steps; leaks on cancellation |
| Player traffic (`review_session_processor/admission/player_traffic.rs`) | sliding windows per Player | admit | boundaries of windows, a clock that steps back |
| Imported Games (`review_session_processor/{lifecycle,residency,deletion}.rs`, `game_import_store*`) | a frozen review per import, a card per Game, resident Review Sessions | import, load, delete | two imports of one Game, deletes that act on what they listed, sessions that outlive their review |
| Review Session processor, the rest (`review_session_processor*`) | moments, prefetches, live operations | mutations, exploration, cancellation | commands race with eviction and prefetch |
| Language layer ledger and host turns (`language_layer_ledger*`, `review_session_processor/host_turn.rs`) | spend and reservation of a session, spend of Players and of the month, provider slots, a cooldown | `admit`, `admit_host_turn_envelope`, `admit_host_turn_step`, `record`, `settle` | ceilings read before an await, many exits of a turn, a cell that dies before it settles |
| Beta access (`beta_access*`) | requests, invitations, grants | `submit`, `grant`, `retry_delivery`, `redeem`, `revoke`, `revoke_access` | two administrators, many redeemers, a revocation beside a redemption |
| Account deletion (`account_deletion*`) | a marker in each environment, Firebase, OAuth grants | `delete_account`, recovery, `ensure_player_active` | the same saga run by several cells at once, a crash between a step and its marker, markers that expire |
| Stockfish sessions, human-move model | a child process; an HTTP client | analyse | restarts |
| Firestore client, routes, contract, authentication, local runtime, central host, stores of games and reviews, selection and wording, packages | | | transport, parsing, content |

Interactions: the lifecycle reads and advances the *setup* document, creates and drives
*Runs* through the Run store, and after a publication starts the *delivery*; every tick
redrives the deliveries of all archived digests. The setup's `run_fence` is read inside
each lease-guarded Run transaction, which is how an edit stops a Run in flight. The
email provider calls back through a webhook. Reviews go through admission, the engine
cache and the worker limit; an import takes an engine lease before it analyses, and a hosted answer goes through
the ledger. Beta access and account deletion stand before all of them, as reads at the start of a request. `PROJECT.json` has the same list with sources and a status for every component,
and under `hazards` every place where the code is hard to test, with the properties
that cover it.

## 2. Modules

| Module | Models |
|---|---|
| `DailyCoachingRuns` | setup, Runs, digests, cards and lifecycle tasks of one Player |
| `CoachingArchive` | the abstract archive that the Run store implements |
| `MCDailyCoachingRuns` | values of the constants for TLC |
| `DailyCoachingRunsProofs` | theorems about `DailyCoachingRuns`, with its refinement of `CoachingArchive` |
| `DigestDelivery` | the deliveries of one digest: records, preference, senders, provider, webhooks |
| `MCDigestDelivery` | symmetry of the senders for TLC |
| `DigestDeliveryProofs` | theorems about `DigestDelivery` |
| `EngineCacheStore` | the operations of `EngineCache`, as operators on the whole cache |
| `ExactEngineCache` | calls that pass through the cache, the single flights and the worker limit |
| `LruCache` | the abstract cache that `EngineCache` implements |
| `MCExactEngineCache` | weights and calls for TLC |
| `EngineCacheStoreProofs` | lemmas about the operations of the cache: what each does to its entries, its queue and its bytes |
| `ExactEngineCacheProofs` | theorems about `ExactEngineCache`, with its refinement of `LruCache` |
| `Players` | the Players that the services below guard |
| `SlidingWindow` | `expire_window`, which the deployment ceiling and the Player traffic share |
| `EngineAdmission` | pools of slots, claims of Players, the deployment ceiling |
| `PlayerTraffic` | the sliding windows of `PlayerTrafficPolicy` |
| `AdmissionProofs` | theorems about `EngineAdmission` and `PlayerTraffic`, with lemmas about `SlidingWindow` |
| `LanguageLayerSpend` | comments and host turns against the ceilings, the provider and the ledger |
| `ImportedGames` | imports, cards and resident sessions of one Player, and the commands on them |
| `ReviewSessionProofs` | theorems about `ImportedGames` and `LanguageLayerSpend` |
| `AccountDeletion` | the deletion saga of one Player |
| `BetaAccess` | requests, invitations, deliveries and grants |
| `AccountProofs` | theorems about `AccountDeletion` and `BetaAccess` |
| `CollectionLemmas` | lemmas about sums over finite sets, cardinalities and sequences that the proofs share |
| `MCServices` | the six services side by side, for TLC |

### DailyCoachingRuns

One Player. A *task* is one call of the lifecycle that is running: a tick's pass over this Player, a
`promote`, or a forced regeneration. `HolderOf` says on which cell it runs, because
`holder_id` is one per process and therefore *shared* by all tasks of a cell. Each action is
one store operation (one Firestore transaction) with the local steps before and after it; the
task's `pc` is the await point it stands at and its record holds what it remembers from earlier
reads.

| Variable | Code |
|---|---|
| `enabled, connections, nextDailyWindow, runFence` | `DailyCoachingState` |
| `run[w]` | the Run document of the window; `holder/token/expired` are its lease, `games` its frozen selection, `late` the deadline of a reopened Run |
| `digest[w]`, `card[g]` | the digest and the digested-game cards written by `publish` |
| `task[t]` | `process_player`, `execute`: locals, including the stale document the loop works on |
| `day`, `stage` | local date, and what the window of the day before has reached |
| `since`, `run[w].takeovers` | history for properties and bounds |

A lease is a triple (holder, token, deadline); `require_lease` compares holder and token only, and
`expired()` alone looks at the deadline. So the model lets a stalled task go on with an expired
lease until someone takes it over, as the code does. Every lease-guarded operation is written with
`AtStateFence`: refused without the lease, completed as *fenced* when the fence is out of date,
and performed otherwise. `Publish` includes the whole transaction: the early return for
an already published Run, the fence, the filter of games that another digest holds, the outcome
without a digest, the removal of orphaned cards in a rebuild. Candidates, review results,
retryable failures and deadlines are nondeterministic.

### DigestDelivery

Delivery `n` carries the digest after `n` regenerations, as
`CoachingDigest::delivery_id` derives. A sender is the task that published, or a redrive. Time is kept as
ages relative to the present, so that the state space is finite with real time: `record[d].firstAge`
is how long ago the record was created, `sender[s].age` how long ago the sender took the `now` it
still uses; a claim is written with *that* `now`, so its age starts at the sender's.
`claimed_at` identifies a claim, and `finish` compares it, which the model
does by comparing ages. The provider is external: it remembers a key for `KeyRetention`, returns the earlier message to an
equal request and a conflict otherwise.

### ExactEngineCache

A *request* is one call of `analyze_with_provenance` (single) or `analyze_positions` (batch) on the cache of one
process. Its `pc` is where the future stands: each action is what happens between two points at which another thread can
interfere, that is one lock of the cache or of the active flights, one atomic load or store, or one await. Hence `wait` is four
actions (`Check`, `Subscribe`, `Recheck`, `Awake`) and the leader's `Drop` three, of which the last two hold the mutex of the flights.

| Variable | Code |
|---|---|
| `cache` | `EngineCache`: `lastAccess` are the entries with their generation, `recency` the queue, `used`, `clock` |
| `flight[r]` | the `Flight` that request `r` leads; `active`: it is in the map of `SingleFlight`, `notified`: `notify_waiters` was called |
| `available`, `queue` | Tokio's semaphore of `EngineWorkerLimit`, first in, first out |
| `request[r]` | the future: positions, those missing from the cache, the flight it waits for, whether it subscribed too late |

A request makes one call, so the leader names the flight; `active.remove` behind `Arc::ptr_eq` removes its own flight, as no other
can be under its key. A single position and a batch have maps of their own (`in_flight`, `batch_in_flight`), so
`SameFlight` compares the kind. An analysis answers with results, an error, or the wrong number of results (`Abandon`); results may
lack matching provenance and are then not stored. A future can be dropped at each of its awaits (`Cancel`), which
takes it out of the semaphore's queue, or returns its permits, and drops its leader. An uncacheable position (`Uncacheable`) passes
through without a flight when single, and keeps a slot of its own in a batch.

`EngineCacheStore` keeps the queue with its stale records. `EvictToBudget` pops the least number of records that meets the
budget. The access clock is an unbounded number: it wraps after 2^64 accesses of one process. A weight is the size of the
entry, a constant per key.

### EngineAdmission and PlayerTraffic

A *caller* is one call of `CoachAdmission::acquire`, `EngineAdmission::acquire(_until)` or `try_acquire_prefetch`. One action is one lock, one
operation on the atomic `waiting`, or one operation of Tokio's semaphore. `caller[r].pc` says which guards the future holds, and so what
dropping it gives back: `Counted` is `Waiting`, `WithPermit` the permit, `Claiming` the `PlayerClaim`. `LeaveQueue` is the deadline as well as the
dropped future. A coach call needs no claim and is not metered, and is otherwise the same. `admitted` are the stamps of `DeploymentCeiling`;
`recorded` is history. `ReadTime` is the clock as a caller read it before it locked the meter.

`PlayerTraffic` has one action per outcome of `admit`, whose lock makes it one step. A call also may be up to `MaxLag` ticks late. A Player with empty
windows is not in the map, so that `windows[p] = Idle` stands for its absence. The seconds that a refusal for want of room names are left
out: they speak of other Players.

### LanguageLayerSpend

A *hosted* operation is a comment (`attempt_hosted`) or a host turn (`start_host_turn`, `run_host_turn`). Each action is what happens between two
awaits: the two reads of the ledger, the wait for a provider slot, the provider, the settlement. `spend[s]` is `ReviewSessionSpend`, memory of the process;
`playerSpend` and `globalSpend` are the ledger. A host turn leaves its loop by cancellation, deadline, denial, fault or answer; all of these lead
to `Settle` and `ReleaseEnvelope` here. The provider bills any cost up to the worst case. The counters do not roll over.

### ImportedGames

An import is a Game, a side and an Elo profile of one Player; `GameOf[i]` is what a card and a delete speak of. Reviews are numbered, so that
two analyses of one Game are told apart. A command is `find`, `analyse`, `create`, `winner` or `card` of `finish_game_import`, `build` of
`resident_session`, or `list`, `delete` or `forget` of `delete_game_import`; each is one await. `command[c].undisturbed`,
`overlapped`, `filed` and `astray` are history.

### AccountDeletion

A *run* is `ProductionAccountDeletion::run`, by the request or by a cell's recovery. It goes by the marker that its last `advance` returned, as
the code does, and does the next step the marker lacks. `stepsDone` is the world outside: what was withdrawn, deleted or revoked. Time counts
hours: a token lives one hour, a completed marker two, after which Firestore may purge it at any time. `complete` reads the clock once, before it awaits the
staging marker, so a run may stall between the two (`ReadClock`, `CompleteStaging`). Deleting an identity that is gone is a success
(`delete_identity`), revoking its tokens is an error (`revoke_refresh_tokens`).

### BetaAccess

Each transaction is one action, and `grant`, `retry_delivery` and `redeem` are several: an administrator `a` stands between them with the request and
the attempt it read, a Player with the invitation it looked up. The deletion of the account may come in between. `request[q]` repeats the status and the delivery of its invitation, as the document
does. The email provider may deliver and answer that it failed.

## 3. Runs

| Run | Instance | Shows |
|---|---|---|
| `runs_lease` | 3 tasks (2 on one cell), 2 games, 1 window, 2 takeovers, budgets 1 and 2 | the lease of a window is exclusive and is not regained until the window is rebuilt; until a window is rebuilt its stored Run passes `validate` and attempts stay in budget; finished Runs are final |
| `runs_windows` | 2 tasks on 2 cells, 2 windows, 2 profiles of one provider, 1 fence | no window is passed over; a fence names one enabled stretch; nothing is published after an edit |
| `runs_archive` | one window with 2 games, a rebuild, a takeover and a moved fence; or 2 windows with 1 game and a rebuild (`OneRunOrOneGame`) | cards and digests name each other, also when two windows compete for a game; refinement of `CoachingArchive` |
| `runs_liveness` | 2 tasks on 2 cells, stalls and failures | every claimed Run finishes |
| `email_claims` | 2 senders, 2 deliveries, 2 messages each | the original digest is sent once; Sent records name real messages; settled records are final |
| `email_liveness` | 2 senders, 1 delivery | a claimed delivery is settled |
| `engine_requests` | 3 calls, each of one cacheable position, of an uncacheable one, or of a batch of two; 2 workers, room for 2 entries, a recency queue of `entries + 1` | one analysis per flight; no lost wake-up; permits add up; the cache keeps its budget and bounds its queue, and implements `LruCache`; every call returns |
| `services` | six sides, see below | the properties of `EngineAdmission`, `PlayerTraffic`, `LanguageLayerSpend`, `ImportedGames`, `AccountDeletion` and `BetaAccess` |
| `runs_reopened_lease`, `runs_second_regeneration`, `email_unclaimed_send`, `email_regenerated_bounce` | | disagreements of code and comments, section 6 |

*Bounds.* Two tasks are the least that race; the third in `runs_lease` gives one cell two tasks
beside a rival, the case that only the token can decide. Two takeovers let a first holder come back after its
successor was itself replaced. Two windows are the least for one to be missed while the
other is due, and for two digests to compete for a game. `MaxTakeovers` bounds stalls: until it is reached a lease may
expire under a live holder and a task may die at any step; later only leases that nobody holds expire.
`MaxFence` bounds the edits that move `run_fence`, and `MaxRegenerations` the rebuilds. In
`DigestDelivery`, the horizon is 2, the TTL 1, the hand-off limit 1 and the retention 3: the claim can be
recovered twice before the horizon, and each boundary is met exactly. Two messages per delivery are enough to
see a second one. The ages saturate beyond the largest value a comparison can tell apart.

In `ExactEngineCache`, three calls are a leader, a waiter that may become the next leader, and a rival for permits or for the room in the
cache. A batch of two takes both workers, so it queues behind a single call, and others behind it. Two of three keys fit: the batch evicts the single
position or the single position the first of the batch, which then finds one position cached and one missing. A queue of `RecencyFactor * entries + RecencySlack`
records with factor and slack 1 (the code: 4 and 64) is compacted after a few hits.

*The run `services`.* The services share Players and no state, so their behaviours need no interleaving with each other. `MCServices` picks a `side` at the
start and explores that service while the others stay in their first state, where each of their properties holds; the state space is the sum of the six.
A property of one service is thereby checked on all of its behaviours. The sides:
- *admission*: 3 callers, by two Players, the local coach and a prefetch; one slot and one place in the queue of each pool; a ceiling of two leases in a
  window of one tick, three clock readings. Three callers fill a slot and its queue and leave one to be refused; two of them are one Player.
- *traffic*: 2 Players and room for one, limits of 2 imports and 1 other call, windows of 3 and 2 ticks, a clock of 0..4 and calls up to 1 late, 3 admissions.
- *spend*: 3 comments and turns of one session, one step each, with a session ceiling below two envelopes, a Player ceiling of 4 and one provider slot. The
  global ceiling is never the one met first; it is the same comparison.
- *imports*: 2 commands, 2 imports of one Game, 2 reviews.
- *deletion*: 2 runs, 2 failures, hours 0..3, so that both markers are purged.
- *beta*: 2 administrators, 2 Players, 2 requests, 2 attempts. `OneMailing` confines the administrators to one request at a time and the second request to one
  attempt: the calls of interest are two on one invitation.

*Deadlock.* It is checked for `DigestDelivery`. It is switched off for `DailyCoachingRuns`, where time ends with the
last window: when each window has its outcome, coaching is paused and the bounds are used up, nothing
is left to do; for `ExactEngineCache`, where each request is one call and the system stops when all have returned; and for the services, whose calls,
clocks and failures are bounded.

*Symmetry.* Games in the Run model (no definition orders them) and senders in `email_claims` (all alike) are permuted, and only
in runs that check no liveness property.

*Fairness.* `DailyCoachingRuns!Fairness`: the clock advances; a lease that nobody renews, and the
deadline of a reopened Run, pass; a task that stands at a step takes it (weak fairness: tokio polls every ready task);
and an expired Run is taken over by each idle task's tick (strong fairness, because a task is
only now and then idle, and `tick` runs at every interval and begins with `expired()`). Failure is never fair
and is bounded. `DigestDelivery!Fairness`: time passes; every tick
redrives every archived digest (strong, as a sender is idle now and then); and a sender does not die at its claim for ever
(strong: a death leads to another redrive, and then another claim). Nothing forces the provider to answer well.

`ExactEngineCache!FairSpec`: each request goes on when it can (weak fairness: tokio polls every woken future, and the mutexes are held
for a few instructions), and an analysis answers or times out. It does not ask for a call or a cancellation. Weak fairness is
enough because the semaphore is first-in first-out.

`MCServices` assumes `AdmissionFairness` (a caller that can go on is polled, and a lease ends with its workload; no deadline and no cancellation is asked for, so
`CallersReturn` rests on the queue alone) and `DeletionFairness` (one recovery loop goes on; it passes every thirty seconds, `spawn_recovery`). Other runs and
failures are not fair. Both conditions stand for every side: a service that is not explored has no fair step enabled, as nobody has called.

*Liveness of a delivery* needs no retry limit: within the horizon claims are recovered, and the first claim after it
settles the record as suppressed by the expired retry window. That a rebuilt digest takes the place of an older
delivery, which then stays Pending, is part of the property.

## 4. Proofs

Every safety property that a passing run checks, invariant or action property, and both refinements are theorems, for every value of the constants that the
modules' assumptions admit. The assumptions are: a cell for each task, a provider for each profile; bounds, limits and windows that are natural numbers, positive where
the code's constants are; finite sets of Players and operations where a sum runs over them; and the few relations between constants named below. The runs check the same
properties on the instances of section 3. Only liveness is left to TLC, see the end.

`DailyCoachingRunsProofs` is about any sets of tasks, cells, profiles, games and any number of windows. It proves type
correctness, `UnregeneratedLeaseExclusive`, `LostLeaseStaysLost`, `FinishedRunsAreFinal`, `NoWindowPassedOver`,
`FenceMarksEnabledStretch`, `PublishedFromConnectedProfiles`, `UnregeneratedRunsReadable`, `AttemptsWithinBudget`, `CardsMatchDigests` and the refinement `ImplementsArchive`.
None of the first seven is inductive alone. `IInv` adds:
- `OwnerWellFormed`, `TaskWellFormed`: what the setup document and a task at each await point look like; for example, that
  the Run exists once a task advances the window, which is why `NoWindowPassedOver` survives a crash
  between the two transactions;
- `FenceInvariant`: a remembered fence is never ahead of the stored one. Without it a *future* fence
  could become current by an increment, and name profiles that are gone;
- `LeaseInvariant`: until a window is rebuilt no task remembers a token above the stored one, and no two tasks remember the same.
  Exclusiveness and the loss of a lease follow, whichever cells share a holder.

Each action is shown to preserve each conjunct it can disturb; the action properties follow from one step under `IInv`.

Two more invariants rest on `IInv`:
- `SelectionInvariant`: the task that holds the lease of a window nobody reopened remembers the selection that is stored (`InSync`), and stands at
  `publish` only when no game is pending. `publish` writes NoDigest without looking at the games and `record_game` compares the *remembered* attempts with the budget: that stored Runs pass
  `validate` and that attempts stay in budget is true because nobody but the holder writes the selection. Where two tasks hold one lease, after a rebuild, it is false (section 6).
- `DigestsAreOfPublishedRuns`, with `CardsMatchDigests`: a digest is that of a published window or of a reopened one. `NoDigestIsSuperseded` is its consequence for a publication
  for the first time, and the reason why the model has no branch for the error that `publish` answers to a digest it did not expect.

The refinement goes by `ArchiveEffect`: whatever a task does, a step leaves the archive alone, moves one window along its life, or publishes one window with the games no other digest holds. That
the cards after a publication are those of the abstract `Publish` needs `CardsMatchDigests` before the step (`RecardedShelves`): the code removes the cards of the games in the old digest, the archive clears what is shelved under the window, and only that
invariant says that these are the same.

`DigestDeliveryProofs` proves type correctness, `OriginalSentOnce`, `SentRecordsNameMessages` and `SettledIsFinal`, for any TTL below
the horizon and any `RetryHorizon + HandOffLimit <= KeyRetention`. The code's values are a horizon of 23 h and a
retention of 24 h: the assumption is that a sender hands its email off within one hour of the `now` it took. Nothing in the code enforces that
hour; requests time out after 15 s, but a tick uses one `now` for all digests it redrives. The argument: a granted
claim is inside the horizon of its record (`ClaimsAreInHorizon`), so at hand-off the record is younger than the retention; the key of the
original delivery is no older than its record (`OriginalKey`), so the provider still remembers it and accepts nothing new. `SenderWellFormed`
and `KeysNameMessages` carry what a sender knows of deliveries and messages.

`ExactEngineCacheProofs` proves `OneAnalysisPerFlight` and `NoLostWakeup` for any set of requests and calls, and whatever the cache and the
semaphore do: neither property depends on them. `IInv` adds the shape of requests (`Shapes`), the stages of a flight (`FlightStages`: it is in the map only
while its leader is between registration and `Drop`, and is complete before it notifies), `OneFlightPerName`, and `WaitersKnowTheirLeader`: the flight a waiter
stands at is still to be notified or was. The two loads of `complete` in `wait` meet there: a waiter that subscribed too late sees the flight
complete at the second load, because `complete` precedes `notify_waiters`. Most steps of a request touch no flight; `QuietKeeps` proves them all, and
`RegisterKeeps` and `DropKeeps` the rest.

`TypeOK`, `PermitsAddUp`, `CacheFitsBudget` and `RecencyIsBounded` follow from `ResourcesInv`, which adds to `IInv`:
- the queue of the semaphore holds each waiting call exactly once, and what is available and what the running analyses hold add up to the workers (a sum over a set of calls that grows and shrinks);
- the cache is *sound* (`CacheSound`): its queue lists accesses in their order, the last access of every entry is among them, and the bytes it counts are the weights of its entries; and it is compacted
  (`Compacted`), which is what bounds the queue.

`EngineCacheStoreProofs` shows what each operation does to such a cache. `PoppedIs` is the hard one: after the records that were popped, exactly the entries whose last access is still in the queue remain, so
a stale record evicts nothing. The budget can always be met, because once all records are popped no entry and no byte is left.
The refinement `ImplementsLru` maps the stamps to the order of the last accesses (`ByUse`), which the entries determine (`ByUseUnique`): a hit moves a key to its end, and evicting from the queue drops
a shortest prefix of that order (`EvictedByUse`).

`AdmissionProofs` is about any callers, pools, Players, limits and windows.
- `OneWorkloadPerPlayer`: `active[p]` is the set of Players of the callers in `Claiming`, and no two of these agree. It depends on neither the semaphore nor the meter.
- `SlotsAddUp` from `SlotsInv`: for each pool, the free slots and the callers that hold a permit add up; the queue holds each waiting caller once; the atomic counter is the number of the callers that counted themselves, of which those
  still queued fit the bound.
- `MeterKeepsWindow` from `MeterInv`: the stamps kept are all but the first `n` ever recorded, and those are older than the window (`Forgets`). As callers read the clock before they lock the meter, stamps are in order up to
  `MaxDelay` only; that the front of the queue is checked alone is why a lease may be held for the window and the delay.
- `TrafficWithinLimit`, `ImportsCountedOnce`, `RefusalsNameARetry` from `TrafficInv`: each stamp is that of an admission of its own, and an admission without one is older than its window (`Traced`, by an index from stamps to admissions); each import
  that is not that old is remembered. The stamps left at an admission therefore cover every earlier admission of the stretch that ends there, and they are fewer than the limit (`CoveredBound`); and a refused call that comes back after the seconds it was told finds the stamp it waits for expired.

`ReviewSessionProofs` proves of `LanguageLayerSpend`, from `SessionCeiling < 2 * Envelope`, which the code's constants satisfy (25 000 and 4 * 5 000
micros): `EnvelopeExclusive` and `ReservationsAreReleased`. What a turn still holds and what its session committed since add up to at least the envelope (`record` consumes the reservation and commits the same), so a
second envelope cannot fit; and a session without a turn has nothing reserved, unless a ledger read failed (`leaked`). `BilledOnce` follows from `BilledInv`: a comment or a turn that ended, by whichever exit, owes the ledger
nothing, so what was billed is what the ledger charged, what a crash or a failed settlement lost, and what is owed by those still under way. It needs finitely many Players and operations, for the sums.

It proves of `ImportedGames` the property `ImportsAgree`, for any imports and commands. `Sound` carries what a command read: an undisturbed command at `card` or `build` has the review that
is stored, and a delete of a Game that nothing overlapped has listed every stored import of it. `GoneOK` adds to the property that a filed import is stored.

`AccountProofs` proves of `AccountDeletion` `DeletionInOrder`, for any number of runs and cells. A run goes by a phase that was done (`MarkerIsTrue` of its memory), the staging marker exists once
a run passed it, and a marker is purged only after the tokens ended, because its time of completion was read after the identity was deleted and it lives two hours. It proves of `BetaAccess`
`AccessAgrees` and `SendersHoldTheirAttempt`, for any requests, Players and administrators: an administrator that delivers holds the attempt that
the invitation stores, and `begin_retry` compares it.

`CollectionLemmas` has what these proofs share: `SumFunctionOnSet` of the community modules is a fold, whose value over a set the prover cannot compute. `SumIs` pins it down by induction over the
finite set, and `SumWith`, `SumWithout`, `SumSplits` and `SumChanges` say how it changes; the rest is about removing one element of a sequence.

*Only model-checked.* Liveness, which the prover cannot treat: `ClaimedRunsFinish`, `PendingIsSettled`, `RequestsReturn`, `CallersReturn` and `DeletionsFinish`. And the four properties that the code violates.

## 5. What is not modelled

Initial backfills, opening analyses, time zones and the content of selections, reviews and digests are abstracted from the Run model: its
candidates and results are arbitrary. Reads by dashboards are left out. Of the delivery, unsubscribe tokens, webhook
signatures and rendering are left out. The Firestore client is taken at its word: a commit is one atomic step, and a failed commit is no step.
Of the engine cache, the discarding of entries whose digest no longer matches is left out (it
answers to corrupted memory), as are multi-PV analyses and providers without an identity, which pass by the cache. A lookup and the registration that follows are
separate locks, so a result filed in between is analysed once more; nothing promises otherwise. Of admission, the lengths of queue deadlines; of the ledger, the rolling of its counters, the length of cooldowns and the operational records; of beta access, rate limits,
codes and their cryptography; of account deletion, what each phase does inside its stores, which is one step here. The single flight of session starts, the Review Session's moments,
prefetch, exploration and live cancellation are left out, and one process is assumed to hold a Player's sessions.

In `LanguageLayerSpend` an attempt that the provider billed is lost with the process or with a failed settlement, and in no other way. `AuthoredComment` is settled by `finish`, and
the future that would call it (`author_grounded_comment`) is awaited by two tasks only, the command that `dispatch_admitted` spawns (`review_session_processor.rs:579`) and `schedule_web_artifact_authoring`.
Nobody keeps their handles, and the cancellations of `readiness.rs` and `prefetch.rs` end the preparation of a moment before a comment is authored, so no caller drops it. A panic inside a task is not modelled, here or elsewhere.

The models cover the parts of the Coach Engine that keep state under concurrency or failure. Most of its source is content: chess facts, comment wording, prompts, parsing, message types and
HTTP routes are functions of their input, to which a state machine has nothing to add, and their properties are those their unit tests state. That is why the mapped lines are a small share of the
repository. The remaining components of section 1 are listed as `not_modelled` in `PROJECT.json`, with the reason.

## 6. Disagreements met

- **A reopened Run accepts an old lease** (`runs_reopened_lease`). `reopen_for_regeneration` grants token 1 again, and all tasks of a
  cell share `holder_id`. A task that stalled as the first holder, was taken over, and wakes after the rebuild began
  passes `require_lease` again. The comment at `runs.rs:587` says it fails. As a consequence, the stale task may publish with the selection
  of its own execution. With one takeover and one rebuild, TLC finds it between the rebuild's `freeze_selection` and its reviews: the stale task has nothing
  left to publish, so `publish` stores the outcome NoDigest over a selection whose new game is pending, and leaves the old digest and its cards. `validate` refuses a finished Run
  with a pending game, so that Run can no longer be read, nor rebuilt. `UnregeneratedRunsReadable`, `AttemptsWithinBudget` and the lease properties are therefore stated of
  windows that were not rebuilt.
- **Two rebuilds at once** (`runs_second_regeneration`). A second request skips the Active window and reopens the one before, against the comment at
  `lifecycle.rs:225` and ADR 0048.
- **An email that no record claims** (`email_unclaimed_send`). A redrive claims the delivery of the digest it listed, and sends the
  delivery of the digest it reads afterwards; a rebuild in between makes them differ.
- **Bounces of rebuilt digests** (`email_regenerated_bounce`). `valid_delivery_id` does not know the `-r<n>` ids, so the webhook is refused.

Also seen, and excluded from the properties as stated, or promised by nothing:
- A webhook that arrives before the delivery is recorded Sent is acknowledged and forgotten; a superseded delivery stays Pending; `suppressed_email` holds one address.
- *A delete of a Game beside other commands.* An import that found the record upserts its card after the delete committed, an import at another Elo that was created in between is not
  among what the delete listed, and a session builder inserts what it read after the delete forgot. The header of `deletion.rs` and the comment at `game_import_store/firestore.rs:240` exclude
  such orphans. `DeletedGamesAreGone` speaks of Games of which no delete ran beside another command (`overlapped`).
- *An envelope that is lost.* `admit_host_turn_envelope` reserves before it reads the ledger, and a failed read leaves by `?` before a `HostTurnEnvelope` exists: the reservation stays until the
  session loses residency, although "Unused reservation is released at end" (`HOST_TURN_ENVELOPE_MICROS`). `ReservationsAreReleased` excepts such sessions (`leaked`).
- *Overshoot of ceilings.* Ceilings are read before the wait for a provider slot, and the slot is given back before the cost is recorded, so more operations than
  `concurrent_overshoot_bound_micros` allows for may pass one reading. No property states that bound.
- *A deletion that outlives its markers.* A run that stalls for more than two hours across the completion by another and the purge writes its markers anew, and then fails for ever at
  `revoke_refresh_tokens`, whose account is gone. `DeletionsFinish` is about deletions whose identity exists.
- *Data after the deletion.* A request that `ensure_player_active` let in before the markers may write after `delete_application_data`.
  So may a redemption (`redeem` in `beta_access/redemption.rs`) that looked its invitation up before: it stores a grant of a Player who is gone. `AccessAgrees` holds of such a grant too.
- *A delivery left Pending.* A call that dies between `commit_grant` and `record_delivery` leaves an invitation that no retry takes up; and a repeated `revoke_access` is refused as an invalid record
  once the Player redeemed another invitation.

## 7. Plan

1. Stockfish sessions: reuse and restart after a failure or a timeout; the human-move model behind the same single flight.
2. Review Session processor: the single flight of session starts, prefetch and live cancellation, composed with `EngineAdmission`.
3. Requests of a Player beside the deletion of the account: what is let in and what it may still write.
4. Initial backfill in `DailyCoachingRuns`.
5. Proofs: every safety property that a run checks has its theorem. Abstract specifications of the deliveries (a mailbox that accepts the original once) and of the
   deletion saga (steps done in order, once), which their modules would then be shown to implement.
