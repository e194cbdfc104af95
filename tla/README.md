# A TLA+ verification of lijiaoqiao

`lijiaoqiao` is an LLM gateway platform made of three Go services: a **gateway** that
authenticates, limits and routes completion requests, a **platform token runtime** that
issues and revokes the tokens the gateway accepts, and a **supply API** through which
suppliers offer capacity and withdraw what they earned. This directory models the parts
of the three services that keep state under concurrency or failure, checks them with TLC
on small instances and proves, with TLAPS, every invariant and every action property of the passing runs for instances of any size; only the
liveness properties and the counterexamples rest on TLC alone.

Paths below are relative to `src/`.

## 1. Inventory

The components, the state each keeps, and what makes it correct. `PROJECT.json` lists every
component with its files, modelled or not.

### Platform token runtime (`platform-token-runtime/`)

| Part | State | Operations | Correct when |
|---|---|---|---|
| store and runtime (`auth/service`) | maps token id -> record, access token -> id, idempotency key -> (token, input hash), one `RWMutex` | `Issue`, `Refresh`, `Revoke`, `Introspect`, `Lookup`, `Verify`, `Resolve` | one token per key, a dead token never lives again |
| HTTP API (`httpapi`) | none; a handler takes the lock several times | issue, refresh, revoke, introspect, audit query | an answer fits the state at some time during the request; the audit trail is complete |
| middleware (`auth/middleware`) | none | query-key rejection, bearer parsing, verify, status, scope | a dead token is not admitted |

Hard: a handler is several critical sections (lookup, then refresh; verify, then resolve), expiry is
applied lazily by whoever reads, the clock moves in between, and requests overlap.

### Gateway (`gateway/`)

| Part | State | Correct when |
|---|---|---|
| remote token runtime (`middleware/remote_runtime.go`) | cache token id -> (status, expiry), filled by introspection calls | a revoked token is refused |
| rate limiter (`ratelimit`) | map key -> bucket or window, two levels of locks, a cleanup goroutine | no interval admits more than the limit |
| router (`router/router.go`) with the handlers (`handler`) | per provider: availability, latency average, failure rate | failing providers are skipped, healthy ones are used |
| routing engine, strategies, fallback (`router/*/`) | template registries, counters | not yet wired into the program |
| alert, compliance, config | - | - |

Hard: answers of the token runtime that arrive in another order than they were given; deletion of a
bucket between two critical sections of one request; health that is read by one request and
written by another.

### Supply API (`supply-api/`)

| Part | State | Correct when |
|---|---|---|
| settlements (`domain/settlement.go`, `repository/settlement.go`) | rows with status and version | one open withdrawal per supplier; never both paid and cancelled |
| outbox (`outbox`, `repository/outbox.go`) | rows pending/processing/failed/completed, dead letters, a Redis stream | every event is published or dead-lettered, none is lost, none is held twice |
| idempotency (`middleware/idempotency.go`, `repository/idempotency.go`) | one row per key with status, hash, answer, expiry | one effect per key, a replay gets the first answer |
| audit batch buffer (`audit/service/batch_buffer.go`) | channel, buffer, mutex, stop and done channels | every accepted event is handed over once, `Close` and `FlushNow` return |
| accounts, packages | rows with status and version | legal transitions; optimistic locking |
| compensation | rows with status and retry count | retried, resolved or handed to a human |
| process (`cmd/supply-api/main.go`, `app`) | the two backends, the server and worker goroutines, where `main` is | production never serves without its backends; workers run; a signal ends it cleanly |
| token verification (`middleware/auth.go`, `db_token_backend.go`, `token_revocation_service.go`, `repository/token_status.go`, `cache/redis.go`) | a row per token, a Redis key per token with a life time, a Pub/Sub channel | a revoked token is refused, at once or when the key runs out |
| rate limit (`middleware/ratelimit.go`) | map key -> bucket, made under a double-checked lock | one bucket per key, at most `Requests` per window |
| partition manager (`repository/partition_manager.go`) and its job | the monthly tables of three parents | a month has its table before rows arrive, and loses it only after the retention |
| alerts (`audit/service/alert_service.go`, `audit/handler/alert_handler.go`) | rows with a status | a resolved alert stays resolved |
| IAM, SMS | rows, codes | not constructed by the program |

Hard: everything between two SQL statements; `SKIP LOCKED`; commits and publications whose answer is
lost; crashes between the claim of a row and its completion; columns that are `NULL` in just one state; a cache that is filled
while it is invalidated; backends that are missing at start-up; month ends.

### Interactions

The gateway asks the token runtime by HTTP (`/introspect`); `GatewayAuth` composes the two. The supply API's
handlers run inside the idempotency middleware and call the settlement service; the outbox table takes domain
events, which its runner publishes to Redis; the audit batch buffer collects audit events for a handler that stores them.
The instances of the supply API share the database and Redis. `main` starts the revocation subscriber, the outbox runner and the partition
job; `TokenStatus` extends `SupplyStartup`, because what a request meets depends on which backends the process found and
whether it is subscribed.

Some of these parts are modelled although the program does not reach them yet, from their code and from how tests use them:

* `NewBatchBuffer` is called only by tests; the services write audit events one by one.
* `TokenAuthMiddleware` of the token runtime is not part of the server that its `bootstrap.go:69-80` builds.
* `Withdraw` is refused in the wired program before it reaches the store, because `DefaultSMSVerifier` accepts no code.
* With both backends up the outbox runner is not started (`SupplyStartup` stays in "subscribed"). If it ran, nothing that `Create`
  writes would be published at its first attempt or ever after, because its `NULL` error message cannot be scanned; publication is
  exercised by the events of `Described`, which stand for a writer that fills the column.
* With the tables of the baseline every request that passes `GetByKey` is turned away (run `idempotency_baseline`); the run
  `idempotency` is over the table that its `ON CONFLICT` and the data dictionary (`data_dictionary_v1.md:242`) ask for. Nothing calls `DeleteExpired`.

## 2. Modules

| Module | Models | Composition |
|---|---|---|
| `TokenStore` | `inmemory_runtime.go`, `runtime_store.go`: the store and each critical section on it, and the clock | |
| `TokenLifecycle` | abstract: a token is unissued, live or dead, and dead for good | implemented by `TokenStore` with `LifeMap` |
| `ScopeAuthz` | role and scope decision of the middleware | used by `TokenRuntime` |
| `TokenRuntime` | HTTP handlers, middleware and audit trail | extends `TokenStore` |
| `GatewayAuth` | gateway chain, introspection on the wire, cache | extends `TokenStore` as the answering service |
| `ProviderRouting` | router health and selection, completion endpoints | |
| `RateLimit` | token bucket and sliding window of the gateway, bucket of the supply API | |
| `Settlement` | withdraw, cancel, external payer, by SQL statement | |
| `Outbox` | runners, table, dead letters, stream | |
| `Idempotency` | middleware around a handler, one key | |
| `BatchBuffer` | goroutines over the mutex and the channels | |
| `SupplyStartup` | the life of a supply API process: `main.go`, `app/runtime.go`, `app/background.go` | |
| `TokenStatus` | verification middleware, token table, Redis, revocations and their subscriber | extends `SupplyStartup` |
| `Partitions` | partition manager and its job on several replicas, with the calendar | |
| `TokenRuntimeProofs`, `SettlementProofs`, `OutboxProofs`, `IdempotencyProofs`, `BatchBufferProofs`, `TokenStatusProofs`, `PartitionsProofs` | inductive invariants and theorems | each extends the module it is named after |
| `GatewayProofs` | the same for the three parts of the gateway | extends `GatewayAuth`, `RateLimit` and `ProviderRouting`, which have no name in common |
| `MC*` | constants and symmetry for TLC | `MCGateway` extends `GatewayAuth` and `RateLimit`, and moves one of them |

How state and actions correspond to the code:

* **A critical section or an SQL statement is one action.** What a handler keeps between two of them is in
  variables indexed by the request (`pc`, `tok`, `row`, `entry`, ...), so that every interleaving of the
  critical sections is a behaviour. Each action's guard is the code's condition on the path that leads to it.
* **TokenStore/TokenRuntime.** `status`, `expiresAt`, `idemToken`, `idemHash` are the maps. `ApplyExpiry`
  is `applyExpiry`; `Read` is any operation that reads a record and writes the expiry back. `PrepareIssue` is what
  `Issue` does before its lock (it draws `issuedAt`), `CommitIssue` what it does under it. `LookupRefresh` and `CommitRefresh`,
  `LookupRevoke` and `CommitRevoke`, `Verify` and `Resolve` are the two critical sections of those requests. `EmitAudit`
  is the append before the answer (it fails only if the system's random generator does, which is left out). A client sends ids it was given, or an unknown one.
* **GatewayAuth.** `SendIntrospect`, `Introspected` (the runtime answers), `StoreResponse` (the gateway caches it),
  `Resolve`: the response is on the wire between the second and the third, and the runtime goes on.
* **ProviderRouting.** `Accept` selects, `Return` is the adapter's result, `Report` is `RecordResult` and the answer. The
  float64 failure rate is the rate in units of 1/`Unit` rounded up; `FailedRate` and `RestoredRate` contain every
  rounded value the exact result can have, so the model's behaviours include the code's, and both agree on "above 1/2". `failed` counts the failed chat calls: the other endpoints report nothing.
  `UpdateHealth` has no caller outside tests and is left out.
* **RateLimit.** `GetEntry` is the first critical section of `Allow`, `Decide` the second; a deleted entry lives on for
  the request that holds it. Tokens are counted in units of 1/`Cost` token. In the supply API `GetBucket` is the lookup under the read
  lock and `MakeBucket` the second one under the write lock. `BucketRequests` is the `Requests` of its configuration.
* **Settlement.** `CheckPending`, `CheckBalance`, `LockExisting`, `Insert`, `Commit`/`CommitFails`, `Rollback`; `CancelRead`,
  `Update`; `EmitAudit`. Row locks are held until the transaction ends (`held`); `settlement_no` is the clock in
  seconds and unique. The payer is external (nothing in the repository moves a settlement on) and uses the repository's `Update`.
* **Outbox.** `TickProcess` is the ticker; `FetchAndLock` with `SKIP LOCKED` is `Claim` (its `UPDATE` commits) or `FetchNothing` (the query fails, or finds
  nothing); then `Publish`, `MarkCompleted`, `MarkFailed`, `MoveToDeadLetter`, `DeleteCompleted`,
  `MarkDeadLetterHandled`. Every call may fail, also after it took effect. `described` are the rows whose
  `error_message` is not `NULL`: only those can be scanned.
* **Idempotency.** `Lookup`, `AcquireLock` (the `INSERT`), `Recheck` (the `GetByKey` that follows any error of it and whose row is taken for the lock),
  `Execute`, `Update`, with `OutcomeLost` for an update that fails, `DeleteExpired` and the clock. The handler may succeed, fail without an effect, or
  report an error after it took effect. Any statement may fail; an `INSERT` whose error was returned may still be executed, then or later (`StrayInsert`).
  `UniqueKey` says whether the table has the unique key that `ON CONFLICT` names: the table `migrate.sh` installs
  (`partition_strategy_v1.sql:110`, the one `Partitions` treats too) has none. The historical `supply_idempotency_record_v1.sql` has it but cannot be installed as it
  stands, because the predicate of an index uses `CURRENT_TIMESTAMP`.
* **BatchBuffer.** A `FlushHandler` is set: without one `doFlushLocked` discards its batch, as it is meant to. `Add`, the arms of the run loop's `select` (`Receive`, `TickFlush`, `StopSignal`), `Lock`, `Drain`, `Flush` of whoever
  flushes, the three parts of `Close`. A receive from the closed channel is always possible (`Spin`).
* **SupplyStartup.** `phase` is the call `main` is in. `BuildRuntime` finds each backend or not; `StartRevocationSubscriber`,
  `StartOutboxProcessor`, `StartWorkers` are the calls of `StartBackgroundWorkers` in their order; the server goroutine runs beside them
  (`Listen`, `ServerFails`). `Signal` ends the process at once unless `main` has reached its `select`. `ProcessStep` of `TokenStatus` takes the requests of a process that ends with it.
* **TokenStatus.** A request is `Arrive` (everything before the status query), `GetCached` (Redis `GET`), `ReadStatus` (the `SELECT`), `StoreStatus`
  (Redis `SET` and the answer). `RevokeToken` is the `UPDATE` of `RevokeToken` and of `RevokeAndPublish`, `ListActive` and `UpdateAll` the two
  statements of `RevokeBySubjectID`, `Del` the invalidation after them, `Publish` and `Redel` the rest of `RevokeAndPublish`,
  `HandleRevoked` the subscriber. Every command may fail. A `SET` on which the client gave up may still be applied (`late`, `LateSet`). `swept` records the revoked tokens whose key was deleted while no request
  was about to store an older status.
* **Partitions.** A month is a number, `AddDateMonth` is `time.AddDate` with its carry, `PlusMonths` PostgreSQL's `interval`, which
  clamps. `Check` and `CreatePartition` are the two statements of `createPartition`; the date is read again at every offset. A run of
  `DropOldPartitions` that breaks off leaves any of the old partitions (`LeftOver`), because their list has no order. `ensured`
  records the month of the last run that got through on a day every month has.

## 3. Runs

Sizes are distinct states. Every property of a passing run has a mutant in `PROJECT.json`: a definition changed the way a plausible
bug would change the code, under which TLC finds the property violated.

| Run | States | Shows |
|---|---|---|
| `token_runtime` | 525,879 | `OneTokenPerKey`, `DeadTokenUnusable`, `AuditTrailRooted`, refinement of `TokenLifecycle` |
| `gateway` | 4,004,037 | `DeadAdmittedOnlyByOverlap`; `BucketConforms`, `WindowConforms`, `FixedConforms`. Authentication or the limiter moves, as chosen in `Init` (they share no state), and so is the limiter's algorithm |
| `settlement` | 324,936 | `PaidOrCancelled`, `AuditTellsTruth`, `DoubleWithdrawOnlyByRace` |
| `outbox` | 8,268 | `SingleOwner`, `ConfirmedOnce`, `NeverLost`, liveness `WaitingIsFetched`, no deadlock |
| `idempotency` | 9,224,914 | `RecordedEffectOnce`, `FreeKeyIsHandled`, over the table with the unique key |
| `batch_buffer` | 83,680 | `HandedOverOnce`, `CloseLeavesNothing`, `BufferBelowBatch`, liveness `EventuallyHanded`, `CloseReturns` |
| `provider` | 567,520 | `SevenInARowTrip`, `DroppedAfterSevenFailures`, liveness `DeadProviderLeftAlone` |
| `token_status` | 688,128 | `SweptStaysRefused`, `ProdFailsClosed`, liveness `RevocationTakesEffect`, no deadlock |
| `partitions` | 6,658,922 | `RetentionKept`, `CoveredAhead`; the table is chosen in `Init` |

Three runs end in a counterexample, each for one sentence of the repository that the code does not keep
(quoted in `PROJECT.json`, "findings"):

| Run | Sentence | What the code does |
|---|---|---|
| `settlement_one_open` | one open withdrawal per supplier | `FOR UPDATE` of no row locks nothing; two inserts |
| `outbox_reliable` | reliable publication | rows with a `NULL` error message are claimed, cannot be scanned and stay claimed |
| `idempotency_baseline` | the first request with a key gets the success code | `ON CONFLICT` names a unique key that the baseline table lacks: the `INSERT` fails and the request is answered `IDEMPOTENCY_LOCK_FAILED` |

### Known deviations

The models also contain the following behaviours of the code. They have no run of their own; the properties above are stated so
that they hold in spite of them.

| Where | What the code does | How the model shows it |
|---|---|---|
| `token_api.go`, refresh | a refresh that fails emits no audit event | no `EmitAudit` on that path; `AuditTrailRooted` speaks of issues |
| `inmemory_runtime.go`, `Refresh` | a short TTL brings `expires_at` nearer | `CommitRefresh` sets it to now plus the TTL |
| `remote_runtime.go` | an older introspection answer may overwrite a newer one in the cache | the overlap that `DeadAdmittedOnlyByOverlap` excepts |
| `outbox.go` | the raised `retry_count` is not stored, so `max_retries` bounds nothing unless it is 1 | `MarkFailed` leaves the count |
| `idempotency.go` (repository) | a row in progress has a `NULL` response code and cannot be scanned: 500, not 202 | `Lookup` on such a row |
| `idempotency.go` (middleware), 179 | the payload hash is set after the lock was taken and never stored: a replay with the same body is answered as a mismatch, not with the first answer (comment at 144, `docs/supply_technical_design_enhanced_v1_2026-03-25.md:47`) | `LookupVerdict` compares with the blank hash of the row |
| `idempotency.go` (repository), 224 | the take-over compares with the new expiry and not with now, so it is true of a lock that is in use: two requests are in the handler, where `review/daily_reports/strict_code_review_2026-04-03.md:63` says that `AcquireLock` prevents that | `TakeOver`; the overlap `raced` that `RecordedEffectOnce` excepts |
| `idempotency.go` (middleware), 201 | the error of `UpdateSuccess` is ignored: the record does not tell the effect, and a later request repeats it | `OutcomeLost`, which `RecordedEffectOnce` excepts |
| `middleware/ratelimit.go:198` | the bucket is never refilled: 1000 requests per key and process, not per window (line 16), and a refused client that waits for the `Retry-After` it was given is refused again | `TakeFixed`; `FixedConforms` bounds a window only from above |
| `batch_buffer.go`, `FlushNow` | receives from the closed channel for ever | `Spin`; no property promises that a flusher returns |
| `ratelimit.go`, cleanup | deletes idle buckets that are full, not empty ones as its comment says | `CleanupBucket` |
| `ratelimit.go:89` | cleanup may delete the bucket between the two critical sections of a request, which is then charged to nobody | `orphaned`, which `BucketConforms` and `WindowConforms` except |
| `handler.go`, `openai.go` | every adapter reports "openai": results of all providers go to that entry | `Reported`; `DroppedAfterSevenFailures` and `DeadProviderLeftAlone` count by reported name |
| `router.go` | a provider that was dropped is never restored | `Updated` only switches `available` off |
| `background.go`, `redis.go` | `StartRevocationSubscriber` runs its loop in the goroutine of `main`, where `db_token_backend.go:155` says it starts a background goroutine: with both backends up the outbox, partition and compensation workers are never started, a failed server goes unnoticed, and SIGTERM ends the process without `Shutdown` | phase "subscribed", left only by `Signal` |
| `runtime.go:276` | without Redis the backend gets a nil pointer in an interface: every authenticated request panics | the answer "aborted" in `Arrive` |
| `token_status.go:107` | a token without a row is active, so deleting the rows of a subject revives its revoked tokens | `GetStatus`; `DeleteBySubjectID` clears `swept` |
| `db_token_backend.go` | a fill that was under way survives the invalidation, so a revoked token may pass for the life of the key (30 s by default, where `token_status_registry_v1.sql:3` aims at 5 s) | the overlap `swept` excepts; `RevocationTakesEffect` |
| `partition_manager.go:60` | on the 29th to the 31st `AddDate` carries over and a month is skipped: a first run on 31 March makes no table for April | `AddDateMonth`; `CoveredAhead` speaks of the other days |
| `handler.go` | the assertion that an adapter's error is a `*GatewayError` panics | the answer "aborted" |

What remains true beside all this is the point of the passing runs: `DoubleWithdrawOnlyByRace` shows that a second open withdrawal
needs a `SELECT` that ran while the first was uncommitted or its row was locked, `RecordedEffectOnce` that sequential requests whose outcome is on record are
handled once, `FixedConforms` that the limit of the supply API, if too strict, is never exceeded.

### Bounds

* Token runtime: 2 tokens, 2 keys, 3 requests, TTLs 1 and 2, clock to 3. Three requests are enough for a
  handler to be overtaken between two of its critical sections by two others, the clock for a token to expire, be refreshed
  before, and be seen after. The theorems below need no bound.
* Gateway: one token and 3 requests: the answer of one overwrites that of another between its `Verify` and `Resolve`.
* Settlement: 2 suppliers, 2 rows, 4 requests of any kind, amounts below, at and above the balance, 2 clock values, so
  that settlement numbers may or may not collide.
* Outbox: 3 events (one not scannable), 2 runners, batches of 2, `max_retries` 1 and 2: a batch may fail half way, and an
  event may wait behind a batch.
* Idempotency: one key, 3 requests, life 2, lock life 1, clock to 3: the lock and then the record may expire between requests, and of three requests one may
  leave a row to the second that the third meets.
* BatchBuffer: 4 events, channel and batch of 2, one flusher and two closers: the channel fills, a batch fills, and the flusher, the
  run loop and a closer contend for the mutex.
* RateLimit: 5 requests (without symmetry), burst 2 tokens, half a token per time unit, clock to 6; window of 2 with 2 requests.
* ProviderRouting: two providers whose adapters both report "openai", one connection, chat and stream requests, different model lists, two
  latencies, and rates in 1/220, fine enough for the seventh failure to trip and the sixth not to. `HistoryCap` bounds the history counters
  at the seven the properties compare with.
* TokenStatus: one token, two requests, one revocation at a time, keys that live for 2 clock units: a fill and a hit, or two fills, overlap the three
  commands of a revocation, and the process may end between any two of them. One `SET` at a time is late. More than one token would only interleave independent keys:
  the commands of `RevokeBySubjectID` are per token.
* Partitions: two replicas, December 2026 to April 2027, days 1, 28, 29 and 31: a turn of the year, a February of 28 days, months of 30 and 31
  days, a midnight between the 28th and the 29th and one between the 31st and the 1st. A run that breaks off leaves all, none or one of the
  partitions it should have dropped (`MaxLeft` = 1); the proof holds for any `MaxLeft`.

Symmetry is used for requests (and tokens and keys, and replicas) in runs without liveness. Deadlock is checked for the outbox,
the provider and the token status runs; the others have finitely many requests, or a last day, and stop when they are done.

### Fairness

* `Outbox`: weak fairness of each runner (its ticker fires as long as the process lives) and of time passing. No fairness of success for
  `Publish` and the marks: they may fail for ever. `DatabaseAnswers`, strong fairness of `Claim`, is an assumption on the environment and not on the code: if every
  query failed, nothing would be fetched. The property is about a runner that runs; that `main` does not start one is section 1.
* `BatchBuffer`: weak fairness of every goroutine's next step, which the Go scheduler gives; the run loop's `select` is fair to the
  ticker because Go chooses among the ready arms at random.
* `ProviderRouting`: clients go on sending well-formed requests, a call returns (the adapter's client has a timeout of 60 s), a handler
  that got its result goes on.
* `TokenStatus`: time passes for the keys in Redis, and the `SET` of a request returns, with an answer or an error (the Redis client's
  read timeout is 3 s by default); Redis gets to a `SET` it was sent. No fairness of the database, of revocations, of the subscriber or of the process: a revocation may stop
  after its `UPDATE`, and its effect must come all the same.

## 4. Proofs

Ten specifications are proved about, for every value of their constants. Each proof module defines an inductive invariant `IInv` (`GatewayProofs`
defines three: `LimitInv`, `AuthInv` and `RouteInv`), which TLC checked on the instances of section 3 before it was proved; `Invariance` is the theorem
`Spec => []IInv`, and the other theorems follow from it. A lemma per action shows that the action keeps `IInv`, with a step for each conjunct the action can disturb; what several actions have in common is a
lemma of its own.

| Module | Theorems (the property each states) |
|---|---|
| `TokenRuntimeProofs` | `TypeCorrect`, `IdempotentIssue` (`OneTokenPerKey`), `DeadTokensStayOut` (`DeadTokenUnusable`), `AuditRooted` (`AuditTrailRooted`), `Refinement` (`LifecycleRefined`) |
| `GatewayProofs`, on `RateLimit` | `LimitTypeCorrect`, `BucketLimit` (`BucketConforms`), `WindowLimit` (`WindowConforms`), `FixedLimit` (`FixedConforms`) |
| `GatewayProofs`, on `GatewayAuth` | `AuthTypeCorrect`, `DeadStaysOut` (`DeadAdmittedOnlyByOverlap`) |
| `GatewayProofs`, on `ProviderRouting` | `RouteTypeCorrect`, `SevenTrip` (`SevenInARowTrip`), `SevenNeeded` (`DroppedAfterSevenFailures`) |
| `SettlementProofs` | `TypeCorrect`, `AuditTruth` (`AuditTellsTruth`), `OnlyRacesDouble` (`DoubleWithdrawOnlyByRace`), `NeverBoth` (`PaidOrCancelled`, an action property) |
| `OutboxProofs` | `TypeCorrect`, `ClaimIsLock` (`SingleOwner`), `NoRepublish` (`ConfirmedOnce`), `NothingLost` (`NeverLost`) |
| `IdempotencyProofs` | `TypeCorrect`, `EffectOnce` (`RecordedEffectOnce`), `FreeKeyTurnsNobodyAway` (`FreeKeyIsHandled`, where the table has the unique key) |
| `BatchBufferProofs` | `TypeCorrect`, `ExactlyOnce` (`HandedOverOnce`), `CloseIsComplete` (`CloseLeavesNothing`), `BufferBounded` (`BufferBelowBatch`) |
| `TokenStatusProofs` | `TypeCorrect`, `SweptTokensStayOut` (`SweptStaysRefused`), `ProductionFailsClosed` (`ProdFailsClosed`, an action property) |
| `PartitionsProofs` | `TypeCorrect`, `MonthsCovered` (`CoveredAhead`), `RetentionObserved` (`RetentionKept`, an action property) |

The arguments:

**Token runtime.** `IInv == TypeOK /\ RequestInv /\ KeyInv /\ DeadInv /\ AuditInv`, for any tokens, keys, requests, TTLs and clock bound.

* `RequestInv` says what a request holds at each point of its handler (an issue between its two parts has no token and no answer);
* `KeyInv` strengthens `OneTokenPerKey`: a key points to a token that exists, and an answered issue still agrees with the map. Without it a
  second issue could bind a token that another key has;
* `DeadInv` strengthens `DeadTokenUnusable`: the token of a request that arrived dead is still dead. It rests on the store's lemma that no
  operation and no tick revives a token (`DeadIsStable`), and this is also the heart of the refinement;
* `AuditInv` strengthens `AuditTrailRooted`: an answered issue has its event, and every token a client can name comes from
  an answered issue.

**Rate limits.** `Shape` is common to the three limiters: a request holds an entry from its first critical section on, so there is always an entry number left for
one that holds none, and nothing is dated later than now. The rest is one accounting argument per limiter:

* `BucketBudget`: what was admitted since any moment *s* and what is left in the bucket is at most a full bucket and what it earned from *s* to its last refill; a
  bucket that is not in the map counts as full, now. A refill adds no more than the time since the last one earned, cleanup deletes only a full
  bucket, and an admission moves `Cost` from one side of the sum to the other. The bound at a past moment follows because admissions are dated now.
* `WindowRemembers`: the window in the map still holds every request admitted less than its size ago. The requests so admitted inject into the ones it counts, so there is
  one below `maxRequests` when it admits another.
* `FixedBudget`: at most one bucket is ever made, and what it gave out and what is left add up to no more than what it was filled with.

In the first two the exception of the properties is needed in the step `Decide`: on an entry that is not the one in the map the sum is charged to a bucket nobody else sees.

**Router.** `RateAtLeast(k, rate)` and `RateAtMost(k, rate)` are the closed form of the recurrence, `1 - 0.9^k` of `Unit` with the worst rounding of `k` steps, multiplied out to
integers. `StreakShows`: a provider in the rotation has fewer than seven failures in a row, and a rate that is at least theirs; the seventh step goes above 1/2.
`FailuresCover`: unless seven calls have failed, the rate is at most that of *k* failures where *k* and the failures still to be reported (`Unreported`) are no
more than the failed calls, a success having lowered the rate or left it; so the six failures that there can be do not trip it.

**Gateway authentication.** `Overlap` says what holds of a request whose token was dead on arrival: the token is still dead (`DeadIsStable` again, proved for this
module's store), so the runtime adds no "active" answer to the ones that were under way; and once the request has stored its own answer, only one of those can
replace it before `Resolve`. If none was under way, the record that `Resolve` reads is not active.

**Settlement.** `RequestOK` carries the optimistic lock: what a `Cancel` or the payer read is still true of the row as long as the version is the one it read, so
`Update` never moves a settlement from paid to failed or back. `missed[r]` are the withdrawals of its supplier that the `SELECT ... FOR UPDATE SKIP LOCKED` of *r* does not
see: past their own `SELECT` and uncommitted, or in a row that somebody has locked. `Races` is `DoubleWithdrawOnlyByRace` from the moment both transactions have run their
`SELECT` (`Live`), when the second open row does not exist yet: of two live withdrawals, the later `SELECT` either found the other's row and rolls back, or has the other in
`missed`. `OwnRows` keeps two withdrawals from sharing a row.

**Outbox.** `Stages` ties the call a runner makes next to the event in its hand (it completes only what was confirmed, and fails or dead-letters only what
was not), `Rows` the columns of the tables to one another. `SingleOwner` needs `Stages`; `ConfirmedOnce` needs `SingleOwner`, since a second holder of a confirmed
event could still give it back; `NeverLost` needs `Rows`, since a row disappears only with its dead letter or when it is completed. Crashes and calls that fail after they took
effect are steps like the others.

**Idempotency.** For both tables. `Overlaps` turns the interleaving into a sequence: a request that is not in `raced` is alone past `GetByKey`, and no `INSERT` of an earlier one is
still under way. `Locks` is what the sequence keeps within a request: the row it got, by its `INSERT` or by `Recheck`, is the row it will update and lives as long as its lease, or
the lease is over; a key it found free stays free until it takes it. `Recorded` is what it keeps between two requests: an effect whose outcome was written is on record as
a success until its lease ends, and a visible success stops every lookup (`Verdicts`). `FreeKeyIsHandled` is in the invariant under `UniqueKey`, the one place where the
key is needed: with it the `INSERT` of a request that found the key free returns a row.

**Batch buffer.** `Places`: an event is in the channel, in the hand of `run`, or in the buffer, once, and in one of them only. `Once` is `HandedOverOnce` in terms of the
places, and needs `Places`, for an event in two places would be handed over twice. `Stages` says where `run` is and what has happened by then;
`CloseLeavesNothing` is `Once` after the last flush, when the channel and the buffer are empty and `closed` keeps `Add` out. The lemmas on sequences (`InConcat`, `InAppend`,
`InHeadTail`) say what the channel operations do to the set of events.

**Token status.** The invariant is `TypeOK /\ SweptStaysRefused /\ Backends`, for any tokens, requests, revocations and key life. `SweptStaysRefused` is inductive with the
types alone: a request that reads the row of a swept token reads "revoked", and one that read it earlier, or whose `SET` is late, would have kept the token out of `swept`. `Backends` says
that a process that is not up has no requests, that a production server has its database, and that a request that asks Redis or the database has both; it is what
excludes the admission without a status query.

**Partitions.** For any replicas, any months and any set of days that has one of the first 28. `OldIsElapsed` is the arithmetic: where `AddDate` carries the cutoff over,
today's day is greater than the length of the month it skipped, so that month's last day is behind the retention too. `RunInv` says what a run under way has
covered so far, and `CoveredStable` that nothing uncovers it: another replica only drops what is elapsed, and time does not go back.

### Assumptions

The proofs use the named assumptions of the modules, which TLC evaluates in every run: markers (`NoToken`, `NoId`, `NoEvent`, `Nobody`, `Blank`) are not
among the values they mark the absence of; lifetimes, sizes and clock bounds are naturals, and the ones the configuration must not set to zero are positive;
months are naturals in order and days are days; `UniqueKey` is a Boolean, and only `FreeKeyTurnsNobodyAway` assumes that it is true. `BatchBufferAssumption` also says that the callers of `Close`, those of `FlushNow` and `run` are different goroutines: `pc` is indexed
by the goroutine, and a goroutine that makes both calls makes them one after the other, as two members of these sets. No assumption bounds the number of
requests, tokens, events, runners or replicas.

`RateLimit` and `ProviderRouting` assume that the requests are finitely many, because their invariants count them. `ProviderRouting` also assumes that the latencies have a greatest one (the adapter's
client has a timeout), that the history counters reach the seven of the properties, and `Unit >= 220`: with a coarser rounding the seven steps could lose what separates
the seventh from 1/2. `Unit` is the precision of the model and not of the code, whose float64 is finer.

### Only model-checked

* Every liveness property (`WaitingIsFetched`, `EventuallyHanded`, `CloseReturns`, `DeadProviderLeftAlone`, `RevocationTakesEffect`): reasoning about fairness and
  `ENABLED` is out of the prover's reach.
* The three violations.

## 5. Not modelled

* Payload contents, formatting, logging and metrics; the SMS provider clients, alert senders, KMS and configuration (I/O); compliance rules
  and the sanitizer (regular expressions); the content of streams; the gateway's in-memory runtime (the development twin of the token runtime).
* Code the program does not construct: the gateway's routing engine with its strategies, fallback tiers and scoring; IAM; the SMS verifier;
  `AuditService`; the brute-force protection (never set) and the `TokenCache` of the middleware (never filled).
* Accounts and packages. With a database each change of an account is refused by its own version check (the service raises the version, the
  repository expects to find the raised one) and the `INSERT` of a package lists 29 columns and 28 values; without one, account creation
  answers 503 and packages are pointers shared without a lock. A model of their life cycles would be a model of what the code is meant to do.
* Compensation: nothing records a compensation. Its worker has the structure of the outbox's.
* Alerts: `UpdateAlert` reads a row and writes all of it back, and may overwrite a `Resolve` that came in between. The model is small but is left
  to a later extension.
* The vendored gateways under `llm-gateway-competitors/` (third-party Python and Go, kept for comparison) are not part of the program, although they
  are most of the lines and all but one file of the Python in the repository; the exception is the mock server of the test scripts, which sets a status without
  a guard. The program itself is Go, and the definitions of the models are mapped to that.

## 6. Plan

Done: the modules and the proofs above. A new component shares a run with the component it interacts with (or chooses its configuration in `Init`, as
`RateLimit` and `Partitions` do), so that the number of runs stays small. In this order:

1. Refinement of more abstract specifications (the outbox as a set of events that are waiting, published or dead; the limiters as one counter per interval).
2. `Alerts`: the whole-row update against a concurrent resolution.
3. `Account` and `Package`, once their database path works.
4. Composition of `Idempotency` with `Settlement`, to show which of the two races reach the supplier.
