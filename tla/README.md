# Verification of cg-shared-libs

TLA+ models of the stateful parts of the shared Go libraries: the TLC runs that
check them on small instances, and TLAPS proofs of the main invariants for every
instance. `PROJECT.json` is the index: components, runs, the source lines behind
every definition, hazards, theorems.

## 1. The system

The repository is a set of libraries linked into the services of a platform.
State, concurrency and failure handling are concentrated in these packages.

| part | state | operations | talks to | hard behaviour |
|---|---|---|---|---|
| `kafka` consumer | reader position, retry counters, retained-offsets gauge | `Consume`, `ConsumeEvent`, `handleWithRetry`, dead-letter loop, commit, `Close` | broker, producer | crash or rebalance between handling and commit, endless retries, shutdown |
| `kafka` producer, `pushpublisher` | bound writer, map of writers | `Publish*`, `writerFor`, `Close` | broker | creation racing `Close`, topic suffixes, order per key |
| `kafka` MultiConsumer | goroutines, error channel | `ConsumeAll`, `Close` | consumers | leaked goroutines |
| `circuitbreaker` | state, counters, last failure | `Execute`, `Reset` | protected call | late results, panics, racing probes |
| `grpc` client | breaker registry, retry loop | interceptors, `ResetCircuitBreaker` | breaker, transport | resend of a request that was executed, deadlines, overflow of the wait |
| `grpc` server | life cycle, calls in flight | `Start`, `Stop`, interceptors | client of the next service | panics, deadlines over hops, draining |
| `jwt` key cache | key set, fetch and attempt times, two mutexes | `publicKey`, `refreshNow`, `loop`, `Close` | token issuer | overtaking refreshes, outage, key rotation |
| `jwt` tokens, `adminrbac`, `orgauth`, `ws` | keys and algorithms, claims in tokens | login, `Refresh`, validation, interceptors | key cache | stale claims, staged change of algorithm |
| `jwt` service tokens | cached token, mutex | `Token` | issuer | concurrent minting, expiry on the way |
| `ratelimit` + `middleware/ratelimit` | sorted set in Redis, batch sequence | `AllowN`, `GetCount`, `Reset`, middleware | Redis | concurrent transactions, lost rollback, foreign key type, shared budgets |
| `postgres` migrations | version row, dirty flag, schema, advisory lock | `RunMigrations` | golang-migrate | crash inside the repair, concurrent starts |
| `postgres` replicas | health, lag, counter | `Reader`, `healthChecker`, `ReadAfterWrite`, `WithTx` | PostgreSQL | stale measurements |
| `redis` lock | key with owner and expiry | `Lock`, `Unlock` | Redis | lost replies, late commands, expiry while held |
| `health` | checkers, results of a probe | `RegisterChecker`, `Check`, handlers | dependencies | registration against probes |
| `middleware` csrf | one token per session | middleware | Redis, browser | responses out of order |
| `middleware` hmac, allowlist | none beyond the request | middleware | | body at the limit |
| `config` | the struct being filled | `Load` | file, environment | precedence, widths |
| `i18n` | message tables | `LoadDefaults`, `LoadFromFS`, `T`, `ParseAcceptLanguage` | files | translation during loading |

## 2. Modules

| module | models | state and actions |
|---|---|---|
| `ConsumerGroupLog` | what a consumer group promises: a committed offset covers settled messages only | `Settle`, `Commit` |
| `KafkaConsumer` | `kafka/kafka.go`, `kafka/retry.go` | per member the place in `Consume`/`handleWithRetry`, the message at hand, retry counters, gauge; one action per outcome of handler, dead-letter write, backoff and commit; crash, restart, rebalance, cancel, close |
| `Producer` | producer of `kafka/kafka.go`, `pushpublisher` | writers numbered as they are made, the map, the steps of `Close` under `extraMu`; publishers between lookup and write |
| `MultiConsumer` | `MultiConsumer` of `kafka/kafka.go` | goroutines, results in `errCh`, open readers |
| `CircuitBreaker` | `circuitbreaker.go` | fields of the breaker; `beforeRequest`, `afterRequest`, `Reset` are atomic (they hold `cb.mu`), the protected call runs between them |
| `GrpcClient` | breaker registry and interceptors of `grpc/client.go`, composed with `CircuitBreaker` (INSTANCE) | callers in the breaker and retry interceptors; answers, timers, contexts |
| `RetryDelay` | `boundedRetryDelay` of `grpc/client.go` | the loop, in integers of bounded width |
| `CallChain` | `grpc/server.go` with the logging interceptor and total timeout of `grpc/client.go` | a chain of services, calls as records (ids, deadlines, answers), servers that start and stop |
| `JWKSCache` | `jwt/jwks.go` | key set with ages instead of instants, `refreshMu`, the loop and verifying goroutines |
| `Sessions` | `jwt` issue and validation, `jwt_adapter`, `adminrbac`, `orgauth`, `ws/auth` | token pairs with their claims and age, services with their verification mode, the directory of roles and memberships |
| `ServiceToken` | `jwt/serviceprovider.go` | remaining life of the cached token, the mutex, goroutines |
| `RateLimiter` | `ratelimit.go` behind `middleware/ratelimit.go` | one Redis key with type, members and expiry; a request reads the clock of its process, runs its transaction, rolls back, or recovers |
| `RateLimitKeys` | keys and tiers of `middleware/ratelimit.go`, `MultiLimiter` | budgets by tier and key |
| `Migrations` | `postgres/migrate.go` | version row, schema as the set of applied scripts, advisory lock; instances in `RunMigrations` |
| `ReplicaPool` | `postgres/replica_pool.go`, `WithTx` | the primary's log as ages of commits, what replicas received and replayed; the health loop that measures the lag and then stores it, one session |
| `RedisLock` | `Lock`, `Unlock` of `redis/redis.go` | the key, commands and replies under way, commands that nobody waits for any more, leases |
| `Health` | `health/health.go`, `checkers.go` | checkers in order of registration, probes, the read-write lock |
| `CSRF` | `middleware/csrf.go` | stored token, cookie jar, tabs with a request under way, which may be exempt |
| `Webhook` | `middleware/hmac.go`, `ip_allowlist.go` | one request between the guards |
| `Config` | `config/config.go` | the fields of a struct filled one by one |
| `Translator` | `i18n/i18n.go` | message tables, the steps of loading, the answer of `T` |

Eight modules hold the theorems: `KafkaConsumerProofs`, `CallChainProofs`,
`GrpcClientProofs` (with `RetryDelay`), `RateLimiterProofs` (with
`RateLimitKeys`), `ResourceProofs` (`CircuitBreaker`, `RedisLock`, `ReplicaPool`),
`CacheProofs` (`JWKSCache`, `Producer`), `RequestProofs` (`ServiceToken`,
`Webhook`, `CSRF`, `Sessions`) and `ServiceProofs` (`Migrations`, `Config`,
`Translator`, `Health`).

The `MC*` modules add constant definitions and, in runs without liveness, symmetry
of the interchangeable callers of the breaker and of the rate limiter. Four of them,
`MCClient`, `MCService`, `MCResources` and `MCRequests`, check several components in
one run: the initial state chooses the component that takes the steps (`part`), the others rest.
These components share no variable of the code, so every behaviour of each is
covered and the state spaces add up instead of multiplying. Components that do
interact are composed for real: the client with the breaker (`GrpcClient`), the
consumer with the dead-letter producer (`KafkaConsumer`), client and server over
several hops (`CallChain`), issuer, verifiers and interceptors (`Sessions`),
replicas with the write of a session (`ReplicaPool`).

Conventions. A definition commented "Mutant" is a plausible bug of the definition
that follows it; every property is shown to fail when its mutant replaces that
definition. Variables marked *history* record the past for properties; no guard
reads them, except the counters that bound the faults of a behaviour.

What the models abstract: payloads (a message is its partition and offset, a body
its length, a signature what it was made for and with), durations (ages and
remaining times in ticks, up to the largest value that some comparison tells
apart), logs and counters, except the retained-offsets gauge and the request id,
which have to match between places.

Brokers, Redis, PostgreSQL, golang-migrate, issuers, browsers, transports and
clocks are modelled from how the code uses them, with the failures it handles.
Library behaviours that matter: a Redis transaction on a key of the wrong type
fails but its EXPIRE is still executed; go-redis resends a command or a
transaction whose reply was lost, and one that it gave up may still be executed
later; golang-migrate records a version as dirty before a script and clean after
it, and reads it without the lock; `Version` reports the nil version as an error
and hides its dirty flag; a waiting writer keeps new readers out of a
`sync.RWMutex`; a kafka-go writer that reports an error may have written.

## 3. Runs

| run | instance | properties | result |
|---|---|---|---|
| `kafka` | 2 members, 1 partition, 2 messages, the first malformed, 2 faults | `CommittedAreSettled` `NoOvertaking` `ImplementsLog` `ShutdownReturns` `EveryMessageSettled` | hold |
| `kafka_raw_dlq` | 1 member, a value that is not JSON, no redactor | `ExhaustedReachDLQ` | violated |
| `breaker_doc_limit` | 3 callers | `DocumentedProbeLimit` | violated |
| `client` | 2 callers, a retryable and a non-retryable method | `SafeResend` `SharedBreaker` `OpenedByFailures` `UsesBreaker` `BoundedCallsReturn` | hold |
| | retry wait: every base and maximum of 4 bits, 5 attempts | `DelayBounded` | hold |
| | call chain: 2 services, 2 calls | `DeadlineInherited` `StopReturns` | hold |
| `request_ids` | call chain alone | `OneRequestID` | violated |
| `service` | migrations: 2 instances, 3 migrations, 2 errors, 1 crash | `CleanMeansApplied` `StartupSucceeds` | hold |
| | key cache: 2 keys, fetches that take a tick; 2 verifiers, or 1 and a rotation and `Close` | `RotationReachesCache` `LookupReturns` `WithdrawnKeysExpire` `OnDemandThrottled` | hold |
| | configuration: a list, three numbers, one of them narrow, and a kind that is not set | `EnvironmentWins` | hold |
| | translator: 3 files, one unreadable, headers of up to 3 tags | `NeverRawKey` | hold |
| `config_defaults` | configuration alone | `FileHolds` | violated |
| `migrate_skips` | 1 instance, 3 migrations, 2 crashes | `SuccessMeansMigrated` | violated |
| `resources` | breaker: 3 callers, thresholds 2, two panics | `NotWedged` `RecoveryCloses` | hold |
| | MultiConsumer: 3 consumers | `GoroutinesEnd` | hold |
| | health: 3 requests, 2 at a time, 3 checkers, two of one name | `AnswersTellChecks` `NobodyWaitsForever` | hold |
| | CSRF: 2 tabs, one of them writing | `AcceptedIsCurrent` `WriteSucceeds` | hold |
| `health_namesakes` | health alone | `ReadyMeansPassed` | violated |
| `requests` | sessions: a user, a service, 2 verifiers, 2 pairs | `RoleBounded` `OrgDecisionKept` `NoLockout` | hold |
| | service token: 3 goroutines | `TokenOutlivesCall` | hold |
| | webhook guards: bodies up to two bytes above the limit | `HandlerReadsSigned` | hold |
| | rate limit keys: 2 addresses, a user and none, both stacks | `NotCrowdedOut` | hold |
| | rate limiter: 2 calls of 1 or 2, limit 2, window 3, delay 1 | `WindowBound` `RefusedLeaveNoTrace` | hold |
| | replicas: 2, one write, one outage | `ReadYourWrites` | hold |
| | lock: 3 callers, 2 losses, late commands or crashes | `LeaseExclusive` | hold |
| | producer: 2 publishers, 2 topics with suffix and dead-letter names | `CloseClosesWriters` `DeliveredAsMeant` | hold |
| `rate_limit_recovery` | rate limiter alone | `DeletedKeyHadWrongType` | violated |

Not every proved invariant is also a property of a run: the types, the gauge, the
routing of malformed events, the limits of the breaker, the uniqueness of writers
and mints, the request ids and the draining of a stopped server are left to the
proofs (section 4), which cover every instance.

**Bounds.** Two actors are enough for every race found in the code, which is
always between two parties (late commit against new owner, two first calls, two
refreshers, transaction against rollback, starting against migrating instance,
`writerFor` against `Close`); the breaker, the lock and the service token have
three, so that a late result meets two others. Two messages give a predecessor
and a successor. Faults are bounded by a counter because each may happen at any
place: one or two already combine with every other step. Limits of 1 or 2 reach
the limit and go past it. The rate limiter's window is longer than two delays, so
that stale readings of the clock on both ends of a window occur. The chain of two
services has one hop at which ids and deadlines are handed on; longer chains
repeat it, and the theorems cover them. Four bits for the retry wait put
overflow within reach of the fourth doubling. The key cache runs in two modes, each
with fetches that take up to a tick: two verifiers race each other and the loop for
`refreshMu` while the published key stays, or one verifier and the loop go through
a rotation and `Close`. `CheckEvery` 1 lets a write, its replay and a read come
between two checks of a replica. One organization is enough for `orgauth`, which
compares the one asked for with those of the token; the theorem has any number.
Configurations that no run covers are covered by the theorems where there are any.

**Fairness.** It is assumed only of goroutines that can run (the members of the
consumer, callers and timers of client and breaker, loop and lookups of the cache,
handlers, probes), of mutexes (Go's do not starve a waiter: strong fairness for
`refreshMu`), of clocks (`ChainTick`, the breaker's timeout),
and of what the environment must do for the claim to make sense
(`RecoveryFairness`: broker and handler eventually work; an issuer that answers
often enough; an orchestrator that restarts failed instances and an advisory lock
that is not withheld for ever from one waiter; a user who reloads and retries), and
never of faults. `ShutdownReturns`, `BoundedCallsReturn` and `StopReturns` need no
recovery of anything: a service that never accepts a call is a behaviour of
`ChainFair`. `NobodyWaitsForever` assumes that checkers return; `CustomChecker` has no
timeout of its own. `CHECK_DEADLOCK FALSE` is set where the bounded behaviour
ends: a clock that stops, instances that have all started, a request that was
answered.

**Conditions in the properties.** A property is stated under a condition where the
code gives no more:
- `NotWedged` and `RecoveryCloses` hold while at most one call has panicked.
  `Execute` does not give back the slot of a panicked call; when two probes of one
  half-open period panic, the breaker rejects until `Reset`.
- `AnswersTellChecks` asks nothing of a check whose name a later checker has: the
  map keeps the later result. `ReadyMeansPassed` states readiness without that
  condition and is violated.
- `AcceptedIsCurrent` is about requests that are not exempt. The middleware passes
  on the others unseen: when it is disabled, for excluded and mobile paths, Bearer
  tokens and WebSocket upgrades.
- `TokenOutlivesCall`: the call is checked within the refresh buffer, less
  `Truncated`, the part of a second that `NumericDate` cuts off the expiry.
- `LeaseExclusive`: a value is not used for `Lock` again after an `Unlock` with it,
  because an `Unlock` that arrives late would delete the key of the second lease.
- `WindowBound` is about windows shortened by `MaxDelay`: the clocks of processes
  differ, and a transaction is executed some time after its clock was read.
- `ReadYourWrites` asks for fallback to the primary and a replica whose last check
  is recent, did measure the lag, and found it streaming. The code sets an unknown
  lag to the largest accepted one, and a replica that receives nothing reports no
  lag; the comment on `ReadAfterWrite` ("guarantees consistency after write") does
  not say so.
- `CleanMeansApplied` excludes repairs that were cut short or overlapped
  (`disturbed`), and `StartupSucceeds` a dirty nil version, which no later start
  repairs.
- `CloseClosesWriters` is about writers made before `Close` took `extraMu`; a later
  publish makes a new one.
- `DeliveredAsMeant`: no base name contains the text of the suffix.
- `EnvironmentWins` excludes numbers too wide for their field, which are cut.
- `HandlerReadsSigned` is about the body. The address that the allowlist compares
  may be the claim of a header.
- The consumer starts a new group at the earliest offset, the default.

**What the violated runs show.**
- `kafka_raw_dlq`: `dlqValue` embeds the raw value as `json.RawMessage`. A value
  that is not JSON makes `json.Marshal` fail on every attempt; without a
  redactor the message is retried for ever and blocks its partition, although
  `DLQEnabled` "publishes exhausted messages to a dead-letter topic".
- `breaker_doc_limit`: the call that moves the breaker to half-open is not
  counted, so one call more than the documented maximum runs half-open.
- `rate_limit_recovery`: `AllowN` deletes the key after WRONGTYPE or EXECABORT
  without looking at it again. Two calls that meet a foreign value delete it one
  after the other, and the second deletes the sorted set of the first; EXECABORT
  is also the answer for a well-typed key when ZADD is refused for memory. The
  requests granted so far are forgotten.
- `migrate_skips`: an instance crashes inside the script of the last migration,
  is restarted, finds the version dirty, and crashes again between `Force` and
  `Steps(-1)`. The version is now clean and the migration not applied; the third
  start skips it and succeeds.
- `request_ids`: an id that `loggingInterceptor` generates goes into the logger
  only; the client of the same handler looks for it in the metadata, finds none
  and generates another. Ids that came with the request are kept (theorem
  `RequestIDsKept`).
- `config_defaults`: `processStruct` applies the `env-default` of a field whenever
  the variable is empty, over the value read from the file.
- `health_namesakes`: two checkers were given one name. The check of the first
  fails, the second passes and replaces its result in the map that
  `ReadinessHandler` reads, and the probe is answered 200 although "we need all
  checks to pass". The overall status, which `Handler` reports, is "degraded".

## 4. Proofs

Every safety invariant, action property and refinement that a passing run checks
is also a theorem, for every value of the constants that the named assumption of
its module allows (`ConsumerAssumption`, `BreakerAssumption`, and so on). The
argument is the same throughout: an inductive invariant, stated at the end of the
component's module (TLC can check it as an invariant of the run) or in its proof
module; one lemma or step per action; the property as a consequence. After the
table: what each invariant adds to the property and why it is needed.

| theorem | states | module |
|---|---|---|
| `AtLeastOnce` `InOrder` `Refinement` | `CommittedAreSettled` `NoOvertaking` `ImplementsLog` | `KafkaConsumerProofs` |
| `TypeCorrect` `GaugePaired` `MalformedRouted` | types, gauge, malformed events | |
| `ResendsSafe` `BreakerShared` `OpeningEarned` `BreakerRefinement` | `SafeResend` `SharedBreaker` `OpenedByFailures` `UsesBreaker` | `GrpcClientProofs` |
| `DelaysBounded` | `DelayBounded` | |
| `LimitHolds` `RefusedTraceless` `NobodyCrowdedOut` | `WindowBound` `RefusedLeaveNoTrace` `NotCrowdedOut` | `RateLimiterProofs` |
| `WithdrawnKeysRejected` `OnDemandThrottles` `JWKSTypeCorrect` | `WithdrawnKeysExpire` `OnDemandThrottled`, the mutex | `CacheProofs` |
| `WritersClosed` `DeliveriesMeant` `WritersUnique` | `CloseClosesWriters` `DeliveredAsMeant`, one writer per topic | |
| `NeverWedged` `BreakerTypeCorrect` `ClosedExactly` `ProbesBounded` | `NotWedged`, types and limits | `ResourceProofs` |
| `LeasesExclude` `LockTypeCorrect` | `LeaseExclusive`, expiry | |
| `WritesRead` | `ReadYourWrites` | |
| `TokenSurvivesCall` `OneMint` `TokenTypeCorrect` | `TokenOutlivesCall`, shared mints, the mutex | `RequestProofs` |
| `RolesBounded` `OrgDecisionsKept` `NobodyLockedOut` | `RoleBounded` `OrgDecisionKept` `NoLockout` | |
| `HandlerGuarded` `AcceptedCurrent` | `HandlerReadsSigned` `AcceptedIsCurrent` | |
| `RepairSound` `MigrationsTypeCorrect` | `CleanMeansApplied`, lock and dirty flag | `ServiceProofs` |
| `EnvironmentHolds` `BuiltInsTranslated` `AnswersTruthful` | `EnvironmentWins` `NeverRawKey` `AnswersTellChecks` | |
| `DeadlinesInherited` `ChainTypeCorrect` `RequestIDsKept` `StopsDrained` | `DeadlineInherited`, ids, draining | `CallChainProofs` |

- **Consumer.** `IInv`: a member about to commit holds a settled message
  (`CommitReady`); a reader has left no unsettled message behind except the one
  its member holds (`ReadIsSettled`), without which a rebalance followed by a
  late commit could not be excluded; retentions of the two retry functions are
  disjoint (`RetentionsPaired`); and what a settled message is, by configuration
  (`SettledHonestly`). `OffsetFrame` collects the actions that touch no offset.
- **Client.** `RunningInLoop`: the breaker's callers are the calls inside the
  retry loop, which is what makes each step of the client a step of
  `CircuitBreaker` or a stutter. `Registered`: a call that has a breaker has the
  registered one. `ResendsPaid` counts requests on the wire against retries.
  `FailuresCounted`: the failures on record are failed calls, and a breaker that
  is not closed has seen enough of them. `GrpcClient` has the breaker's variables
  under their own names, so the refinement mapping is the identity on them; the
  recovery and the panics of the protected service, which the client's model does
  not have, are mapped to constants.
- **Retry wait.** `DelayInv`: the ceiling is the base doubled once per round, or
  the maximum, where that is no more than the doubled base. That powers of two
  grow and double is the assumption `PowersOfTwo`, because the provers know
  nothing of exponentiation; TLC evaluates it, and it is true of every width.
- **Rate limiter.** `LimiterInv`. `GrantedCounted` is the heart: what was granted
  inside the window is still a member of the sorted set with a score at most
  `MaxDelay` before the grant, so no purge with a stale clock, no expiry and no
  rollback makes room early; then a transaction that finds room has counted
  everything. It needs `BatchesApart` (the member sequence keeps batches apart, so
  a rollback removes its own members only) and `FreshReadings`. The assumption
  `MaxDelay < Window` is the one under which the bound says anything.
- **Rate limit keys.** `LimitKeysInv`: a budget is the number of requests charged
  to it; requests with one key are of one user, or of one address.
- **Breaker.** `ProbesAccounted` counts the probes of a half-open period: admitted
  ones are counted, out, or lost.
- **Lock.** `LeaseBacked`: a lease ends no later than the key that holds its
  owner's value. `UnlocksLast`: whoever has an `Unlock` under way, waited for or
  not, has no lease and will get none; without it a late script could take the key
  from under a lease.
- **Replicas.** `ReplicaInv`. `LogOrdered`: commits age in order. `MarkedLate`:
  `MarkWrite` comes after the commit, so the session's window starts no earlier.
  `MissedRecent`: a write that a replica misses was made at most the accepted lag
  before the last sound measurement that found the replica within it, be it stored
  already or not. The conclusion
  needs `ConsistencyWindow > MaxReplicaLag + CheckEvery`, part of
  `ReplicaAssumption`: a shorter window may end while such a replica still misses
  the write. `Reader` is the set of pools that the code may return, which for one
  value of the counter has one element; that follows from its definition and is
  not a theorem, since it takes induction over the pools.
- **Key cache.** `AnswersRecent` relates the time a key has been gone to the
  age of the answer it came in, for the cache and for every fetch under way, so
  that the order in which answers are stored does not matter; `DemandsApart` says
  that an on-demand refresh is an attempt and that whoever is about to make one has
  found the last attempt old enough, under `refreshMu`.
- **Producer.** `WritersMapped`: an open writer is the bound one, until `Close`, or
  in the map, and while `Close` runs through the map the open ones are those it has
  still to reach. `DeliveryInv` adds that a publisher holding a writer holds one for
  the topic that was meant (`RequestMade`) and that a message in the log is older
  than the one its publisher is at work on (`MessageKept`). `QualifyTwice`: the
  second `qualifyTopic`, in `writerFor`, changes nothing. Names of topics are
  sequences of parts; `ProducerAssumption` says that the environment's suffix is
  no base name.
- **Service token.** `Carried` adds life and age of a token to its TTL or to more
  than the buffer; `MintNeeded` says that a mint is in flight only while the cached
  token is within the buffer; `ClaimClose` that the expiry in the token is at most
  the cut-off part of a second before the cached one. `ServiceTokenAssumption` asks
  for a TTL above the buffer and the mint's delay, and a buffer above that part.
- **Sessions.** `RolesRecent`: a role in a token was held when the token was made
  or later, also after a refresh. `ClaimsKept`: the organization claims of a pair
  decode to those of its login. `MigrationPhase`: a service refuses HS256 only
  after the cutover and the last HS256 access token. The theorems then follow by
  going through the interceptors in every order a service may chain them.
- **Webhook, CSRF.** `HookInv`: the body is whole until the signature is checked.
  `CSRFInv`: the store holds the latest token or none, whatever `Set` reported.
- **Migrations.** `RepairInv` says, for each place of the repair and for a dirty
  state nobody works on, which of the two schemas (with and without the migration in
  question) the database may hold.
- **Configuration, translator.** `ConfigInv`: every field that `processStruct` has
  passed has what the environment says. `TranslatorInv`: once loaded, the default
  language has every built-in key, and no later load takes one away.
- **Health.** `ResultsKept`: a probe has run the checkers up to its turn, the map
  has the result of each that no later one of its name replaced, and the overall
  status tells whether one failed. Since a probe holds the read lock, the list does
  not grow under it.
- **Call chain**, of any depth. `Below` relates a call to the one whose handler made
  it; it survives the parent's progress because a handler waits for its last call
  only, and all earlier ones are answered (`Awaits`).

Only model-checked:
- liveness under fairness, which is out of the prover's reach: `ShutdownReturns`,
  `EveryMessageSettled`, `BoundedCallsReturn`, `RecoveryCloses`, `StartupSucceeds`,
  `RotationReachesCache`, `LookupReturns`, `StopReturns`, `GoroutinesEnd`,
  `NobodyWaitsForever`, `WriteSucceeds`. `MultiConsumer` has no other property;
- the violated properties: a counterexample is their result.

## 5. Not modelled

- `logger`, `tracing`, `metrics`, `audit`: output. What has to agree between
  services, the request id, is in `CallChain`; the lazily created global loggers
  are a benign race (two equal loggers).
- `crypto`, `validation`, `security`: functions of one value without state, made of
  string parsing or library calls; their unit tests reach what a model would.
- `grpc/tls.go`, dialling, pool construction, pgx and go-redis options: I/O and
  settings. The other methods of `redis.Client` forward one command each.
- `ws` upgrader, `i18n` context helpers, `kafka/topics.go`, `config/service.go`,
  `config/http.go`: constants and plain accessors.
- The net/http variant of the CSRF middleware: the same decision on the same
  store; the gin variant is modelled. Streams of the gRPC server: no service of
  the repository defines one.
- `StartOffset` "latest" of a consumer: what was published before the first commit
  of a new group may be skipped on purpose. An `x-request-id` that a handler puts
  into its outgoing metadata itself: it then has chosen the id of its calls.
- Several keys of the rate limiter, several partitions in one run, more than one
  session of a replica pool: they share no state with each other.
- Hazards that no property covers are listed in `PROJECT.json` with the reason.
