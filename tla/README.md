# AegisPulse: TLA+ models, checks and proofs

AegisPulse is an API gateway written in Go: it authenticates requests by API
key, limits and bills them with two thresholds, forwards them through a
circuit breaker with a fallback cache, tells webhooks about events, and is
operated from terminal cockpits and an admin API. This directory models the
parts of it that keep state, checks them with TLC on small instances and proves
their central properties with TLAPS for every value of the constants.

All paths below are relative to `src/`. `PROJECT.json` maps every definition to
the lines it models.

## 1. The system

| Component | State | Operations | Talks to |
|---|---|---|---|
| Circuit breaker (`internal/cache/cache.go`) | state, failure and success counts, time of the last change, probe flag, cutoff flag | AllowRequest, RecordSuccess, RecordFailure, SetEmergencyCutoff, GetState | called by every request; cutoff set by admins |
| Smart cache (`internal/cache/cache.go`) | map of responses with expiry; ticker; stop channel | Set, Get, EvictExpired by a sweeper goroutine, Close | written after 2xx and 3xx answers, read on fallback |
| Request pipeline (`internal/proxy/proxy.go`) | per request: where its handler is | authenticate, verify a signature, limit, bill, delay, forward, report, cache, fall back | everything |
| In-memory limiter (`internal/ratelimit/limiter.go`) | timestamps and overages per key, freeze flag | Check, SetGlobalBurstFreeze | used alone or as fallback of the Redis limiter |
| Redis limiter (`limiter.go`, `lua.go`) | sorted set per key in Redis, freeze flag | Check (one script call), SetGlobalBurstFreeze | Redis; falls back on error |
| Burst billing (`proxy.go`, `limiter.go`, `storage/postgres.go`) | overage per key and month, billing rows, revenue gauge | count, read, publish, write | Redis, PostgreSQL, metrics |
| Key store (`storage/postgres.go`, `redis.go`) | key map of each gateway, rows in PostgreSQL, frozen markers in Redis with a lifetime | GetAPIKey, FreezeAPIKey, restart | shared by all gateways |
| Webhook engine (`internal/webhook/engine.go`, `cmd/gateway/main.go`) | event channel, stream, workers, delivery goroutines, stop channel | Publish, worker, streamPoller, deliverWithRetry, Stop | handlers, Redis stream, sinks, dead letters |
| Dead-letter queue (`internal/webhook/dlq.go`) | map and Redis stream of failed deliveries, gauge | Enqueue, ReSignAndRetry, LoadFromRedis | engine, operators |
| Configuration (`config/config.go`) | active configuration, time of the last reload, the watch on the file | load with the values of the environment, Watch | file system, every reader |
| Signatures (`internal/crypto/hmac.go`) | none | VerifySignature against the replay window and the clock | step 5 of the pipeline |
| Metrics (`internal/metrics/metrics.go`) | labelled gauge of the breaker's state, gauges, counters, latency samples | reset and set, record, percentiles | every handler, scrapes, cockpits |
| Token bucket (`internal/ratelimit/token_bucket.go`) | bucket per key with its own lock, overages, freeze flag | Check, SetGlobalBurstFreeze | built by tests and benchmarks only |
| Cockpits (`cmd/tui/main.go`, `internal/tui/app.go`, `modals.go`) and panic controls (`proxy.go`) | modal, view; the gateway's switches | open, confirm, cancel, poll; set or toggle a switch | gateway over HTTP or directly |
| Envelope encryption, CORS, adapters, demo pages, mocks, chaos tools, migrations | see section 7 | | |

What is hard here, and where the properties are aimed:

* **Interleaving.** Handlers run concurrently and their calls to breaker,
  cache, limiter, Redis and PostgreSQL are atomic one by one, never together.
  Reports arrive for breaker states that have passed; a row read before a kill
  is stored after it; counts are read and written in different orders.
* **Failure.** A Redis script may run and its answer be lost, or be sent again
  by the client; a forward may end with a status nobody reports; POSTs time out
  and are handled later; the process may die between a letter's two places, or
  between the publication of a stream entry and its acknowledgement.
* **Time.** Cooldown, grace period, sliding windows, the lifetime of markers,
  the debounce of file events, the turn of the month, machine integers.
* **Stale values.** A handler reads the configuration four times while the file
  is rewritten; a bucket outlives the limits it was made with.
* **Shutdown.** Workers, poller and deliveries against a cancelled context and
  a stop channel that is closed twice.

`PROJECT.json` lists these hazards at their lines with the properties that
cover them, and says why where none does.

## 2. Modules

| Module | Models | Uses |
|---|---|---|
| `CircuitBreaker` | the breaker under its most general client | |
| `SmartCache` | map, ticker, sweeper, Close | |
| `ProxyForward` | steps 8 and 9 of `serveInternal`, any number of concurrent requests, and main's end of them | composes `CircuitBreaker` and `SmartCache` |
| `SlidingWindow` | what a limiter promises: a decision on the whole history of grants | |
| `InMemoryLimiter` | the sliding window log, pruned as it goes | implements `SlidingWindow` |
| `RedisLimiter` | the script, lost answers, resends, freeze and fallback | composes `InMemoryLimiter` |
| `TokenBucket` | buckets under two locks, limits that change | |
| `BurstBilling` | counting, billing and announcing of bursts, with and without Redis, over restarts | |
| `KeyStore` | one key over several gateways, the kill switch | |
| `DeadLetterQueue` | map, stream, retries, restarts | |
| `WebhookEngine` | engine, stream poller with its consumer group, crash, restart and shutdown of the gateway | extends `DeadLetterQueue` |
| `ConfigManager` | file, writers of four styles, watch, debounce, reload, environment | |
| `Signature` | the time checks of VerifySignature over words that wrap | |
| `Admission` | steps 1 to 5 and 7 of `serveInternal` and the director | composes `ConfigManager` and `Signature` |
| `Metrics` | breaker gauge, latency samples, percentiles | |
| `Cockpit` | cockpits, admin commands, polls | |

The `MC...` modules and their `.cfg` files, one per question, instantiate them;
the `...Proofs` modules hold the theorems. A proof module of a composition also
proves what its parts promise by themselves: `ProxyForwardProofs` covers
`CircuitBreaker` and `SmartCache`, and `Metrics`, which the same handlers report to;
`RedisLimiterProofs` covers `InMemoryLimiter`, `WebhookEngineProofs` covers
`DeadLetterQueue`.

How state corresponds to code:

* **A method under a mutex is one action**; a load or store outside it is a
  step of its own (`CutoffLoad` before AllowRequest's lock, GetAPIKey's read and
  its later store, the four reads of the status answer, Load and Store of a
  jitter toggle). A handler is a process whose `pc` is its next call.
* **Time** is kept as the difference the code computes (time since the last
  change, past expiry, since the last reload), counted up to the largest value
  a comparison can tell apart, so these counters need no bound of their own.
  Only the limiters (`MaxTime`) and the signature check (`MaxNow`) have an
  absolute clock; the proofs hold for every bound.
* **Numbers.** `Signature` computes with words of `2 * Half` values that wrap as
  int64 does. Token counts are integers in shares of `1/windowSec`, the unit in
  which a bucket refills, so no rounding is modelled.
* **Redis, PostgreSQL, upstream and sinks** are modelled by what the code asks
  of them. With `Faults` every call may fail, with or without its effect.
* **The sorted set** of the Lua script is a set of pairs of score and number: two
  requests of one instant are two members, as their request ids differ.
* **POSTs nobody waits for** are a set of numbered commands (`Cockpit`), so two
  equal ones that are both late are two. An answer that cannot be decoded shows
  the jitter as off (`Reply`).
* **A context may be cancelled while Redis answers**: the second step of Enqueue
  runs with its caller's context, so its XADD may fail although the script and the
  poller still reach Redis (`Enqueuing`).
* **Data** (responses, events, letters, keys, file contents) are model values.
* Variables marked *history* only record what happened, for the properties.
* Definitions marked *Slip* are single plausible mistakes. They are not part of
  any specification; each run's properties are tested against them.

## 3. Runs that pass

| Run | Instance | Shows |
|---|---|---|
| `proxy_forward` | 3 requests, 1 key, all outcomes; threshold 2, cooldown 2, TTL 1, grace 1, sweep interval 2 | Breaker: a CLOSED one is below its limit and a HALF-OPEN one carries no failure (`ClosedIsHealthy`); the probe slot is only taken in HALF-OPEN (`ProbeSlotOnlyHalfOpen`); one recovery lets at most two requests through (`RecoveryProbesBounded`); no stage of the cycle is skipped (`OrderlyTransitions`). Cache: nothing is dropped within its grace period (`KeptThroughGrace`), nothing is kept beyond grace + interval + lag (`StalenessBounded`). Together: a request that arrives under the cutoff and sees no gap in it never reaches upstream (`CutoffShields`), and a fallback finds the response as long as its grace lasts (`FallbackAvailable`). |
| `proxy_recovery` | 2 requests, forwards end in success or failure | The probe slot always belongs to a request under way (`ProbeSlotHasOwner`); with a healthy upstream and the cutoff off the breaker reaches CLOSED and stays there (`Recovers`); a shutdown ends the sweeper (`CloseEndsSweeper`). |
| `redis_limiter` | 2 requests, 2 calls that set or lift the freeze at the same time, limits 1 and 2, window 2, delay 1, time 2 | The in-memory limiter lets no more than its limit through per window (`WindowBound`) and implements `SlidingWindow` (`KeepsPromise`); the Redis limiter keeps the bound up to the delay of a script, and both together let at most twice the capacity through when answers are lost, scripts resent and the fallback decides again (`RedisWindowBound`); a request that begins under a settled freeze gets no burst on either path before a call lifts it (`FreezeHonoured`); settled means that the limiter reports it, the call that returned last set it, and no lifting call is under way. |
| `token_bucket` | 2 calls, 1 key, limits 1/2 and 2/1, window 2, time 4 | Over any stretch of time a key gets at most the capacity and what was refilled (`RateBound`); the reported count tells the zones apart (`CountInZone`); every call ends (`ChecksEnd`). |
| `burst_billing` | 2 concurrent bursts, 3 in all, 3 months, faults, 1 lost reply | No row exceeds what was counted for its key in its month or an earlier one, or the key's bursts if the in-memory limiter counted (`NeverOverbilled`); script and handler never both announce a burst (`AnnouncedOnce`). |
| `key_store` | 2 gateways, 2 requests, 1 kill at a time, Redis and PostgreSQL, faults | Once a kill is answered, no request that begins later and gets an answer from Redis is granted anywhere until a marker lapses or could not be written (`KillHolds`); every lookup ends although the kill holds the map's lock over network calls (`LookupsEnd`). |
| `webhook_engine` | 2 events, 1 worker, buffer 1, 2 attempts, 1 operator, faults, crash and restart | While the gateway runs, every event in the channel is delivered or becomes a dead letter (`EventsSettle`); no retry, crash or restart loses a dead letter that Redis kept (`NoLetterLost`); a delivery that has ended is not begun again, also after a crash before the acknowledgement (`SettledOnce`); Stop returns (`StopReturns`). |
| `admission` | 1 request, 2 contents and a broken, empty or missing file, 4 styles of writing, words of 5 bits | Contents that do not parse never become active (`TypeOK`); an accepted signature is fresh (`SignatureFresh`); limits and replay window come from one tier entry (`OneTier`); the request goes to a known upstream, that of the environment if it names one (`TargetKnown`); a change that is one event to an idle watcher is loaded (`QuietWriteLoaded`). |
| `metrics` | 3 handlers, 2 samples; percentiles of 1 to 100 samples | Between requests the gauge shows the state set last (`GaugeShowsLastSet`), and a second state does not last (`GaugeSettles`); the indices computed for p95 and p99 have the rank the names promise (`PercentileRank`). |
| `cockpit` | 1 standalone cockpit, the embedded one, an API client, 3 commands | A modal acts at most once however its POST is delayed (`TwoStep`); the view catches up with the gateway whatever was guessed or read in between (`ViewSettles`). |

The breaker, the cache, the in-memory limiter, the dead letters, the signature
check and the configuration have no passing run of their own: TLC checks them
inside the modules that call them, as the code does. The proofs of section 5
about the first four are about them alone, under every sequence of calls, and
the compositions are proved to make only such calls.

**Why the bounds are enough.** The interesting cases need two actors and one
value of each kind: two requests race for the probe slot and a third is a late
answer; two bursts write in the other order and three months let one turn lie
between count and read and another between read and write; two gateways are one
that kills and one that remembers; two calls of SetGlobalBurstFreeze can store in
opposite orders. Limits of 1 and 2 give a normal and a burst
grant and a refusal, and a window of 2 within 3 instants fills, expires and
fills again; a script that is a unit late is half a window late. A buffer of 1
is full with one event. In `token_bucket` one pair of limits has a burst reserve
and the other a soft limit above the hard one, so every call with the other pair
meets a bucket that was not made for it, and there is time for an empty bucket
to fill up. In `admission` a word of 5 bits lets every timestamp be tried,
including those for which the subtractions wrap; of the two contents one lacks
an upstream and has a jitter whose minimum is too large, so that a reload between
any two of the handler's reads changes tier, jitter and target at once; the
request and the file are independent, so one request is enough. In `metrics`
two handlers overlap while a third one resets, and the percentiles are tried
for every number of samples the gateway keeps. Counters of the breaker and ages
of the cache are complete, not truncated. In `Cockpit`, three commands are
enough for a late POST to overtake a newer one, and one change of the breaker
for a torn status. Two bounds are there for the liveness properties: one kill at
a time in `key_store` (with two and without `LookupsEnd`, TLC finds nothing in
2.9 million states) and one operator in `webhook_engine`; the theorems of
section 5 are for any number of both. Symmetry is used only over
interchangeable requests and calls, in runs without liveness properties.

Deadlock is checked everywhere except in `WebhookEngine`, where the process
ends.

**Fairness.** Weak fairness of every handler step, goroutine, ticker and of
time, which the Go scheduler and runtime timers provide; that an external call
returns (a result or an error) is what its client timeout gives. `KeyStore` and
`TokenBucket` use strong fairness for a call that waits for a lock: Go's
mutexes hand a lock to a waiter that has starved. `Cockpit` uses strong
fairness for a poll that decodes, the assumption that the gateway does not stay
unreachable for good. No fairness is assumed of operators, clients, writers of
files, crashes, restarts, or traffic, with two exceptions: in `proxy_recovery`
requests keep coming, as a breaker without requests has no reason to close, and
a writer that truncated the configuration file finishes writing. Where a
liveness property needs traffic or rest (`GaugeSettles`, `EventsSettle`,
`QuietWriteLoaded`) its own premise says so.

## 4. Where code and text disagree

Two runs each check one statement quoted from the repository and find it
violated.

| Run | Statement | What the code does |
|---|---|---|
| `probe_leak` | "HALF-OPEN - PROBING" (the cockpit's badge) | A probe answered with a 4xx, or unwound, reports nothing; its slot stays taken and the breaker refuses everything. This is why `proxy_recovery` leaves those two outcomes out. |
| `letter_returns` | "Delivery successful! Remove from DLQ", "Successfully delivered and cleared DLQ item" | The stream keeps the letter; a restart brings it back. |

The models show these as well; their hazards in `PROJECT.json`, if listed, carry a note
instead of a run:

* A kill (`KeyStore`) is forgotten by gateways that hold the key in memory when
  the marker lapses after a day; without Redis, a lookup that read the row
  before the kill stores it after the kill; a kill by id at a gateway that does
  not hold the key marks names that nobody looks up. `KillHolds` says what
  remains true.
* `SetGlobalBurstFreeze` takes no lock around its two stores (limiter.go:66-69).
  Two overlapping calls with opposite values may leave the limiter reporting the
  freeze and the fallback granting bursts until somebody calls it again
  (`RedisLimiter`, `FreezeStore` and `FreezeStoreFallback`), while the cockpit
  promises to "immediately disable burst quotas" (modals.go:47). `FreezeHonoured`
  says what remains true.
* Only an enqueue sets the dead-letter gauge (`DeadLetterQueue`), and the
  revenue gauge holds the overage of the key that burst last (`BurstBilling`).
* A burst that the fallback decides while Redis is configured is announced by
  nobody; the in-memory overages run on over the turn of the month; a script
  that the client sends twice counts one burst as two (`BurstBilling`).
* A shutdown cancels the context first, so events in the channel and deliveries
  in their backoff are dropped, and the deferred second `Stop` closes a closed
  channel (`WebhookEngine`, `BackoffCancelled` and `StopDeferred`). A stream
  entry that was read before a crash is never read again, and one whose `Publish`
  found the channel full is acknowledged all the same.
* A file event within the debounce is dropped for good, so that the empty
  contents of a file caught between truncation and write may stay active; a
  file renamed over the watched one takes the watch with it
  (`ConfigManager`, `Replace`).
* A jitter minimum above both the maximum and its default of 500 ms leaves an
  empty range, on which `rand.Intn` panics (`Admission`, `Delay`).
* Two handlers that both reset the breaker gauge before either sets it leave two
  states in it (`Metrics`); `GaugeSettles` says that this does not last.
* A call whose limits differ from those its bucket was made with may report a
  negative count (`TokenBucket`); `CountInZone` leaves it out.
* The standalone cockpit derives the new position of the cutoff from a text
  that a poll has changed (`Cockpit`, `RemoteAction`).

## 5. Proofs

Every safety property of the passing runs has a theorem here.

**Components by themselves**, under every sequence of calls:

| Theorem | States | Inductive invariant and why it is needed |
|---|---|---|
| `BreakerTypeCorrect`, `BreakerClosedIsHealthy`, `BreakerProbeSlot`, `BreakerRecoveryProbes`, `BreakerOrderlyTransitions` | the breaker's properties, for all thresholds and cooldowns | `BreakerInv`, their conjunction. The bound on probes needs the slot: probes are one per success plus one if the slot is taken. |
| `CacheTypeCorrect`, `CacheStalenessBounded`, `CacheKeptThroughGrace` | the cache's safety properties, for any keys, TTLs and intervals | `CacheInv`: every entry is at most grace plus the time since the last sweep past its expiry. The bound itself is not inductive, as it forgets when the next sweep is due. |
| `LimiterTypeCorrect`, `LimiterWindowBound` | types and window bound of the in-memory limiter, for any keys, limits and windows | `LimiterInv`: the slice is a suffix of the history that omits only expired grants, the history is ordered, and any two grants that are a capacity apart are a window apart. |
| `LimiterKeepsPromise` | the in-memory limiter implements `SlidingWindow` | The same invariant: with it, `Len` of the pruned slice is the number of grants in the window, so each branch of Check takes the step that the history calls for. |
| `BucketTypeCorrect`, `BucketRateBound`, `BucketCountInZone` | types, rate bound and reported counts of the token bucket, for any calls, keys, limits and window | `BucketInv`: what was let through since s plus what is left is at most the capacity plus what was refilled since s. The bound alone is not inductive, as it forgets the tokens left. The counts follow from the capacity, as whole tokens of a number of shares (`WholeTokens`). |
| `BillingNeverOverbilled` | `NeverOverbilled`, any number of bursts, keys and months, with lost replies, failures and restarts | `BillingInv`: what a handler carries is covered by the counts of some month up to its own (or by the bursts, if the in-memory limiter counts), months of a handler are ordered, overages and the requests still to be counted are no more than the bursts, rows are covered. |
| `BillingAnnouncedOnce` | `AnnouncedOnce`, for the same instances | `AnnounceInv`, on top of `BillingInv`: script and handler never both have a burst to announce (`OneAnnouncer`), and the events so far plus the handlers that still owe one are covered by the bursts begun and the replies lost. |
| `KeyKillHolds` | `KillHolds`, any number of gateways, requests and kills at once and any failures of PostgreSQL, if there is a Redis and the kill names the key, or a seeded key by its id | `KillInv`: from the answer on a marker is alive until one lapses or fails to be written, and a late request has not got past the check of the marker. A kill by id marks the key's own hash in its second step, which finds a seeded key in memory whatever restarts (`KnownInv`); for other keys it may find nothing, and the property fails. |
| `KeyFrozenStays` | with a database that answers, with or without Redis: a gateway that has frozen a seeded key keeps it frozen, through restarts too, unless it stops between the two writes of FreezeAPIKey | `FrozenInv`: memory is not ahead of the row but for the kills in progress, and no lookup of a seeded key is between its SELECT and its store, where a stale record would come back. |
| `KeyTypeCorrect` | `TypeOK` of the key store, without hypotheses: the write lock of a gateway is held exactly while a kill is under way there, and by one kill | `TypeOK` is inductive; its parts are `StoreShape`, `RequestShape`, `KillShape` and `LockHeld`. |
| `QueueNoLetterLost` | `NoLetterLost`, any events, sinks and operators, with or without Redis and its failures | `LetterInv`: a letter past Enqueue's second step is in the stream or known not to be, and an operator about to remove a letter has delivered it. |
| `AdmissionSignatureFresh`, `AdmissionOneTier`, `AdmissionTargetKnown` | the safety properties of admission, for words of every width, every configuration and every order of reloads | `AdmissionInv`: the active configuration is among those the request has lived through, so is the tier it works with, and no reload loses the values of the environment. The arithmetic is one lemma, `ChecksSuffice`. |
| `AdmissionTypeCorrect` | `TypeOK`: only what parses becomes active | inductive; `ConfigTypedStepwise` is the part about the watcher and the editors. |
| `AdmissionPanicOnlyInverted` | the jitter's `rand.Intn` panics only under a configuration with a minimum above 500 ms and a smaller maximum | an action property; `TypeOK` says that the active configuration has a jitter at all. |
| `MeterGaugeShowsLastSet` | `GaugeShowsLastSet`, any number of handlers | inductive with the types: whoever has emptied the gauge is between Reset and Set until something is in it again. |
| `MeterPercentileRank` | `PercentileRank`: p95 and p99 of any nonempty samples, however many | `PercentileRanked`, a fact about sequences. That the k-th smallest sample exists (`SortedPlaces`) is the heart of it: the least sample that k samples do not exceed, from the well-foundedness of `<` (`NatLeast`, `LargestSample`). The rest is the arithmetic of the truncated index. |
| `CockpitTwoStep` | `TwoStep`, any number of cockpits, API clients and late POSTs | `CockpitInv`: the stores plus what is outstanding (open modals, commands waited for, late POSTs of cockpits) are covered by the modals opened. TwoStep alone forgets the commands under way. That a late POST has a number nobody else has is a pigeonhole (`NumberLeft`). |

**Compositions.** First the parts are carried over: every step of the
composition is a step of the part or leaves it alone, so that the theorems above
hold of it.

| Theorem | States | Argument |
|---|---|---|
| `ForwardImplementsBreaker`, `ForwardImplementsCache` | handlers, administrator, clock and shutdown drive the breaker and the cache only by their methods (of the cache without its fairness, which is the scheduler's) | step by step; the cache needs the type of the keys a handler carries. |
| `ForwardBreakerPromises`, `ForwardCachePromises` | so the properties of the breaker and the cache hold of the gateway, for any number of interleaved handlers | from the theorems of the parts; the cache's are safety and need none of its fairness. |
| `MeteredImplementsMetrics` | any interleaving of the breaker's methods with the handlers' reports is a behaviour of `Metrics`, whose breaker is reduced to three moves | step by step, with `BreakerInv`. |
| `ForwardTypeCorrect`, `ForwardCutoffShields`, `ForwardFallbackAvailable` | the properties of forwarding, for any number of concurrent requests | `ForwardInv`: the invariants of both parts; a request that saw no gap in the cutoff has not got past its check; a response stored within its grace is still in the map. |
| `ForwardProbeSlotHasOwner` | `ProbeSlotHasOwner`, if no forward ends in a status from 400 to 499 or unwinds | Whoever takes the slot forwards, and reports before it leaves. The hypothesis is what `probe_leak` is about. |
| `RedisImplementsLimiter`, `RedisFallbackPromises` | the fallback inside the Redis limiter is the limiter by itself, so its window bound and its refinement of `SlidingWindow` hold of it | step by step. |
| `RedisFreezeHonoured` | `FreezeHonoured`, any number of requests and of concurrent calls of SetGlobalBurstFreeze | `FreezeInv`: the fallback has what the call that returned last stored; a request that began under a settled freeze and saw no thaw carries the flag, the fallback has it, and no lifting call is under way. |
| `RedisTypeCorrect`, `RedisKeepsWindowBound` | the sorted set keeps the capacity and the two bounds hold, for any number of requests and any delay below the window | `RedisInv`: the set is within the capacity and EXPIRE takes away nothing that is still in the window (`SetInv`); and since any moment of the window, up to the delay, the requests let through and those whose member still waits for a reply are covered by the later members of the set and the grants of the fallback (`CountInv`). The bounds alone forget the members that belong to no answered request. |
| `EngineImplementsQueue`, `EngineNoLetterLost` | the engine changes dead letters only as the queue allows, so none is lost | step by step, with `QueueNoLetterLost`. |
| `EngineTypeCorrect`, `EngineSettledOnce` | types and `SettledOnce`, any events, sinks, workers, buffer and retries | `EngineInv`: an event is in at most one of stream, entries still to publish and channel, once (`OnePlace`), and one whose delivery has begun is in none of them (`BegunIsGone`). |
| `EngineStopDrained` | when the first Stop has returned, and when the deferred one panics on the closed channel, no worker and no poller is left, and none of the poller's entries is left unpublished | inductive; deliveries under way are not among what Stop waits for. |

The only assumptions are the `ASSUME`s of the modules and the hypotheses in the
statements: positive thresholds, intervals and windows, which the constructors or
the configuration give; a clock that is far from the end of its word; finitely
many requests, events and sinks, as a process has; types of the parameters; for
`KeyKillHolds` a Redis and a kill by key or of a seeded key; for `KeyFrozenStays` a
database without failures; for `EngineTypeCorrect` that there is a letter at all. Each proof has one step per action; facts about sequences, sorted
sets, covering counts and words that wrap are lemmas. The strengthened invariants
were checked with TLC on the instances of section 3 before they were proved.

## 6. Only model-checked

* Liveness (`CloseEndsSweeper`, `Recovers`, `LookupsEnd`, `EventsSettle`,
  `StopReturns`, `QuietWriteLoaded`, `ViewSettles`, `GaugeSettles`,
  `ChecksEnd`), which is out of the prover's reach.
* That the counting definition `Sorted` of `Metrics` is what a sort computes: it
  was compared with `SortSeq` over all sequences of up to five samples of four
  values. The prover has no account of `SortSeq`, so the model does not use it.
* The two disagreements of section 4, which are counterexamples.

## 7. Not modelled

* **Envelope encryption, hashing, the MAC of a signature**: cryptography; hashes
  are taken as injective, and a MAC matches or does not.
* **Counters of the metrics** and the reporter of Redis memory: one atomic
  operation each.
* **CORS, webhook payloads, demo pages, rendering, chaos tools, mocks,
  migrations**: stateless, static or clients of the gateway. An OPTIONS request
  is answered by the CORS middleware and never reaches `Admission`.
* Reads for display (GetAllOverages, List) and audit records.
* Configuration: `Update`, `SetJitter` and the listeners, which only tests call,
  and fields other than tier, jitter and upstream.
* The order in which two answers for one URL are cached: the upstream gives no
  version by which one could be called older.

## 8. Plan

Done, in this order: breaker, cache, forwarding, limiters, billing, key store,
dead letters, engine, configuration, cockpits, and proofs for the components
that stand alone; then the abstract limiter and its refinement, admission with
signatures and reloads, the token bucket, the metrics, crash and restart of the
engine with its consumer group, billing without Redis and over restarts, resent
scripts, and the proofs for token bucket and admission; then the proofs of the
compositions, of the announcements, of the two-step protocol and of the types.
Last, the proofs for the metrics, the promises of the parts restated for the
compositions, kills by id and without Redis, the jitter and the shutdown.

What is left to do: shared counting lemmas for the two sliding windows, to
shorten the proof of `RedisLimiter`; and a bound for what a shutdown abandons,
once the code has one.
