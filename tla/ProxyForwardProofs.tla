-------------------------- MODULE ProxyForwardProofs --------------------------
(***************************************************************************)
(* The circuit breaker under any sequence of calls, the fallback cache     *)
(* under any sequence of calls, and the request handlers that drive both:  *)
(* for every threshold, cooldown, TTL, interval, lag, set of keys and      *)
(* number of concurrent requests.  And what the handlers report: the gauge *)
(* of the breaker's state and the latency percentiles.                     *)
(***************************************************************************)
EXTENDS ProxyForward, Metrics, FiniteSetTheorems, TLAPS

-----------------------------------------------------------------------------
(* The circuit breaker *)

\* The four invariants together are inductive: the range of the success count
\* needs the HALF-OPEN part of ClosedIsHealthy, and the probe count of a
\* recovery needs that the slot is free when OPEN is left.
BreakerInv ==
    /\ BreakerTypeOK
    /\ ClosedIsHealthy
    /\ ProbeSlotOnlyHalfOpen
    /\ RecoveryProbesBounded

LEMMA BreakerInvInit == BreakerInit => BreakerInv
<1> SUFFICES ASSUME BreakerInit PROVE BreakerInv
  OBVIOUS
<1> USE BreakerAssumption DEF BreakerInit
<1>0. emergencyCutoff \in BOOLEAN /\ halfOpenProbing \in BOOLEAN
  BY Zenon
<1>1. BreakerTypeOK
  BY <1>0 DEF BreakerTypeOK, CircuitState, SuccessesToClose
<1>2. ClosedIsHealthy
  BY DEF ClosedIsHealthy
<1>3. ProbeSlotOnlyHalfOpen
  BY DEF ProbeSlotOnlyHalfOpen
<1>4. RecoveryProbesBounded
  BY DEF RecoveryProbesBounded
<1>5. QED
  BY <1>1, <1>2, <1>3, <1>4 DEF BreakerInv

\* One step per method of the breaker.
LEMMA BreakerInvStep == BreakerInv /\ [BreakerNext]_breakerVars => BreakerInv'
<1> SUFFICES ASSUME BreakerInv, [BreakerNext]_breakerVars PROVE BreakerInv'
  OBVIOUS
<1> USE BreakerAssumption
    DEF BreakerInv, BreakerTypeOK, ClosedIsHealthy, ProbeSlotOnlyHalfOpen,
        RecoveryProbesBounded, CircuitState, SuccessesToClose
<1>1. ASSUME NEW enabled \in BOOLEAN, SetEmergencyCutoff(enabled)
      PROVE BreakerInv'
  BY <1>1 DEF SetEmergencyCutoff, breakerFields
<1>2. CASE AllowClosed
  BY <1>2 DEF AllowClosed, breakerVars, breakerFields
<1>3. CASE AllowAfterCooldown
  BY <1>3 DEF AllowAfterCooldown
<1>4. CASE AllowProbe
  BY <1>4 DEF AllowProbe
<1>5. CASE AllowDenied
  BY <1>5 DEF AllowDenied, breakerVars, breakerFields
<1>6. CASE RecordSuccessHalfOpen
  <2>0. ~halfOpenProbing' /\ halfOpenProbing' \in BOOLEAN
    BY <1>6, Zenon DEF RecordSuccessHalfOpen
  <2>1. CASE consecutiveSuccesses + 1 >= SuccessesToClose
    BY <1>6, <2>0, <2>1 DEF RecordSuccessHalfOpen
  <2>2. CASE consecutiveSuccesses + 1 < SuccessesToClose
    BY <1>6, <2>0, <2>2 DEF RecordSuccessHalfOpen
  <2>3. QED
    BY <2>1, <2>2
<1>7. CASE RecordSuccessClosed
  BY <1>7 DEF RecordSuccessClosed
<1>8. CASE RecordSuccessOpen
  BY <1>8 DEF RecordSuccessOpen, breakerVars, breakerFields
<1>9. ASSUME NEW slow \in BOOLEAN, RecordFailure(slow)
      PROVE BreakerInv'
  <2>0. ~halfOpenProbing' /\ halfOpenProbing' \in BOOLEAN
    BY <1>9, Zenon DEF RecordFailure
  <2>1. consecutiveFailures' \in 0..FailureThreshold
    BY <1>9 DEF RecordFailure, CountFailure
  <2>2. CASE state' = "OPEN"
    BY <1>9, <2>0, <2>1, <2>2 DEF RecordFailure
  <2>3. CASE state' # "OPEN"
    BY <1>9, <2>0, <2>1, <2>3 DEF RecordFailure
  <2>4. QED
    BY <2>2, <2>3
<1>10. CASE BreakerElapse
  BY <1>10 DEF BreakerElapse
<1>11. CASE UNCHANGED breakerVars
  BY <1>11 DEF breakerVars, breakerFields
<1>12. QED
  BY <1>1, <1>2, <1>3, <1>4, <1>5, <1>6, <1>7, <1>8, <1>9, <1>10, <1>11
  DEF BreakerNext, AllowGranted, RecordSuccess

LEMMA BreakerInvariant == BreakerSpec => []BreakerInv
  BY BreakerInvInit, BreakerInvStep, PTL DEF BreakerSpec

\* Every field of the breaker keeps its range (cache.go, struct CircuitBreaker).
THEOREM BreakerTypeCorrect == BreakerSpec => []BreakerTypeOK
  BY BreakerInvariant, PTL DEF BreakerInv

\* A CLOSED breaker is below its failure limit and a HALF-OPEN one has no
\* failure on its count, whatever the order of RecordSuccess and RecordFailure.
THEOREM BreakerClosedIsHealthy == BreakerSpec => []ClosedIsHealthy
  BY BreakerInvariant, PTL DEF BreakerInv

\* The probe slot is taken only in HALF-OPEN.
THEOREM BreakerProbeSlot == BreakerSpec => []ProbeSlotOnlyHalfOpen
  BY BreakerInvariant, PTL DEF BreakerInv

\* AllowRequest lets at most two requests through in HALF-OPEN.
THEOREM BreakerRecoveryProbes == BreakerSpec => []RecoveryProbesBounded
  BY BreakerInvariant, PTL DEF BreakerInv

\* The breaker moves CLOSED -> OPEN -> HALF-OPEN -> CLOSED or OPEN, with a
\* full cooldown before a recovery and two successes at the end of it.
THEOREM BreakerOrderlyTransitions == BreakerSpec => OrderlyTransitions
<1> DEFINE Orderly ==
       /\ (state = "OPEN" /\ state' # "OPEN") =>
            state' = "HALF-OPEN" /\ age = Cooldown /\ halfOpenProbing'
       /\ (state # "CLOSED" /\ state' = "CLOSED") =>
            state = "HALF-OPEN" /\ consecutiveSuccesses' = SuccessesToClose
       /\ (state # "HALF-OPEN" /\ state' = "HALF-OPEN") => state = "OPEN"
<1>1. BreakerInv /\ [BreakerNext]_breakerVars => [Orderly]_breakerVars
  <2> SUFFICES ASSUME BreakerInv, BreakerNext PROVE Orderly
    OBVIOUS
  <2> USE BreakerAssumption
      DEF BreakerInv, BreakerTypeOK, ClosedIsHealthy, CircuitState,
          SuccessesToClose
  <2>1. CASE \E enabled \in BOOLEAN : SetEmergencyCutoff(enabled)
    BY <2>1 DEF SetEmergencyCutoff, breakerFields
  <2>2. CASE AllowClosed \/ AllowDenied \/ RecordSuccessOpen
    BY <2>2 DEF AllowClosed, AllowDenied, RecordSuccessOpen, breakerVars,
                breakerFields
  <2>3. CASE AllowAfterCooldown \/ AllowProbe
    BY <2>3 DEF AllowAfterCooldown, AllowProbe
  <2>4. CASE RecordSuccessHalfOpen
    BY <2>4 DEF RecordSuccessHalfOpen
  <2>5. CASE RecordSuccessClosed \/ BreakerElapse
    BY <2>5 DEF RecordSuccessClosed, BreakerElapse
  <2>6. CASE \E slow \in BOOLEAN : RecordFailure(slow)
    BY <2>6 DEF RecordFailure
  <2>7. QED
    BY <2>1, <2>2, <2>3, <2>4, <2>5, <2>6
    DEF BreakerNext, AllowGranted, RecordSuccess
<1>2. QED
  BY BreakerInvariant, <1>1, PTL DEF BreakerSpec, OrderlyTransitions

-----------------------------------------------------------------------------
(* The fallback cache *)

\* How long ago the map was last free of entries beyond the grace period: the
\* time since the tick that was answered last.
SinceSweep == IF tick THEN phase + Interval ELSE phase

\* A pending tick is at most MaxLag old, and no entry outlived its grace
\* period by more than the time since the last sweep.
SweepInv ==
    /\ tick => sweeper = "running" /\ phase <= MaxLag
    /\ sweeper = "running" =>
         \A k \in DOMAIN entries : entries[k].past <= Grace + SinceSweep

CacheInv == CacheTypeOK /\ SweepInv

LEMMA CacheInvInit == CacheInit => CacheInv
<1> SUFFICES ASSUME CacheInit PROVE CacheInv
  OBVIOUS
<1>1. tick \in BOOLEAN /\ stopped \in BOOLEAN /\ ~tick
  BY Zenon DEF CacheInit
<1>2. DOMAIN entries = {}
  BY DEF CacheInit
<1>3. CacheTypeOK
  BY <1>1, <1>2, CacheAssumption DEF CacheInit, CacheTypeOK
<1>4. SweepInv
  BY <1>1, <1>2 DEF SweepInv
<1>5. QED
  BY <1>3, <1>4 DEF CacheInv

LEMMA CacheInvStep == CacheInv /\ [CacheNext]_cacheVars => CacheInv'
<1> SUFFICES ASSUME CacheInv, [CacheNext]_cacheVars PROVE CacheInv'
  OBVIOUS
<1> USE CacheAssumption DEF CacheInv, CacheTypeOK, SweepInv, SinceSweep, Entry
<1>1. ASSUME NEW key \in Keys, NEW value \in Values, NEW ttl \in TTLs,
             Set(key, value, ttl)
      PROVE CacheInv'
  <2>1. DOMAIN entries' = DOMAIN entries \cup {key}
    BY <1>1 DEF Set
  <2>2. \A k \in DOMAIN entries' :
           entries'[k] = IF k = key THEN [value |-> value, past |-> -ttl]
                                    ELSE entries[k]
    BY <1>1 DEF Set
  <2>3. ttl \in Nat /\ -ttl \in Int /\ -ttl <= 0
    OBVIOUS
  <2>4. \A k \in DOMAIN entries' : entries'[k] \in Entry
    BY <2>1, <2>2, <2>3
  <2>5. UNCHANGED <<phase, tick, stopped, sweeper>>
    BY <1>1 DEF Set
  <2>6. CacheTypeOK'
    <3>1. entries' \in [DOMAIN entries' -> Entry]
      BY <1>1, <2>1, <2>4 DEF Set
    <3>2. QED
      BY <2>1, <2>5, <3>1
  <2>7. SweepInv'
    BY <2>1, <2>2, <2>3, <2>5
  <2>8. QED
    BY <2>6, <2>7
<1>2. CASE Sweep
  <2>1. DOMAIN entries' \subseteq DOMAIN entries
    BY <1>2 DEF Sweep, EvictExpired
  <2>2. \A k \in DOMAIN entries' :
           entries'[k] = entries[k] /\ entries'[k].past <= Grace
    BY <1>2 DEF Sweep, EvictExpired
  <2>3. tick' \in BOOLEAN /\ ~tick'
    BY <1>2, Zenon DEF Sweep
  <2>4. UNCHANGED <<phase, stopped, sweeper>>
    BY <1>2 DEF Sweep
  <2>5. entries' \in [DOMAIN entries' -> Entry]
    BY <1>2, <2>1, <2>2 DEF Sweep, EvictExpired
  <2>6. CacheTypeOK'
    BY <2>1, <2>3, <2>4, <2>5
  <2>7. SweepInv'
    BY <2>1, <2>2, <2>3, <2>4
  <2>8. QED
    BY <2>6, <2>7
<1>3. CASE SweeperStops
  <2>1. tick' \in BOOLEAN /\ ~tick'
    BY <1>3, Zenon DEF SweeperStops
  <2>2. QED
    BY <1>3, <2>1 DEF SweeperStops
<1>4. CASE Close
  BY <1>4 DEF Close
<1>5. CASE CacheElapse
  <2>1. DOMAIN entries' = DOMAIN entries
    BY <1>5 DEF CacheElapse
  <2>2. \A k \in DOMAIN entries :
           entries'[k] = [entries[k] EXCEPT
                            !.past = IF @ < MaxPast THEN @ + 1 ELSE @]
    BY <1>5 DEF CacheElapse
  <2>3. \A k \in DOMAIN entries :
           entries'[k] \in Entry /\ entries'[k].past <= entries[k].past + 1
    <3> SUFFICES ASSUME NEW k \in DOMAIN entries
                 PROVE entries'[k] \in Entry /\ entries'[k].past <= entries[k].past + 1
      OBVIOUS
    <3>1. entries[k] \in Entry /\ entries[k].past \in Int
      OBVIOUS
    <3>2. MaxPast \in Int
      BY DEF MaxPast
    <3> DEFINE p == IF entries[k].past < MaxPast THEN entries[k].past + 1
                                                ELSE entries[k].past
    <3>3. /\ p \in Int /\ p <= entries[k].past + 1
          /\ entries'[k] = [entries[k] EXCEPT !.past = p]
      <4>1. p \in Int /\ p <= entries[k].past + 1
        BY <3>1, <3>2
      <4>2. entries'[k] = [entries[k] EXCEPT !.past = p]
        BY <2>2, Zenon
      <4>3. QED
        BY <4>1, <4>2
    <3> HIDE DEF p
    <3>4. QED
      BY <3>1, <3>3
  <2>4. entries' \in [DOMAIN entries' -> Entry]
    BY <1>5, <2>1, <2>3 DEF CacheElapse
  <2>5. CASE sweeper = "running" /\ phase + 1 = Interval
    <3>1. ~tick /\ phase' = 0 /\ tick' /\ tick' \in BOOLEAN
      BY <1>5, <2>5 DEF CacheElapse
    <3>2. stopped' = stopped /\ sweeper' = sweeper
      BY <1>5 DEF CacheElapse
    <3>3. CacheTypeOK'
      BY <2>1, <2>4, <3>1, <3>2
    <3>4. SweepInv'
      BY <2>1, <2>3, <2>5, <3>1, <3>2
    <3>5. QED
      BY <3>3, <3>4
  <2>6. CASE sweeper = "running" /\ phase + 1 # Interval
    <3>0. \A k \in DOMAIN entries : entries[k].past \in Int
      OBVIOUS
    <3>1. phase' = phase + 1 /\ tick' = tick /\ (tick => phase < MaxLag)
      BY <1>5, <2>6 DEF CacheElapse
    <3>2. stopped' = stopped /\ sweeper' = sweeper
      BY <1>5 DEF CacheElapse
    <3>3. CacheTypeOK'
      <4>1. phase \in 0..(Interval - 1) /\ phase + 1 # Interval
        BY <2>6
      <4>2. phase' \in 0..(Interval - 1)
        BY <3>1, <4>1
      <4>3. QED
        BY <2>1, <2>4, <3>1, <3>2, <4>2
    <3>4. SweepInv'
      BY <2>1, <2>3, <2>6, <3>1, <3>2
    <3>5. QED
      BY <3>3, <3>4
  <2>7. CASE sweeper = "none"
    BY <1>5, <2>1, <2>4, <2>7 DEF CacheElapse
  <2>8. QED
    BY <2>5, <2>6, <2>7
<1>6. CASE UNCHANGED cacheVars
  BY <1>6 DEF cacheVars
<1>7. QED
  BY <1>1, <1>2, <1>3, <1>4, <1>5, <1>6 DEF CacheNext

LEMMA CacheInvariant == CacheSpec => []CacheInv
  BY CacheInvInit, CacheInvStep, PTL DEF CacheSpec

\* The map, the ticker and the sweeper of SmartCache keep their types.
THEOREM CacheTypeCorrect == CacheSpec => []CacheTypeOK
  BY CacheInvariant, PTL DEF CacheInv

\* EvictExpired, driven by cleanupLoop, bounds how stale a fallback can be.
LEMMA CacheInvBounds == CacheInv => StalenessBounded
  BY CacheAssumption
  DEF CacheInv, CacheTypeOK, SweepInv, SinceSweep, Entry, StalenessBounded

THEOREM CacheStalenessBounded == CacheSpec => []StalenessBounded
  BY CacheInvariant, CacheInvBounds, PTL

\* No method of SmartCache drops a response within its grace period.
Kept == \A k \in DOMAIN entries :
           k \notin DOMAIN entries' => entries[k].past > Grace

LEMMA KeptStep == CacheInv /\ [CacheNext]_cacheVars => [Kept]_cacheVars
<1> SUFFICES ASSUME CacheInv, CacheNext PROVE Kept
  OBVIOUS
<1> USE DEF Kept
<1>1. ASSUME NEW key \in Keys, NEW value \in Values, NEW ttl \in TTLs,
             Set(key, value, ttl)
      PROVE Kept
  BY <1>1 DEF Set
<1>2. CASE Sweep
  <2>1. \A k \in DOMAIN entries : entries[k].past \in Int
    BY DEF CacheInv, CacheTypeOK, Entry
  <2>2. QED
    BY <1>2, <2>1, CacheAssumption DEF Sweep, EvictExpired
<1>3. CASE SweeperStops \/ Close \/ CacheElapse
  BY <1>3 DEF SweeperStops, Close, CacheElapse
<1>4. QED
  BY <1>1, <1>2, <1>3 DEF CacheNext

THEOREM CacheKeptThroughGrace == CacheSpec => KeptThroughGrace
  BY CacheInvariant, KeptStep, PTL DEF CacheSpec, KeptThroughGrace, Kept

-----------------------------------------------------------------------------
(* The request handlers drive the breaker and the cache *)

\* What one step of the handlers, the administrator, the sweeper or the clock
\* does to the breaker and to the cache is one of their own operations.
LEMMA ForwardStepIsBreakerStep == [Next]_vars => [BreakerNext]_breakerVars
<1> SUFFICES ASSUME [Next]_vars PROVE [BreakerNext]_breakerVars
  OBVIOUS
<1> USE DEF BreakerNext
<1>1. ASSUME NEW r \in Reqs, Arrive(r) \/ Gate(r) \/ Forward(r) \/ Store(r)
                             \/ FlushOther(r) \/ Lookup(r)
      PROVE UNCHANGED breakerVars
  BY <1>1 DEF Arrive, Gate, Forward, Store, FlushOther, Lookup
<1>2. ASSUME NEW r \in Reqs, Allow(r) \/ ReportSuccess(r)
      PROVE BreakerNext
  BY <1>2 DEF Allow, ReportSuccess
<1>3. ASSUME NEW r \in Reqs, ReportFailure(r)
      PROVE BreakerNext
  <2>1. (pc[r] = "slow") \in BOOLEAN
    BY Zenon
  <2>2. RecordFailure(pc[r] = "slow")
    BY <1>3 DEF ReportFailure
  <2>3. QED
    BY <2>1, <2>2, Zenon
<1>4. CASE \E enabled \in BOOLEAN : Cutoff(enabled)
  BY <1>4 DEF Cutoff
<1>5. CASE Sweeper \/ Shutdown \/ UpstreamChanges
  BY <1>5 DEF Sweeper, Shutdown, UpstreamChanges
<1>6. CASE Elapse
  BY <1>6 DEF Elapse
<1>7. CASE UNCHANGED vars
  BY <1>7 DEF vars
<1>8. QED
  BY <1>1, <1>2, <1>3, <1>4, <1>5, <1>6, <1>7 DEF Next, Handler

LEMMA ForwardStepIsCacheStep == TypeOK /\ [Next]_vars => [CacheNext]_cacheVars
<1> SUFFICES ASSUME TypeOK, [Next]_vars PROVE [CacheNext]_cacheVars
  OBVIOUS
<1> USE DEF CacheNext
<1>1. ASSUME NEW r \in Reqs, Arrive(r) \/ Gate(r) \/ Allow(r) \/ Forward(r)
                             \/ ReportFailure(r) \/ ReportSuccess(r)
                             \/ FlushOther(r) \/ Lookup(r)
      PROVE UNCHANGED cacheVars
  BY <1>1 DEF Arrive, Gate, Allow, Forward, ReportFailure, ReportSuccess,
              FlushOther, Lookup
<1>2. ASSUME NEW r \in Reqs, Store(r)
      PROVE CacheNext
  <2>1. uri[r] \in Keys
    BY DEF TypeOK
  <2>2. \E ttl \in TTLs, v \in Values : Set(uri[r], v, ttl)
    BY <1>2 DEF Store
  <2>3. QED
    BY <2>1, <2>2
<1>3. CASE \E enabled \in BOOLEAN : Cutoff(enabled)
  BY <1>3 DEF Cutoff
<1>4. CASE Sweeper \/ Shutdown
  BY <1>4 DEF Sweeper, Shutdown
<1>5. CASE Elapse \/ UpstreamChanges
  BY <1>5 DEF Elapse, UpstreamChanges
<1>6. CASE UNCHANGED vars
  BY <1>6 DEF vars
<1>7. QED
  BY <1>1, <1>2, <1>3, <1>4, <1>5, <1>6 DEF Next, Handler

-----------------------------------------------------------------------------
(* The inductive invariant of the composition *)

\* A request that has passed the read of emergencyCutoff has seen it off since
\* it arrived, and one that is about to read it will be refused otherwise.
CutoffInv ==
    \A r \in Reqs :
        /\ pc[r] = "gate" => lifted[r] \/ emergencyCutoff
        /\ pc[r] = "allow" \/ Forwarded(r) => lifted[r]

\* Until its grace period is over, the last response stored for a key is the
\* one in the map, and as old there as the history says.
StoredInv ==
    \A k \in Keys :
        lastStored[k] <= Grace => Cached(k) /\ entries[k].past = lastStored[k]

ForwardInv == TypeOK /\ BreakerInv /\ CacheInv /\ CutoffInv /\ StoredInv

LEMMA ForwardInvInit == Init => ForwardInv
<1> SUFFICES ASSUME Init PROVE ForwardInv
  OBVIOUS
<1>1. BreakerInv /\ CacheInv
  BY BreakerInvInit, CacheInvInit DEF Init
<1>2. MaxPast \in Int /\ MaxPast > Grace
  BY CacheAssumption DEF MaxPast
<1>3. lifted \in [Reqs -> BOOLEAN]
  BY Zenon DEF Init
<1>4. TypeOK
  BY <1>1, <1>2, <1>3 DEF Init, TypeOK, BreakerInv, CacheInv
<1>5. CutoffInv
  BY DEF Init, CutoffInv, Forwarded
<1>6. StoredInv
  BY <1>2, CacheAssumption DEF Init, StoredInv
<1>7. QED
  BY <1>1, <1>4, <1>5, <1>6 DEF ForwardInv

\* The state of the handlers, given that breaker and cache keep theirs.
LEMMA RequestTypeStep ==
    TypeOK /\ [Next]_vars /\ BreakerTypeOK' /\ CacheTypeOK' => TypeOK'
<1> SUFFICES ASSUME TypeOK, [Next]_vars, BreakerTypeOK', CacheTypeOK'
             PROVE TypeOK'
  OBVIOUS
<1> DEFINE Labels == {"idle", "gate", "allow", "forward", "failed", "slow",
                      "ok", "store", "other", "lookup", "missed"}
<1>0. MaxPast \in Int
  BY CacheAssumption DEF MaxPast
<1>1. pc' \in [Reqs -> Labels]
  <2>1. ASSUME NEW r \in Reqs, NEW label \in Labels, Goto(r, label)
        PROVE pc' \in [Reqs -> Labels]
    BY <2>1 DEF TypeOK, Goto
  <2>2. CASE \E r \in Reqs : Forward(r)
    <3> PICK r \in Reqs : Forward(r)
      BY <2>2
    <3>1. PICK o \in IF healthy THEN {"ok"} ELSE Outcomes :
             Goto(r, IF o = "abort" THEN "idle" ELSE o)
      BY DEF Forward
    <3>2. (IF o = "abort" THEN "idle" ELSE o) \in Labels
      BY OutcomesAssumption
    <3>3. QED
      BY <2>1, <3>1, <3>2
  <2>3. CASE \E r \in Reqs : \/ Arrive(r) \/ Gate(r) \/ Allow(r)
                             \/ ReportFailure(r) \/ ReportSuccess(r) \/ Store(r)
                             \/ FlushOther(r) \/ Lookup(r)
    <3>1. \E r \in Reqs, label \in Labels : Goto(r, label)
      BY <2>3 DEF Arrive, Gate, Allow, ReportFailure, ReportSuccess, Store,
                  FlushOther, Lookup
    <3>2. QED
      BY <2>1, <3>1
  <2>4. CASE pc' = pc
    BY <2>4 DEF TypeOK
  <2>5. QED
    BY <2>2, <2>3, <2>4
    DEF Next, Handler, Cutoff, Sweeper, Shutdown, Elapse, UpstreamChanges, vars,
        requestVars
<1>2. uri' \in [Reqs -> Keys]
  <2>1. CASE \E r \in Reqs, k \in Keys : uri' = [uri EXCEPT ![r] = k]
    BY <2>1 DEF TypeOK
  <2>2. CASE uri' = uri
    BY <2>2 DEF TypeOK
  <2>3. QED
    BY <2>1, <2>2
    DEF Next, Handler, Arrive, Gate, Allow, Forward, ReportFailure,
        ReportSuccess, Store, FlushOther, Lookup, Cutoff, Sweeper, Shutdown,
        Elapse, UpstreamChanges, vars, requestVars
<1>3. healthy' \in BOOLEAN
  <2>1. CASE healthy' = ~healthy
    BY <2>1, Zenon
  <2>2. CASE healthy' = healthy
    BY <2>2 DEF TypeOK
  <2>3. QED
    BY <2>1, <2>2
    DEF Next, Handler, Arrive, Gate, Allow, Forward, ReportFailure,
        ReportSuccess, Store, FlushOther, Lookup, Cutoff, Sweeper, Shutdown,
        Elapse, UpstreamChanges, vars, requestVars
<1>4. lifted' \in [Reqs -> BOOLEAN]
  <2>1. ASSUME NEW r \in Reqs, lifted' = [lifted EXCEPT ![r] = ~emergencyCutoff]
        PROVE lifted' \in [Reqs -> BOOLEAN]
    <3>1. (~emergencyCutoff) \in BOOLEAN
      BY Zenon
    <3>2. QED
      BY <2>1, <3>1, Zenon DEF TypeOK
  <2>2. ASSUME NEW enabled \in BOOLEAN,
               lifted' = [r \in Reqs |-> lifted[r] \/ ~enabled]
        PROVE lifted' \in [Reqs -> BOOLEAN]
    <3>1. \A r \in Reqs : (lifted[r] \/ ~enabled) \in BOOLEAN
      BY Zenon
    <3>2. QED
      BY <2>2, <3>1, Zenon
  <2>3. CASE lifted' = lifted
    BY <2>3 DEF TypeOK
  <2>4. QED
    BY <2>1, <2>2, <2>3
    DEF Next, Handler, Arrive, Gate, Allow, Forward, ReportFailure,
        ReportSuccess, Store, FlushOther, Lookup, Cutoff, Sweeper, Shutdown,
        Elapse, UpstreamChanges, vars, requestVars
<1>5. lastStored' \in [Keys -> Int]
  <2>1. CASE \E r \in Reqs, ttl \in TTLs :
                lastStored' = [lastStored EXCEPT ![uri[r]] = -ttl]
    BY <2>1, CacheAssumption DEF TypeOK
  <2>2. CASE Elapse
    BY <1>0, <2>2 DEF Elapse, TypeOK
  <2>3. CASE lastStored' = lastStored
    BY <2>3 DEF TypeOK
  <2>4. QED
    BY <2>1, <2>2, <2>3
    DEF Next, Handler, Arrive, Gate, Allow, Forward, ReportFailure,
        ReportSuccess, Store, FlushOther, Lookup, Cutoff, Sweeper, Shutdown,
        UpstreamChanges, vars, requestVars
<1>6. QED
  BY <1>1, <1>2, <1>3, <1>4, <1>5 DEF TypeOK

\* A request passes the gate only when it has seen the cutoff off.
LEMMA CutoffStep == TypeOK /\ CutoffInv /\ [Next]_vars => CutoffInv'
<1> SUFFICES ASSUME TypeOK, CutoffInv, [Next]_vars,
                    NEW q \in Reqs
             PROVE /\ pc'[q] = "gate" => lifted'[q] \/ emergencyCutoff'
                   /\ pc'[q] = "allow" \/ Forwarded(q)' => lifted'[q]
  BY DEF CutoffInv
<1> USE DEF TypeOK, CutoffInv, Forwarded, Goto
<1>1. ASSUME NEW r \in Reqs, Arrive(r)
      PROVE /\ pc'[q] = "gate" => lifted'[q] \/ emergencyCutoff'
            /\ pc'[q] = "allow" \/ Forwarded(q)' => lifted'[q]
  BY <1>1 DEF Arrive, breakerVars
<1>2. ASSUME NEW r \in Reqs, Gate(r)
      PROVE /\ pc'[q] = "gate" => lifted'[q] \/ emergencyCutoff'
            /\ pc'[q] = "allow" \/ Forwarded(q)' => lifted'[q]
  BY <1>2 DEF Gate, CutoffLoad, breakerVars
<1>3. ASSUME NEW r \in Reqs, Allow(r)
      PROVE /\ pc'[q] = "gate" => lifted'[q] \/ emergencyCutoff'
            /\ pc'[q] = "allow" \/ Forwarded(q)' => lifted'[q]
  <2>1. emergencyCutoff' = emergencyCutoff
    BY <1>3 DEF Allow, AllowGranted, AllowDenied, AllowClosed,
                AllowAfterCooldown, AllowProbe, breakerVars
  <2>2. \/ pc' = [pc EXCEPT ![r] = "forward"]
        \/ pc' = [pc EXCEPT ![r] = "lookup"]
    BY <1>3 DEF Allow
  <2>3. pc[r] = "allow" /\ lifted' = lifted
    BY <1>3 DEF Allow
  <2>4. QED
    BY <2>1, <2>2, <2>3
<1>4. ASSUME NEW r \in Reqs, Forward(r)
      PROVE /\ pc'[q] = "gate" => lifted'[q] \/ emergencyCutoff'
            /\ pc'[q] = "allow" \/ Forwarded(q)' => lifted'[q]
  <2>1. PICK o \in IF healthy THEN {"ok"} ELSE Outcomes :
           pc' = [pc EXCEPT ![r] = IF o = "abort" THEN "idle" ELSE o]
    BY <1>4 DEF Forward
  <2>2. o \in {"failed", "slow", "ok", "other", "abort"}
    BY OutcomesAssumption
  <2>3. pc[r] = "forward" /\ UNCHANGED <<lifted, emergencyCutoff>>
    BY <1>4 DEF Forward, breakerVars
  <2>4. QED
    BY <2>1, <2>2, <2>3
<1>5. ASSUME NEW r \in Reqs, ReportFailure(r) \/ ReportSuccess(r)
      PROVE /\ pc'[q] = "gate" => lifted'[q] \/ emergencyCutoff'
            /\ pc'[q] = "allow" \/ Forwarded(q)' => lifted'[q]
  <2>1. emergencyCutoff' = emergencyCutoff
    BY <1>5 DEF ReportFailure, ReportSuccess, RecordFailure, RecordSuccess,
                RecordSuccessHalfOpen, RecordSuccessClosed, RecordSuccessOpen,
                breakerVars
  <2>2. \/ pc' = [pc EXCEPT ![r] = "lookup"]
        \/ pc' = [pc EXCEPT ![r] = "store"]
    BY <1>5 DEF ReportFailure, ReportSuccess
  <2>3. lifted' = lifted
    BY <1>5 DEF ReportFailure, ReportSuccess
  <2>4. QED
    BY <2>1, <2>2, <2>3
<1>6. ASSUME NEW r \in Reqs, Store(r) \/ FlushOther(r) \/ Lookup(r)
      PROVE /\ pc'[q] = "gate" => lifted'[q] \/ emergencyCutoff'
            /\ pc'[q] = "allow" \/ Forwarded(q)' => lifted'[q]
  <2>1. UNCHANGED <<lifted, emergencyCutoff>>
    BY <1>6 DEF Store, FlushOther, Lookup, breakerVars
  <2>2. \/ pc' = [pc EXCEPT ![r] = "idle"]
        \/ pc' = [pc EXCEPT ![r] = "missed"]
    BY <1>6 DEF Store, FlushOther, Lookup
  <2>3. QED
    BY <2>1, <2>2
<1>7. ASSUME NEW enabled \in BOOLEAN, Cutoff(enabled)
      PROVE /\ pc'[q] = "gate" => lifted'[q] \/ emergencyCutoff'
            /\ pc'[q] = "allow" \/ Forwarded(q)' => lifted'[q]
  BY <1>7 DEF Cutoff, SetEmergencyCutoff
<1>8. CASE Sweeper \/ Shutdown \/ Elapse \/ UpstreamChanges
  BY <1>8 DEF Sweeper, Shutdown, Elapse, UpstreamChanges, BreakerElapse,
              breakerVars, requestVars
<1>9. CASE UNCHANGED vars
  BY <1>9 DEF vars, breakerVars, requestVars
<1>10. QED
  BY <1>1, <1>2, <1>3, <1>4, <1>5, <1>6, <1>7, <1>8, <1>9 DEF Next, Handler

\* Set, the sweep and the clock keep the map and the history together.
LEMMA StoredStep == TypeOK /\ StoredInv /\ [Next]_vars => StoredInv'
<1> SUFFICES ASSUME TypeOK, StoredInv, [Next]_vars, NEW k \in Keys,
                    lastStored'[k] <= Grace
             PROVE k \in DOMAIN entries' /\ entries'[k].past = lastStored'[k]
  BY DEF StoredInv, Cached
<1> USE CacheAssumption DEF TypeOK, StoredInv, Cached
<1>1. ASSUME NEW r \in Reqs, Store(r)
      PROVE k \in DOMAIN entries' /\ entries'[k].past = lastStored'[k]
  <2>1. PICK ttl \in TTLs, v \in Values :
           /\ Set(uri[r], v, ttl)
           /\ lastStored' = [lastStored EXCEPT ![uri[r]] = -ttl]
    BY <1>1 DEF Store
  <2>2. CASE k = uri[r]
    BY <2>1, <2>2 DEF Set
  <2>3. CASE k # uri[r]
    BY <2>1, <2>3 DEF Set
  <2>4. QED
    BY <2>2, <2>3
<1>2. CASE Sweep /\ lastStored' = lastStored
  BY <1>2 DEF Sweep, EvictExpired
<1>3. CASE Elapse
  <2>0. MaxPast \in Int /\ Grace < MaxPast
    BY DEF MaxPast
  <2>1. lastStored[k] \in Int
    OBVIOUS
  <2>2. lastStored'[k] = IF lastStored[k] < MaxPast THEN lastStored[k] + 1
                                                   ELSE lastStored[k]
    BY <1>3 DEF Elapse
  <2>3. lastStored[k] <= Grace
    BY <2>0, <2>1, <2>2
  <2>4. k \in DOMAIN entries /\ entries[k].past = lastStored[k]
    BY <2>3
  <2>5. entries[k] \in Entry
    BY <2>4 DEF CacheTypeOK
  <2>6. /\ k \in DOMAIN entries'
        /\ entries'[k] = [entries[k] EXCEPT
                            !.past = IF @ < MaxPast THEN @ + 1 ELSE @]
    BY <1>3, <2>4 DEF Elapse, CacheElapse
  <2>7. entries'[k].past = IF entries[k].past < MaxPast
                             THEN entries[k].past + 1 ELSE entries[k].past
    BY <2>5, <2>6, Zenon DEF Entry
  <2>8. QED
    BY <2>2, <2>4, <2>6, <2>7
<1>4. CASE UNCHANGED <<entries, lastStored>>
  BY <1>4
<1>5. QED
  BY <1>1, <1>2, <1>3, <1>4
  DEF Next, Handler, Arrive, Gate, Allow, Forward, ReportFailure,
      ReportSuccess, FlushOther, Lookup, Cutoff, Sweeper, SweeperStops, Shutdown,
      Close, UpstreamChanges, vars, cacheVars, requestVars

LEMMA ForwardInvStep == ForwardInv /\ [Next]_vars => ForwardInv'
<1> SUFFICES ASSUME ForwardInv, [Next]_vars PROVE ForwardInv'
  OBVIOUS
<1>1. BreakerInv'
  BY BreakerInvStep, ForwardStepIsBreakerStep DEF ForwardInv
<1>2. CacheInv'
  BY CacheInvStep, ForwardStepIsCacheStep DEF ForwardInv
<1>3. TypeOK'
  BY <1>1, <1>2, RequestTypeStep DEF ForwardInv, BreakerInv, CacheInv
<1>4. CutoffInv' /\ StoredInv'
  BY CutoffStep, StoredStep DEF ForwardInv
<1>5. QED
  BY <1>1, <1>2, <1>3, <1>4 DEF ForwardInv

LEMMA ForwardInvariant == Spec => []ForwardInv
  BY ForwardInvInit, ForwardInvStep, PTL DEF Spec

-----------------------------------------------------------------------------
(* Theorems of the composition *)

\* Whatever the handlers of concurrent requests, the administrator and the
\* clock do, the breaker sees a sequence of calls of its own methods: what is
\* proved of BreakerSpec holds of the gateway.
THEOREM ForwardImplementsBreaker == Spec => BreakerSpec
<1>1. Init => BreakerInit
  BY DEF Init
<1>2. QED
  BY <1>1, ForwardStepIsBreakerStep, PTL DEF Spec, BreakerSpec

\* The same for the cache and its sweeper; its fairness is an assumption on
\* the scheduler, not a matter of the handlers.
THEOREM ForwardImplementsCache == Spec => CacheInit /\ [][CacheNext]_cacheVars
<1>1. Init => CacheInit
  BY DEF Init
<1>2. ForwardInv => TypeOK
  BY DEF ForwardInv
<1>3. QED
  BY <1>1, <1>2, ForwardInvariant, ForwardStepIsCacheStep, PTL DEF Spec

\* So the promises of the breaker hold of the gateway with any number of
\* concurrent handlers between any two of whose calls another one may run:
\* the counts, the probe slot, the two probes of a recovery and the order of
\* its transitions ...
THEOREM ForwardBreakerPromises ==
    Spec => /\ []ClosedIsHealthy /\ []ProbeSlotOnlyHalfOpen
            /\ []RecoveryProbesBounded /\ OrderlyTransitions
  BY ForwardImplementsBreaker, BreakerClosedIsHealthy, BreakerProbeSlot,
     BreakerRecoveryProbes, BreakerOrderlyTransitions, PTL

\* ... and so do the promises of the cache, without any fairness.
THEOREM ForwardCachePromises == Spec => []StalenessBounded /\ KeptThroughGrace
<1>1. ForwardInv => CacheInv
  BY DEF ForwardInv
<1>2. QED
  BY <1>1, ForwardInvariant, ForwardImplementsCache, CacheInvBounds, KeptStep, PTL
  DEF KeptThroughGrace, Kept

\* Breaker, cache and handlers (the labels of serveInternal's steps, the keys
\* and the histories) keep their types for any number of requests.
THEOREM ForwardTypeCorrect == Spec => []TypeOK
  BY ForwardInvariant, PTL DEF ForwardInv

\* The cutoff shields upstream: a request that arrives while it is set and
\* never sees it lifted is not forwarded, though AllowRequest reads the flag
\* once, before the lock.
THEOREM ForwardCutoffShields == Spec => []CutoffShields
<1>1. ForwardInv => CutoffShields
  BY DEF ForwardInv, CutoffInv, CutoffShields
<1>2. QED
  BY <1>1, ForwardInvariant, PTL

\* A refused or failed request is left without an answer from the cache only
\* when the last response stored for its key is beyond its grace period.
THEOREM ForwardFallbackAvailable == Spec => FallbackAvailable
<1> DEFINE Available ==
       \A r \in Reqs : (pc[r] = "lookup" /\ pc'[r] = "missed")
                         => lastStored[uri[r]] > Grace
<1>1. ForwardInv /\ [Next]_vars => [Available]_vars
  <2> SUFFICES ASSUME ForwardInv, Next, NEW q \in Reqs,
                      pc[q] = "lookup", pc'[q] = "missed"
               PROVE lastStored[uri[q]] > Grace
    OBVIOUS
  <2> USE DEF ForwardInv, TypeOK, Goto
  <2>1. ASSUME NEW r \in Reqs, Lookup(r)
        PROVE lastStored[uri[q]] > Grace
    <3>1. q = r /\ ~Cached(uri[q])
      BY <2>1 DEF Lookup
    <3>2. uri[q] \in Keys /\ lastStored[uri[q]] \in Int
      OBVIOUS
    <3>3. QED
      BY <3>1, <3>2, CacheAssumption DEF StoredInv
  <2>2. ASSUME NEW r \in Reqs, Forward(r)
        PROVE FALSE
    <3>1. pc[r] = "forward" /\ pc'[q] = pc[q]
      BY <2>2 DEF Forward
    <3>2. QED
      BY <3>1
  <2>3. CASE \E r \in Reqs : \/ Arrive(r) \/ Gate(r) \/ Allow(r)
                             \/ ReportFailure(r) \/ ReportSuccess(r) \/ Store(r)
                             \/ FlushOther(r)
    BY <2>3 DEF Arrive, Gate, Allow, ReportFailure, ReportSuccess, Store,
                FlushOther, Resting
  <2>4. CASE pc' = pc
    BY <2>4
  <2>5. QED
    BY <2>1, <2>2, <2>3, <2>4
    DEF Next, Handler, Cutoff, Sweeper, Shutdown, Elapse, UpstreamChanges,
        requestVars
<1>2. QED
  BY <1>1, ForwardInvariant, PTL DEF Spec, FallbackAvailable

\* If every forward ends in a result that is reported (a 2xx or 3xx, a failure
\* or a late answer), a taken probe slot has an owner that gives it back.  The
\* hypothesis is the whole point: with a 4xx or an aborted copy the slot is
\* leaked, as the run probe_leak shows.
THEOREM ForwardProbeSlotHasOwner ==
    ASSUME Outcomes \subseteq {"failed", "slow", "ok"}
    PROVE  Spec => []ProbeSlotHasOwner
<1> DEFINE Owner(r) == pc[r] \in {"forward", "failed", "slow", "ok"}
<1>1. Init => ProbeSlotHasOwner
  BY DEF Init, BreakerInit, ProbeSlotHasOwner
<1>2. ForwardInv /\ ProbeSlotHasOwner /\ [Next]_vars => ProbeSlotHasOwner'
  <2> SUFFICES ASSUME ForwardInv, ProbeSlotHasOwner, [Next]_vars, halfOpenProbing'
               PROVE \E r \in Reqs : Owner(r)'
    BY DEF ProbeSlotHasOwner
  <2> USE DEF ForwardInv, TypeOK, Goto
  <2>1. ASSUME NEW r \in Reqs, Arrive(r) \/ Gate(r) \/ Store(r) \/ FlushOther(r)
                               \/ Lookup(r)
        PROVE \E q \in Reqs : Owner(q)'
    <3>1. halfOpenProbing' = halfOpenProbing
      BY <2>1 DEF Arrive, Gate, Store, FlushOther, Lookup, breakerVars,
                  breakerFields
    <3>2. ~Owner(r) /\ \A q \in Reqs \ {r} : pc'[q] = pc[q]
      BY <2>1 DEF Arrive, Gate, Store, FlushOther, Lookup, Resting
    <3>3. QED
      BY <3>1, <3>2 DEF ProbeSlotHasOwner
  <2>2. ASSUME NEW r \in Reqs, Allow(r)
        PROVE \E q \in Reqs : Owner(q)'
    <3>1. CASE AllowGranted /\ pc' = [pc EXCEPT ![r] = "forward"]
      BY <3>1
    <3>2. CASE AllowDenied /\ pc' = [pc EXCEPT ![r] = "lookup"]
      <4>1. halfOpenProbing' = halfOpenProbing
        BY <3>2 DEF AllowDenied, breakerVars, breakerFields
      <4>2. pc[r] = "allow" /\ \A q \in Reqs \ {r} : pc'[q] = pc[q]
        BY <2>2, <3>2 DEF Allow
      <4>3. QED
        BY <4>1, <4>2 DEF ProbeSlotHasOwner
    <3>3. QED
      BY <2>2, <3>1, <3>2 DEF Allow
  <2>3. ASSUME NEW r \in Reqs, Forward(r)
        PROVE \E q \in Reqs : Owner(q)'
    <3>1. PICK o \in IF healthy THEN {"ok"} ELSE Outcomes :
             pc' = [pc EXCEPT ![r] = IF o = "abort" THEN "idle" ELSE o]
      BY <2>3 DEF Forward
    <3>2. o \in {"failed", "slow", "ok"}
      OBVIOUS
    <3>3. QED
      BY <3>1, <3>2
  <2>4. ASSUME NEW r \in Reqs, ReportFailure(r)
        PROVE FALSE
    BY <2>4 DEF ReportFailure, RecordFailure
  <2>5. ASSUME NEW r \in Reqs, ReportSuccess(r)
        PROVE FALSE
    BY <2>5 DEF ReportSuccess, RecordSuccess, RecordSuccessHalfOpen,
                RecordSuccessClosed, RecordSuccessOpen, breakerVars,
                breakerFields, BreakerInv, ProbeSlotOnlyHalfOpen
  <2>6. CASE pc' = pc /\ halfOpenProbing' = halfOpenProbing
    BY <2>6 DEF ProbeSlotHasOwner
  <2>7. QED
    BY <2>1, <2>2, <2>3, <2>4, <2>5, <2>6
    DEF Next, Handler, Cutoff, SetEmergencyCutoff, Sweeper, Shutdown, Elapse,
        BreakerElapse, UpstreamChanges, vars, breakerVars, breakerFields,
        requestVars
<1>3. QED
  BY <1>1, <1>2, ForwardInvariant, PTL DEF Spec

-----------------------------------------------------------------------------
(* The metrics that the handlers report, first with the reduced breaker of *)
(* Metrics and in the end with the breaker above.                          *)

WF == INSTANCE WellFoundedInduction

\* A nonempty set of naturals has a least element.
LEMMA NatLeast ==
    ASSUME NEW T, T \subseteq Nat, T # {}
    PROVE  \E x \in T : \A y \in T : x <= y
<1> DEFINE R == {ss \in Nat \X Nat : ss[1] < ss[2]}
<1>1. WF!IsWellFoundedOn(R, Nat)
  BY WF!NatLessThanWellFounded, Zenon DEF WF!OpToRel
<1>2. PICK x \in T : \A y \in T : ~(<<y, x>> \in R)
  <2> HIDE DEF R
  <2>1. QED
    BY <1>1, WF!WFMin, Zenon
<1>3. ASSUME NEW y \in T PROVE x <= y
  <2>1. x \in Nat /\ y \in Nat /\ <<y, x>> \notin R
    BY <1>2
  <2>2. ~(y < x)
    BY <2>1, SMT
  <2>3. QED
    BY <2>1, <2>2
<1>4. QED
  BY <1>3

\* Among some of the samples one is largest: the one with fewest above it.
LEMMA LargestSample ==
    ASSUME NEW s \in Seq(Nat), NEW I, I \subseteq DOMAIN s, I # {}
    PROVE  \E j \in I : \A i \in I : s[i] <= s[j]
<1> DEFINE Higher(j) == {i \in I : s[i] > s[j]}
           Counts == {c \in Nat : \E j \in I : c = Cardinality(Higher(j))}
<1>1. DOMAIN s = 1..Len(s) /\ Len(s) \in Nat /\ \A i \in DOMAIN s : s[i] \in Nat
  OBVIOUS
<1>2. IsFiniteSet(I)
  <2>1. IsFiniteSet(1..Len(s))
    BY <1>1, FS_Interval
  <2>2. QED
    BY <1>1, <2>1, FS_Subset
<1>3. \A j \in I : IsFiniteSet(Higher(j)) /\ Cardinality(Higher(j)) \in Nat
  <2> TAKE j \in I
  <2>1. Higher(j) \subseteq I
    OBVIOUS
  <2> HIDE DEF Higher
  <2>2. IsFiniteSet(Higher(j))
    BY <1>2, <2>1, FS_Subset
  <2>3. QED
    BY <2>2, FS_CardinalityType
<1>4. Counts \subseteq Nat /\ Counts # {}
  BY <1>3
<1>5. PICK c \in Counts : \A d \in Counts : c <= d
  <2> HIDE DEF Counts
  <2>1. QED
    BY <1>4, NatLeast
<1>6. PICK j \in I : c = Cardinality(Higher(j))
  BY <1>5
<1>7. ASSUME NEW i \in I, ~(s[i] <= s[j]) PROVE FALSE
  <2>1. i \in Higher(j) /\ i \notin Higher(i) /\ Higher(i) \subseteq Higher(j)
    BY <1>1, <1>7
  <2>2. Cardinality(Higher(i)) \in Counts
    BY <1>3
  <2> HIDE DEF Higher, Counts
  <2>3. Cardinality(Higher(i)) < Cardinality(Higher(j))
    BY <1>3, <2>1, FS_Subset
  <2>4. c <= Cardinality(Higher(i))
    BY <1>5, <2>2
  <2>5. QED
    BY <1>3, <1>6, <2>3, <2>4
<1>8. QED
  BY <1>7

LEMMA CountInterval ==
    ASSUME NEW n \in Nat
    PROVE  IsFiniteSet(1..n) /\ Cardinality(1..n) = n
<1>1. IsFiniteSet(1..n) /\ Cardinality(1..n) = IF 1 > n THEN 0 ELSE n - 1 + 1
  BY FS_Interval
<1>2. QED
  BY <1>1

LEMMA CountType ==
    ASSUME NEW s \in Seq(Nat), NEW v \in Nat
    PROVE  /\ Below(s, v) \in Nat
           /\ AtMost(s, v) \in Nat
           /\ AtMost(s, v) <= Len(s)
<1> DEFINE B == {i \in DOMAIN s : s[i] < v}
           A == {i \in DOMAIN s : s[i] <= v}
<1>1. DOMAIN s = 1..Len(s) /\ Len(s) \in Nat
  OBVIOUS
<1>2. IsFiniteSet(1..Len(s)) /\ Cardinality(1..Len(s)) = Len(s)
  BY <1>1, CountInterval
<1>3. A \in SUBSET (1..Len(s)) /\ B \in SUBSET (1..Len(s))
  BY <1>1
<1>4. Below(s, v) = Cardinality(B) /\ AtMost(s, v) = Cardinality(A)
  BY Zenon DEF Below, AtMost
<1> HIDE DEF A, B
<1>5. IsFiniteSet(B)
  BY <1>2, <1>3, FS_Subset
<1>6. IsFiniteSet(A) /\ Cardinality(A) <= Cardinality(1..Len(s))
  BY <1>2, <1>3, FS_Subset
<1>7. Cardinality(A) \in Nat /\ Cardinality(B) \in Nat
  BY <1>5, <1>6, FS_CardinalityType
<1>8. QED
  BY <1>2, <1>4, <1>6, <1>7

\* The samples below v are the samples at most w, for the largest such w.
LEMMA BelowIsAtMost ==
    ASSUME NEW s \in Seq(Nat), NEW v \in Nat, Below(s, v) # 0
    PROVE  \E j \in DOMAIN s :
              s[j] < v /\ AtMost(s, s[j]) = Below(s, v)
<1> DEFINE B == {i \in DOMAIN s : s[i] < v}
<1>1. Below(s, v) = Cardinality(B)
  BY Zenon DEF Below
<1>2. B # {}
  BY <1>1, FS_EmptySet
<1>3. PICK j \in B : \A i \in B : s[i] <= s[j]
  <2>1. B \subseteq DOMAIN s
    OBVIOUS
  <2> HIDE DEF B
  <2>2. QED
    BY <1>2, <2>1, LargestSample
<1>4. {i \in DOMAIN s : s[i] <= s[j]} = B
  <2>1. \A i \in DOMAIN s : s[i] \in Nat
    OBVIOUS
  <2>2. QED
    BY <1>3, <2>1
<1>5. AtMost(s, s[j]) = Cardinality(B)
  BY <1>4, Zenon DEF AtMost
<1>6. QED
  BY <1>1, <1>3, <1>5

\* All samples are at most the largest.
LEMMA AllAtMost ==
    ASSUME NEW s \in Seq(Nat), s # <<>>
    PROVE  \E j \in DOMAIN s : AtMost(s, s[j]) = Len(s)
<1>1. DOMAIN s = 1..Len(s) /\ Len(s) \in Nat /\ DOMAIN s # {}
  OBVIOUS
<1>2. PICK j \in DOMAIN s : \A i \in DOMAIN s : s[i] <= s[j]
  BY <1>1, LargestSample
<1>3. {i \in DOMAIN s : s[i] <= s[j]} = 1..Len(s)
  BY <1>1, <1>2
<1>4. Cardinality(1..Len(s)) = Len(s)
  BY <1>1, CountInterval
<1>5. AtMost(s, s[j]) = Cardinality(1..Len(s))
  BY <1>3, Zenon DEF AtMost
<1>6. QED
  BY <1>4, <1>5

\* The definition of Sorted by CHOOSE is sound: a k-th smallest sample exists,
\* the least one that k samples do not exceed.
LEMMA SortedPlaces ==
    ASSUME NEW s \in Seq(Nat), s # <<>>, NEW k \in 1..Len(s)
    PROVE  /\ Sorted(s)[k] \in Nat
           /\ Below(s, Sorted(s)[k]) < k
           /\ k <= AtMost(s, Sorted(s)[k])
<1> DEFINE Enough == {v \in Nat : \E j \in DOMAIN s :
                                      v = s[j] /\ k <= AtMost(s, v)}
           Place(v) == Below(s, v) < k /\ k <= AtMost(s, v)
<1>0. /\ Len(s) \in Nat /\ k \in Nat /\ k >= 1 /\ k \in DOMAIN s
      /\ \A j \in DOMAIN s : s[j] \in Nat
  OBVIOUS
<1>1. Enough # {}
  <2>1. PICK j \in DOMAIN s : AtMost(s, s[j]) = Len(s)
    BY AllAtMost
  <2>2. QED
    BY <1>0, <2>1
<1>2. PICK v \in Enough : \A w \in Enough : v <= w
  <2>1. Enough \subseteq Nat
    OBVIOUS
  <2> HIDE DEF Enough
  <2>2. QED
    BY <1>1, <2>1, NatLeast
<1>3. Below(s, v) < k
  <2> SUFFICES ASSUME ~(Below(s, v) < k) PROVE FALSE
    OBVIOUS
  <2>1. v \in Nat
    OBVIOUS
  <2>2. Below(s, v) \in Nat
    BY <2>1, CountType
  <2>3. Below(s, v) # 0
    BY <1>0, <2>2
  <2>4. PICK j \in DOMAIN s :
           s[j] < v /\ AtMost(s, s[j]) = Below(s, v)
    BY <2>1, <2>3, BelowIsAtMost
  <2>5. s[j] \in Enough
    BY <1>0, <2>2, <2>4
  <2>6. v <= s[j]
    BY <1>2, <2>5
  <2>7. QED
    BY <1>0, <2>1, <2>4, <2>6
<1>4. v \in Range(s) /\ Place(v)
  BY <1>2, <1>3 DEF Range
<1>5. Range(s) \subseteq Nat
  BY <1>0 DEF Range
<1>6. Sorted(s)[k] = CHOOSE w \in Range(s) : Place(w)
  BY <1>0 DEF Sorted
<1> HIDE DEF Place
<1>7. Sorted(s)[k] \in Range(s) /\ Place(Sorted(s)[k])
  BY <1>4, <1>6, Zenon
<1>8. QED
  BY <1>5, <1>7 DEF Place

\* The index of calculatePercentiles is the right one for every number of
\* samples: idx < n, and idx is the quotient, rounded down.
LEMMA PercentileRanked ==
    ASSUME NEW s \in Seq(Nat), s # <<>>, NEW pct \in {95, 99}
    PROVE  RankedRight(s, pct)
<1> DEFINE n == Len(s)
           idx == (n * pct) \div 100
           p == Percentile(s, pct)
<1>1. n \in Nat /\ n >= 1
  OBVIOUS
<1>2. idx \in Nat /\ idx < n /\ 100 * idx <= pct * n /\ pct * n < 100 * (idx + 1)
  <2> HIDE DEF n
  <2>1. CASE pct = 95
    BY <1>1, <2>1
  <2>2. CASE pct = 99
    BY <1>1, <2>2
  <2>3. QED
    BY <2>1, <2>2
<1>3. p = Sorted(s)[idx + 1]
  <2>1. p = IF n = 0 THEN 0 ELSE Sorted(s)[IF idx >= n THEN n ELSE idx + 1]
    BY Zenon DEF Percentile
  <2> HIDE DEF n, idx, p
  <2>2. QED
    BY <1>1, <1>2, <2>1
<1>4. p \in Nat /\ Below(s, p) < idx + 1 /\ idx + 1 <= AtMost(s, p)
  <2>1. idx + 1 \in 1..Len(s)
    <3> HIDE DEF idx
    <3>1. QED
      BY <1>1, <1>2
  <2> HIDE DEF idx, p
  <2>2. QED
    BY <1>3, <2>1, SortedPlaces
<1>5. Below(s, p) \in Nat /\ AtMost(s, p) \in Nat
  <2> HIDE DEF p
  <2>1. QED
    BY <1>4, CountType
<1>6. /\ 100 * Below(s, p) <= pct * n
      /\ 100 * (n - AtMost(s, p)) <= (100 - pct) * n
  <2> HIDE DEF n, idx, p
  <2>1. CASE pct = 95
    BY <1>1, <1>2, <1>4, <1>5, <2>1
  <2>2. CASE pct = 99
    BY <1>1, <1>2, <1>4, <1>5, <2>2
  <2>3. QED
    BY <2>1, <2>2
<1>7. QED
  BY <1>6, Zenon DEF RankedRight

\* The types that the steps need, and the property itself: whoever empties
\* the gauge is in "set" until something is in it again.
MeterInv ==
    /\ recentLatencies \in Seq(Nat)
    /\ step \in [Handlers -> {"idle", "reset", "set", "forward"}]
    /\ seen \in [Handlers -> CircuitStates]
    /\ GaugeShowsLastSet

LEMMA MeterInvInit == MetricsInit => MeterInv
  BY DEF MetricsInit, MeterInv, GaugeShowsLastSet, CircuitStates

LEMMA MeterInvStep ==
    ASSUME breaker \in CircuitStates, MeterInv, [MetricsNext]_metricsVars
    PROVE  MeterInv'
<1> USE MetricsAssumption DEF MeterInv, GaugeShowsLastSet, CircuitStates, GoOn
<1>1. CASE MoveBreaker
  BY <1>1 DEF MoveBreaker
<1>2. CASE \E enabled \in BOOLEAN : SetCutoff(enabled)
  BY <1>2 DEF SetCutoff
<1>3. ASSUME NEW r \in Handlers, AllowRequest(r) PROVE MeterInv'
  BY <1>3 DEF AllowRequest, Told
<1>4. ASSUME NEW r \in Handlers, ResetGauge(r) PROVE MeterInv'
  BY <1>4 DEF ResetGauge
<1>5. ASSUME NEW r \in Handlers, SetGauge(r) PROVE MeterInv'
  BY <1>5 DEF SetGauge
<1>6. ASSUME NEW r \in Handlers, Refuse(r) PROVE MeterInv'
  BY <1>6 DEF Refuse
<1>7. ASSUME NEW r \in Handlers, NEW seconds \in Latencies,
             RecordLatency(r, seconds)
      PROVE  MeterInv'
  <2>1. recentLatencies' \in Seq(Nat)
    <3>1. CASE Len(recentLatencies) >= MaxSamples
      BY <1>7, <3>1 DEF RecordLatency
    <3>2. CASE ~(Len(recentLatencies) >= MaxSamples)
      BY <1>7, <3>2 DEF RecordLatency
    <3>3. QED
      BY <3>1, <3>2
  <2>2. QED
    BY <1>7, <2>1 DEF RecordLatency
<1>8. CASE UNCHANGED metricsVars
  BY <1>8 DEF metricsVars
<1>9. QED
  BY <1>1, <1>2, <1>3, <1>4, <1>5, <1>6, <1>7, <1>8 DEF MetricsNext, Handle

LEMMA MeterInvariant ==
    MetricsSpec => [](breaker \in CircuitStates /\ MeterInv)
<1>1. MetricsInit => breaker \in CircuitStates
  BY DEF MetricsInit, CircuitStates
<1>2. breaker \in CircuitStates /\ [MetricsNext]_metricsVars
        => (breaker \in CircuitStates)'
  BY DEF MetricsNext, metricsVars, CircuitStates, MoveBreaker, SetCutoff,
         AllowRequest, Handle, ResetGauge, SetGauge, Refuse, RecordLatency
<1>3. QED
  BY <1>1, <1>2, MeterInvInit, MeterInvStep, PTL DEF MetricsSpec

\* Between requests the gauge is never blank and shows the state that
\* SetCircuitBreakerStateMetric set last, for any number of handlers.
THEOREM MeterGaugeShowsLastSet == MetricsSpec => []GaugeShowsLastSet
<1>1. MeterInv => GaugeShowsLastSet
  BY DEF MeterInv
<1>2. QED
  BY <1>1, MeterInvariant, PTL

\* The percentiles of GetSnapshot have the rank they claim, for every capacity
\* of recentLatencies, every latency and every number of samples.
THEOREM MeterPercentileRank == MetricsSpec => []PercentileRank
<1>1. MeterInv => PercentileRank
  <2> SUFFICES ASSUME MeterInv, NEW pct \in {95, 99}
               PROVE  /\ recentLatencies # <<>>
                           => RankedRight(recentLatencies, pct)
                      /\ \A n \in SampleSizes : \A low \in 0..n :
                           RankedRight(LowThenHigh(n, low), pct)
    BY DEF PercentileRank
  <2>1. recentLatencies # <<>> => RankedRight(recentLatencies, pct)
    BY PercentileRanked DEF MeterInv
  <2>2. ASSUME NEW n \in SampleSizes, NEW low \in 0..n
        PROVE  RankedRight(LowThenHigh(n, low), pct)
    <3>1. n \in Nat /\ n # 0
      BY MetricsAssumption
    <3>2. LowThenHigh(n, low) \in Seq(Nat) /\ LowThenHigh(n, low) # <<>>
      BY <3>1 DEF LowThenHigh
    <3>3. QED
      BY <3>2, PercentileRanked
  <2>3. QED
    BY <2>1, <2>2
<1>2. QED
  BY <1>1, MeterInvariant, PTL

\* Metrics with the breaker above for its own, and the same handlers.
Meter == INSTANCE Metrics
            WITH Handlers <- Reqs, breaker <- state, cutoff <- emergencyCutoff

\* The handlers report while the breaker's methods are called.
meterVars == <<gauge, recentLatencies, step, seen, lastSet>>

MeteredNext ==
    \/ BreakerNext /\ UNCHANGED meterVars
    \/ /\ \E r \in Reqs : Meter!AllowRequest(r) \/ Meter!Handle(r)
       /\ UNCHANGED breakerVars

\* Metrics reduces the breaker to three moves and the cutoff.  Nothing is lost
\* by it: any interleaving of the breaker's own methods with the handlers'
\* reports is a behaviour of Metrics.
THEOREM MeteredImplementsMetrics ==
    BreakerInit /\ Meter!MetricsInit /\ [][MeteredNext]_<<breakerVars, meterVars>>
      => Meter!MetricsSpec
<1>1. ASSUME [BreakerNext]_breakerVars, BreakerTypeOK, UNCHANGED meterVars
      PROVE  [Meter!MetricsNext]_Meter!metricsVars
  <2> USE <1>1 DEF Meter!MetricsNext, Meter!metricsVars, Meter!MoveBreaker,
                   meterVars, BreakerTypeOK, CircuitState
  <2>1. ASSUME NEW enabled \in BOOLEAN, SetEmergencyCutoff(enabled)
        PROVE [Meter!MetricsNext]_Meter!metricsVars
    BY <2>1 DEF Meter!SetCutoff, SetEmergencyCutoff, breakerFields
  <2>2. CASE UNCHANGED <<state, emergencyCutoff>>
    BY <2>2
  <2>3. CASE \/ AllowAfterCooldown \/ RecordSuccess
             \/ \E slow \in BOOLEAN : RecordFailure(slow)
    <3> USE <2>3 DEF AllowAfterCooldown, RecordSuccess, RecordSuccessHalfOpen,
                     RecordSuccessClosed, RecordSuccessOpen, RecordFailure,
                     breakerVars, breakerFields
    <3>1. emergencyCutoff' = emergencyCutoff
      OBVIOUS
    <3>2. \/ state \in {"CLOSED", "HALF-OPEN"} /\ state' = "OPEN"
          \/ state = "OPEN" /\ state' = "HALF-OPEN"
          \/ state = "HALF-OPEN" /\ state' = "CLOSED"
          \/ state' = state
      OBVIOUS
    <3>3. QED
      BY <3>1, <3>2
  <2>4. QED
    BY <2>1, <2>2, <2>3
    DEF BreakerNext, AllowGranted, breakerVars, breakerFields, AllowClosed,
        AllowProbe, AllowDenied, BreakerElapse
<1>2. BreakerInit => BreakerInv
  BY BreakerInvInit
<1>3. [MeteredNext]_<<breakerVars, meterVars>> => [BreakerNext]_breakerVars
  BY DEF MeteredNext
<1>4. BreakerInv /\ [MeteredNext]_<<breakerVars, meterVars>> => BreakerInv'
  BY <1>3, BreakerInvStep
<1>5. BreakerInv /\ [MeteredNext]_<<breakerVars, meterVars>>
        => [Meter!MetricsNext]_Meter!metricsVars
  <2> SUFFICES ASSUME BreakerInv, [MeteredNext]_<<breakerVars, meterVars>>
               PROVE  [Meter!MetricsNext]_Meter!metricsVars
    OBVIOUS
  <2>1. CASE [BreakerNext]_breakerVars /\ UNCHANGED meterVars
    BY <1>1, <2>1 DEF BreakerInv
  <2>2. CASE \E r \in Reqs : Meter!AllowRequest(r) \/ Meter!Handle(r)
    BY <2>2 DEF Meter!MetricsNext
  <2>3. QED
    BY <2>1, <2>2 DEF MeteredNext
<1>6. QED
  BY <1>2, <1>4, <1>5, PTL DEF Meter!MetricsSpec
=============================================================================
