------------------------------- MODULE Metrics -------------------------------
(***************************************************************************)
(* Metrics of src/internal/metrics/metrics.go where it has more state than *)
(* a counter: the labelled gauge of the breaker's state, which concurrent  *)
(* handlers reset and set in two calls, and the latencies that the         *)
(* cockpit's percentiles are computed from.  The standalone cockpit        *)
(* (src/cmd/tui/main.go) keeps 30 samples of its own in the same way, and  *)
(* its calcPercentiles is the code of calculatePercentiles again.          *)
(*                                                                         *)
(* The breaker is reduced to the moves that CircuitBreaker makes.          *)
(***************************************************************************)
EXTENDS Integers, Sequences, FiniteSets, Functions

CONSTANTS Handlers,     \* handlers of step 8 of serveInternal
          Latencies,    \* latencies, as integers
          MaxSamples,   \* capacity of recentLatencies (100 in the code)
          SampleSizes   \* lengths for which the percentiles are checked

ASSUME MetricsAssumption ==
    /\ Latencies \subseteq Nat
    /\ MaxSamples \in Nat \ {0}
    /\ SampleSizes \subseteq Nat \ {0}

VARIABLES breaker,          \* cb.state
          cutoff,           \* cb.emergencyCutoff
          gauge,            \* labels of CircuitBreakerState that have a value
          recentLatencies,
          step, seen,       \* step of each handler, and the state it was told
          lastSet           \* history: the state set last, or "none"

metricsVars == <<breaker, cutoff, gauge, recentLatencies, step, seen, lastSet>>

CircuitStates == {"CLOSED", "HALF-OPEN", "OPEN"}
GoOn(r, next) == step' = [step EXCEPT ![r] = next]

\* NewMetrics
MetricsInit ==
    /\ breaker = "CLOSED"
    /\ cutoff = FALSE
    /\ gauge = {}
    /\ recentLatencies = <<>>
    /\ step = [r \in Handlers |-> "idle"]
    /\ seen = [r \in Handlers |-> "CLOSED"]
    /\ lastSet = "none"

-----------------------------------------------------------------------------
MoveBreaker ==
    /\ \/ breaker \in {"CLOSED", "HALF-OPEN"} /\ breaker' = "OPEN"
       \/ breaker = "OPEN" /\ breaker' = "HALF-OPEN"
       \/ breaker = "HALF-OPEN" /\ breaker' = "CLOSED"
    /\ UNCHANGED <<cutoff, gauge, recentLatencies, step, seen, lastSet>>

SetCutoff(enabled) ==
    /\ cutoff' = enabled
    /\ UNCHANGED <<breaker, gauge, recentLatencies, step, seen, lastSet>>

\* The state that AllowRequest returns: OPEN under the cutoff.
Told == IF cutoff THEN "OPEN" ELSE breaker

AllowRequest(r) ==
    /\ step[r] = "idle"
    /\ seen' = [seen EXCEPT ![r] = Told]
    /\ GoOn(r, "reset")
    /\ UNCHANGED <<breaker, cutoff, gauge, recentLatencies, lastSet>>

\* Slip: only the label that is about to be set is reset.
ResetOwn(r) ==
    /\ step[r] = "reset"
    /\ gauge' = gauge \ {seen[r]}
    /\ GoOn(r, "set")
    /\ UNCHANGED <<breaker, cutoff, recentLatencies, seen, lastSet>>

\* SetCircuitBreakerStateMetric: Reset ...
ResetGauge(r) ==
    /\ step[r] = "reset"
    /\ gauge' = {}
    /\ GoOn(r, "set")
    /\ UNCHANGED <<breaker, cutoff, recentLatencies, seen, lastSet>>

\* Slip: the case of HALF-OPEN is forgotten.
SetTwoCases(r) ==
    /\ step[r] = "set"
    /\ gauge' = IF seen[r] = "HALF-OPEN" THEN gauge ELSE gauge \cup {seen[r]}
    /\ lastSet' = seen[r]
    /\ GoOn(r, "forward")
    /\ UNCHANGED <<breaker, cutoff, recentLatencies, seen>>

\* ... and Set, on the label of the state.
SetGauge(r) ==
    /\ step[r] = "set"
    /\ gauge' = gauge \cup {seen[r]}
    /\ lastSet' = seen[r]
    /\ GoOn(r, "forward")
    /\ UNCHANGED <<breaker, cutoff, recentLatencies, seen>>

\* The request is refused, and no latency is recorded ...
Refuse(r) ==
    /\ step[r] = "forward" /\ seen[r] # "CLOSED"
    /\ GoOn(r, "idle")
    /\ UNCHANGED <<breaker, cutoff, gauge, recentLatencies, seen, lastSet>>

\* ... or forwarded: RecordLatency, under latencyMu.
RecordLatency(r, seconds) ==
    /\ step[r] = "forward"
    /\ recentLatencies' =
          Append(IF Len(recentLatencies) >= MaxSamples THEN Tail(recentLatencies)
                 ELSE recentLatencies, seconds)
    /\ GoOn(r, "idle")
    /\ UNCHANGED <<breaker, cutoff, gauge, seen, lastSet>>

-----------------------------------------------------------------------------
Below(latencies, v) == Cardinality({i \in DOMAIN latencies : latencies[i] < v})
AtMost(latencies, v) == Cardinality({i \in DOMAIN latencies : latencies[i] <= v})

\* sort.Float64s on a copy: the k-th smallest sample is in place k.
Sorted(latencies) ==
    [k \in DOMAIN latencies |->
       CHOOSE v \in Range(latencies) :
          Below(latencies, v) < k /\ k <= AtMost(latencies, v)]

\* Slip: the index is taken to start at one.
PercentileFromOne(latencies, pct) ==
    LET n == Len(latencies)
        idx == (n * pct) \div 100
    IN  IF n = 0 THEN 0 ELSE Sorted(latencies)[IF idx = 0 THEN 1 ELSE idx]

\* calculatePercentiles, for one of its two percentages: the sample at the
\* (zero-based) index int(n * pct / 100), or the last one.  GetSnapshot reads
\* it under latencyMu, the lock of RecordLatency.
Percentile(latencies, pct) ==
    LET n == Len(latencies)
        idx == (n * pct) \div 100
    IN  IF n = 0 THEN 0
        ELSE Sorted(latencies)[IF idx >= n THEN n ELSE idx + 1]

Handle(r) ==
    \/ ResetGauge(r) \/ SetGauge(r) \/ Refuse(r)
    \/ \E seconds \in Latencies : RecordLatency(r, seconds)

MetricsNext ==
    \/ MoveBreaker
    \/ \E enabled \in BOOLEAN : SetCutoff(enabled)
    \/ \E r \in Handlers : AllowRequest(r) \/ Handle(r)

MetricsSpec == MetricsInit /\ [][MetricsNext]_metricsVars

\* A handler that has begun goes on; nobody has to send a request.
MetricsFairSpec == MetricsSpec /\ \A r \in Handlers : WF_metricsVars(Handle(r))

-----------------------------------------------------------------------------
(* Properties *)

\* Between requests a scrape sees the state that was set last, and not a
\* blank gauge, although every handler empties it first.  (It may see another
\* state as well: two handlers that both reset before they set leave two.)
GaugeShowsLastSet ==
    (\A r \in Handlers : step[r] # "set") /\ lastSet # "none" => lastSet \in gauge

\* Two states in the gauge do not last: once AllowRequest reports one state,
\* requests keep coming and their two calls no longer overlap, the gauge
\* shows that state and no other.
GaugeSettles ==
    \A s \in CircuitStates :
        (/\ <>[](Told = s)
         /\ <>[](Cardinality({r \in Handlers : step[r] \in {"reset", "set"}}) <= 1)
         /\ []<>(\E r \in Handlers : step[r] = "set"))
        => <>[](gauge \subseteq {s})

\* What a percentile means, whatever the arithmetic of the index: at most pct
\* percent of the samples are below it, and no more than 100 - pct percent
\* are above it.
RankedRight(latencies, pct) ==
    LET p == Percentile(latencies, pct)
        n == Len(latencies)
    IN  /\ 100 * Below(latencies, p) <= pct * n
        /\ 100 * (n - AtMost(latencies, p)) <= (100 - pct) * n

\* n samples, the first low of them 0 and the others 1.  A percentile picks an
\* element by its rank, so these decide for all samples of length n.
LowThenHigh(n, low) == [i \in 1..n |-> IF i <= low THEN 0 ELSE 1]

\* The two percentiles that GetSnapshot reports of the recorded latencies have
\* the rank they claim.  In the initial state the same is asked of samples of
\* every length in SampleSizes, longer ones than a run records.
PercentileRank ==
    \A pct \in {95, 99} :
        /\ recentLatencies # <<>> => RankedRight(recentLatencies, pct)
        /\ MetricsInit => \A n \in SampleSizes : \A low \in 0..n :
                              RankedRight(LowThenHigh(n, low), pct)
=============================================================================
