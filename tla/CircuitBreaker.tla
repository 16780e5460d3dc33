--------------------------- MODULE CircuitBreaker ---------------------------
(***************************************************************************)
(* The upstream circuit breaker, type CircuitBreaker of                    *)
(* src/internal/cache/cache.go.  Each method that takes cb.mu is one       *)
(* action, because the mutex makes its body atomic.  The one read outside  *)
(* the mutex, emergencyCutoff.Load() at the top of AllowRequest, is an     *)
(* operator of its own (CutoffLoad), so that a caller can be interleaved   *)
(* between it and the locked part.                                         *)
(*                                                                         *)
(* BreakerSpec is the breaker under its most general client: any method,   *)
(* in any order.  ProxyForward drives the same actions from the handlers.  *)
(*                                                                         *)
(* Time.  lastStateChange is only ever used as now.Sub(lastStateChange) >= *)
(* cooldown, so the model keeps that difference, "age", counted up to      *)
(* Cooldown.  consecutiveFailures is only compared with failureThreshold,  *)
(* so it is counted up to FailureThreshold.                                *)
(***************************************************************************)
EXTENDS Naturals

CONSTANTS FailureThreshold,  \* cb.failureThreshold
          Cooldown           \* cb.cooldown, in ticks

\* NewCircuitBreaker replaces values that are not positive by defaults.
ASSUME BreakerAssumption ==
    /\ FailureThreshold \in Nat \ {0}
    /\ Cooldown \in Nat \ {0}

VARIABLES state,                 \* cb.state
          consecutiveFailures,   \* cb.consecutiveFailures, up to FailureThreshold
          consecutiveSuccesses,  \* cb.consecutiveSuccesses
          age,                   \* time since cb.lastStateChange, up to Cooldown
          emergencyCutoff,       \* cb.emergencyCutoff
          halfOpenProbing,       \* cb.halfOpenProbing
          probes                 \* history: requests allowed since the last
                                 \* OPEN -> HALF-OPEN transition

breakerFields == <<state, consecutiveFailures, consecutiveSuccesses, age,
                   halfOpenProbing, probes>>
breakerVars == <<breakerFields, emergencyCutoff>>

CircuitState == {"CLOSED", "HALF-OPEN", "OPEN"}

\* const in RecordSuccess: successes that close a half-open breaker.
SuccessesToClose == 2

CountFailure(n) == IF n < FailureThreshold THEN n + 1 ELSE n

-----------------------------------------------------------------------------
\* NewCircuitBreaker
BreakerInit ==
    /\ state = "CLOSED"
    /\ consecutiveFailures = 0
    /\ consecutiveSuccesses = 0
    /\ age = 0
    /\ emergencyCutoff = FALSE
    /\ halfOpenProbing = FALSE
    /\ probes = 0

SetEmergencyCutoff(enabled) ==
    /\ emergencyCutoff' = enabled
    /\ UNCHANGED breakerFields

\* AllowRequest, before the lock: a cutoff refuses the request here.
CutoffLoad == emergencyCutoff

\* AllowRequest, under the lock, when it returns (true, _).
AllowClosed ==
    /\ state = "CLOSED"
    /\ UNCHANGED breakerVars

\* Slip: the counts of the trip survive into the recovery.
AllowAfterCooldownKeepsCounts ==
    /\ state = "OPEN"
    /\ age >= Cooldown
    /\ state' = "HALF-OPEN"
    /\ age' = 0
    /\ halfOpenProbing' = TRUE
    /\ probes' = 1
    /\ UNCHANGED <<consecutiveSuccesses, consecutiveFailures, emergencyCutoff>>

AllowAfterCooldown ==
    /\ state = "OPEN"
    /\ age >= Cooldown
    /\ state' = "HALF-OPEN"
    /\ age' = 0
    /\ consecutiveSuccesses' = 0
    /\ consecutiveFailures' = 0
    /\ halfOpenProbing' = TRUE
    /\ probes' = 1
    /\ UNCHANGED emergencyCutoff

\* Slip: the slot is stored, not compared and swapped.
AllowProbeWithoutCAS ==
    /\ state = "HALF-OPEN"
    /\ halfOpenProbing' = TRUE
    /\ probes' = probes + 1
    /\ UNCHANGED <<state, consecutiveFailures, consecutiveSuccesses, age,
                   emergencyCutoff>>

AllowProbe ==
    /\ state = "HALF-OPEN"
    /\ ~halfOpenProbing
    /\ halfOpenProbing' = TRUE
    /\ probes' = probes + 1
    /\ UNCHANGED <<state, consecutiveFailures, consecutiveSuccesses, age,
                   emergencyCutoff>>

AllowGranted == AllowClosed \/ AllowAfterCooldown \/ AllowProbe

\* AllowRequest, under the lock, when it returns (false, _).
AllowDenied ==
    /\ \/ state = "OPEN" /\ age < Cooldown
       \/ state = "HALF-OPEN" /\ halfOpenProbing
    /\ UNCHANGED breakerVars

RecordSuccessHalfOpen ==
    /\ state = "HALF-OPEN"
    /\ consecutiveSuccesses' = consecutiveSuccesses + 1
    /\ halfOpenProbing' = FALSE
    /\ IF consecutiveSuccesses' >= SuccessesToClose
         THEN /\ state' = "CLOSED"
              /\ consecutiveFailures' = 0
              /\ age' = 0
         ELSE UNCHANGED <<state, consecutiveFailures, age>>
    /\ UNCHANGED <<emergencyCutoff, probes>>

\* Slip: every success is counted, not only those of a recovery.
RecordSuccessClosedCounts ==
    /\ state = "CLOSED"
    /\ consecutiveSuccesses' = consecutiveSuccesses + 1
    /\ consecutiveFailures' = 0
    /\ UNCHANGED <<state, age, emergencyCutoff, halfOpenProbing, probes>>

RecordSuccessClosed ==
    /\ state = "CLOSED"
    /\ consecutiveFailures' = 0
    /\ UNCHANGED <<state, consecutiveSuccesses, age, emergencyCutoff,
                   halfOpenProbing, probes>>

\* Slip: a late success closes a tripped breaker.
RecordSuccessOpenCloses ==
    /\ state = "OPEN"
    /\ state' = "CLOSED"
    /\ consecutiveFailures' = 0
    /\ age' = 0
    /\ UNCHANGED <<consecutiveSuccesses, emergencyCutoff, halfOpenProbing, probes>>

\* A success reported while OPEN (by a request allowed earlier) is ignored.
RecordSuccessOpen ==
    /\ state = "OPEN"
    /\ UNCHANGED breakerVars

RecordSuccess ==
    RecordSuccessHalfOpen \/ RecordSuccessClosed \/ RecordSuccessOpen

\* Slip: the probe slot is not given back.
RecordFailureKeepsSlot(slow) ==
    /\ consecutiveFailures' = CountFailure(consecutiveFailures)
    /\ IF \/ state = "HALF-OPEN"
          \/ consecutiveFailures' >= FailureThreshold
          \/ slow
         THEN state' = "OPEN" /\ age' = 0
         ELSE UNCHANGED <<state, age>>
    /\ UNCHANGED <<consecutiveSuccesses, emergencyCutoff, halfOpenProbing, probes>>

\* RecordFailure(latency); slow stands for latency >= latencyThreshold.
\* In HALF-OPEN every failure trips; elsewhere the count or the latency does,
\* which also restarts the cooldown of a breaker that is already OPEN.
RecordFailure(slow) ==
    /\ consecutiveFailures' = CountFailure(consecutiveFailures)
    /\ halfOpenProbing' = FALSE
    /\ IF \/ state = "HALF-OPEN"
          \/ consecutiveFailures' >= FailureThreshold
          \/ slow
         THEN state' = "OPEN" /\ age' = 0
         ELSE UNCHANGED <<state, age>>
    /\ UNCHANGED <<consecutiveSuccesses, emergencyCutoff, probes>>

\* time.Now() moves on
BreakerElapse ==
    /\ age' = IF age < Cooldown THEN age + 1 ELSE age
    /\ UNCHANGED <<state, consecutiveFailures, consecutiveSuccesses,
                   emergencyCutoff, halfOpenProbing, probes>>

-----------------------------------------------------------------------------
BreakerNext ==
    \/ \E enabled \in BOOLEAN : SetEmergencyCutoff(enabled)
    \/ AllowGranted
    \/ AllowDenied
    \/ RecordSuccess
    \/ \E slow \in BOOLEAN : RecordFailure(slow)
    \/ BreakerElapse

BreakerSpec == BreakerInit /\ [][BreakerNext]_breakerVars

-----------------------------------------------------------------------------
(* Properties *)

\* The fields of the breaker stay in their ranges; in particular the success
\* count of RecordSuccess never passes SuccessesToClose.
BreakerTypeOK ==
    /\ state \in CircuitState
    /\ consecutiveFailures \in 0..FailureThreshold
    /\ consecutiveSuccesses \in 0..SuccessesToClose
    /\ age \in 0..Cooldown
    /\ emergencyCutoff \in BOOLEAN
    /\ halfOpenProbing \in BOOLEAN
    /\ probes \in Nat

\* A CLOSED breaker has always less than failureThreshold consecutive failures
\* on its count (no path through HALF-OPEN, and no success or failure that
\* arrives late, leaves a closed breaker one failure beyond its limit), and a
\* HALF-OPEN one has none: RecordFailure leaves it at once.
ClosedIsHealthy ==
    /\ state = "CLOSED" => consecutiveFailures < FailureThreshold
    /\ state = "HALF-OPEN" => consecutiveFailures = 0
    /\ state = "HALF-OPEN" => consecutiveSuccesses < SuccessesToClose

\* halfOpenProbing, a separate atomic, is never left set once the breaker is
\* no longer HALF-OPEN: the next recovery starts with a free probe slot.
ProbeSlotOnlyHalfOpen == halfOpenProbing => state = "HALF-OPEN"

\* A recovery exposes the upstream to at most two requests, however results
\* of older requests are interleaved with it: AllowRequest lets one through
\* per OPEN -> HALF-OPEN transition and one more per success recorded since.
RecoveryProbesBounded ==
    state = "HALF-OPEN" =>
        /\ probes \in 1..SuccessesToClose
        /\ halfOpenProbing => probes = consecutiveSuccesses + 1
        /\ ~halfOpenProbing => probes = consecutiveSuccesses

\* The breaker never jumps over HALF-OPEN: OPEN is left only after a full
\* cooldown in which nothing restarted it, and only by letting one probe
\* through; CLOSED is reached only from HALF-OPEN, by the second success.
OrderlyTransitions ==
    [][/\ (state = "OPEN" /\ state' # "OPEN") =>
            state' = "HALF-OPEN" /\ age = Cooldown /\ halfOpenProbing'
       /\ (state # "CLOSED" /\ state' = "CLOSED") =>
            state = "HALF-OPEN" /\ consecutiveSuccesses' = SuccessesToClose
       /\ (state # "HALF-OPEN" /\ state' = "HALF-OPEN") => state = "OPEN"]_breakerVars
=============================================================================
