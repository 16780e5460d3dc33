--------------------------- MODULE InMemoryLimiter ---------------------------
(***************************************************************************)
(* The dual-threshold sliding-window limiter that a gateway uses without   *)
(* Redis and falls back to when Redis fails: type InMemoryLimiter of       *)
(* src/internal/ratelimit/limiter.go.  Check runs under m.mu and is one    *)
(* action.  The limits are those of the key's tier.                        *)
(*                                                                         *)
(* grants is a history of every request let through, with which the pruned *)
(* slices of the implementation are compared.                              *)
(***************************************************************************)
EXTENDS Integers, Sequences, FiniteSets

CONSTANTS ApiKeys,
          SoftLimit,  \* softLimit
          HardLimit,  \* hardLimit
          Window,     \* windowSec
          MaxTime     \* bound: seconds that a behaviour lasts

ASSUME LimiterAssumption ==
    /\ SoftLimit \in Nat
    /\ HardLimit \in Nat
    /\ Window \in Nat \ {0}
    /\ MaxTime \in Nat

VARIABLES now,                \* time.Now().Unix()
          windows,            \* m.windows: timestamps per key, oldest first
          overages,           \* m.overages
          globalBurstFreeze,  \* m.globalBurstFreeze
          status,             \* RateLimitResult.Status of the last Check
          grants              \* history: timestamps of all requests let through

limiterVars == <<now, windows, overages, globalBurstFreeze, status, grants>>

Statuses == {"NORMAL", "BURST", "BLOCKED"}

\* No window lets more than this through.
Capacity == IF SoftLimit > HardLimit THEN SoftLimit ELSE HardLimit

\* What sort.Search promises of its result idx, for any slice: the element
\* before it fails the predicate timestamps[i] > minTime and the one at it,
\* if there is one, satisfies it.
Search(timestamps, minTime, idx) ==
    /\ idx \in 0..Len(timestamps)
    /\ idx > 0 => timestamps[idx] <= minTime
    /\ idx < Len(timestamps) => timestamps[idx + 1] > minTime

-----------------------------------------------------------------------------
\* NewInMemoryLimiter
LimiterInit ==
    /\ now = 0
    /\ windows = [k \in ApiKeys |-> <<>>]
    /\ overages = [k \in ApiKeys |-> 0]
    /\ globalBurstFreeze = FALSE
    /\ status = "NORMAL"
    /\ grants = [k \in ApiKeys |-> <<>>]

SetGlobalBurstFreeze(frozen) ==
    /\ globalBurstFreeze' = frozen
    /\ UNCHANGED <<now, windows, overages, status, grants>>

\* timestamps = append(timestamps, now); m.windows[apiKey] = timestamps
Grant(k, timestamps) ==
    /\ windows' = [windows EXCEPT ![k] = Append(timestamps, now)]
    /\ grants' = [grants EXCEPT ![k] = Append(@, now)]

CheckNormal(k, timestamps) ==
    /\ Len(timestamps) < SoftLimit
    /\ Grant(k, timestamps)
    /\ status' = "NORMAL"
    /\ UNCHANGED overages

CheckBurst(k, timestamps) ==
    /\ Len(timestamps) >= SoftLimit
    /\ Len(timestamps) < HardLimit /\ ~globalBurstFreeze
    /\ Grant(k, timestamps)
    /\ status' = "BURST"
    /\ overages' = [overages EXCEPT ![k] = @ + 1]

\* The pruned slice is not written back.
CheckBlocked(k, timestamps) ==
    /\ Len(timestamps) >= SoftLimit
    /\ Len(timestamps) >= HardLimit \/ globalBurstFreeze
    /\ status' = "BLOCKED"
    /\ UNCHANGED <<windows, overages, grants>>

\* Slip: the oldest timestamp is pruned as soon as the window is reached.
CheckPrunesEarly(k) ==
    /\ \E idx \in 0..Len(windows[k]) :
         /\ Search(windows[k], now - Window + 1, idx)
         /\ LET timestamps == SubSeq(windows[k], idx + 1, Len(windows[k]))
            IN  \/ CheckNormal(k, timestamps)
                \/ CheckBurst(k, timestamps)
                \/ CheckBlocked(k, timestamps)
    /\ UNCHANGED <<now, globalBurstFreeze>>

\* Slip: expired timestamps are counted.
CheckWithoutPruning(k) ==
    /\ LET timestamps == windows[k]
       IN  \/ CheckNormal(k, timestamps)
           \/ CheckBurst(k, timestamps)
           \/ CheckBlocked(k, timestamps)
    /\ UNCHANGED <<now, globalBurstFreeze>>

Check(k) ==
    /\ \E idx \in 0..Len(windows[k]) :
         /\ Search(windows[k], now - Window, idx)
         /\ LET timestamps == SubSeq(windows[k], idx + 1, Len(windows[k]))
            IN  \/ CheckNormal(k, timestamps)
                \/ CheckBurst(k, timestamps)
                \/ CheckBlocked(k, timestamps)
    /\ UNCHANGED <<now, globalBurstFreeze>>

LimiterElapse ==
    /\ now < MaxTime
    /\ now' = now + 1
    /\ UNCHANGED <<windows, overages, globalBurstFreeze, status, grants>>

-----------------------------------------------------------------------------
LimiterNext ==
    \/ \E frozen \in BOOLEAN : SetGlobalBurstFreeze(frozen)
    \/ \E k \in ApiKeys : Check(k)
    \/ LimiterElapse

LimiterSpec == LimiterInit /\ [][LimiterNext]_limiterVars

-----------------------------------------------------------------------------
(* Properties *)

\* The fields of the limiter keep their types and a slice never holds more
\* than Capacity timestamps: the memory per key is bounded.
LimiterTypeOK ==
    /\ now \in 0..MaxTime
    /\ windows \in [ApiKeys -> Seq(0..MaxTime)]
    /\ \A k \in ApiKeys : Len(windows[k]) <= Capacity
    /\ overages \in [ApiKeys -> Nat]
    /\ globalBurstFreeze \in BOOLEAN
    /\ status \in Statuses
    /\ grants \in [ApiKeys -> Seq(0..MaxTime)]

\* The promise of a sliding window: of any Capacity + 1 requests that Check
\* lets through for a key, the last comes at least Window after the first,
\* though Check forgets timestamps and never writes back what it pruned for a
\* request it blocks.
WindowBound ==
    \A k \in ApiKeys : \A i \in 1..(Len(grants[k]) - Capacity) :
        grants[k][i + Capacity] >= grants[k][i] + Window

Promise == INSTANCE SlidingWindow WITH frozen <- globalBurstFreeze

\* Check decides as if it had kept every timestamp: neither pruning nor the
\* expired timestamps a blocked request leaves behind ever make it stricter or
\* laxer than the window over the whole history.
KeepsPromise == Promise!SlidingSpec
=============================================================================
