---------------------------- MODULE SlidingWindow ----------------------------
(***************************************************************************)
(* What the Limiter interface of src/internal/ratelimit/limiter.go         *)
(* promises of a dual-threshold sliding window, with nothing of how it is  *)
(* kept: the decision on a request is a function of all the requests of    *)
(* the key that were ever let through, of the clock and of the freeze.     *)
(***************************************************************************)
EXTENDS Integers, Sequences, FiniteSets

CONSTANTS ApiKeys, SoftLimit, HardLimit, Window

VARIABLES now,     \* the clock, in seconds
          frozen,  \* whether bursts are frozen
          status,  \* the last decision
          grants   \* times of the requests let through, per key

slidingVars == <<now, frozen, status, grants>>

\* The requests of key k let through in the last Window seconds
InWindow(k) ==
    Cardinality({i \in 1..Len(grants[k]) : grants[k][i] > now - Window})

Decision(k) ==
    IF InWindow(k) < SoftLimit THEN "NORMAL"
    ELSE IF InWindow(k) < HardLimit /\ ~frozen THEN "BURST"
    ELSE "BLOCKED"

SlidingInit ==
    /\ now = 0
    /\ frozen = FALSE
    /\ status = "NORMAL"
    /\ grants = [k \in ApiKeys |-> <<>>]

\* A request is decided, and remembered unless it is blocked.
Decide(k) ==
    /\ status' = Decision(k)
    /\ grants' = IF status' = "BLOCKED" THEN grants ELSE [grants EXCEPT ![k] = Append(@, now)]
    /\ UNCHANGED <<now, frozen>>

SetFrozen(value) ==
    /\ frozen' = value
    /\ UNCHANGED <<now, status, grants>>

SlidingElapse ==
    /\ now' = now + 1
    /\ UNCHANGED <<frozen, status, grants>>

SlidingNext ==
    \/ \E k \in ApiKeys : Decide(k)
    \/ \E value \in BOOLEAN : SetFrozen(value)
    \/ SlidingElapse

SlidingSpec == SlidingInit /\ [][SlidingNext]_slidingVars
=============================================================================
