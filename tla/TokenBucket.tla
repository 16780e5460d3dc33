----------------------------- MODULE TokenBucket -----------------------------
(***************************************************************************)
(* TokenBucketLimiter of src/internal/ratelimit/token_bucket.go.           *)
(*                                                                         *)
(* Tokens are counted in shares of 1/Window, so that a refill of           *)
(* softLimit/windowSec tokens per second is softLimit shares: the          *)
(* floating-point numbers of the code without their rounding.              *)
(*                                                                         *)
(* Check takes the map's lock, releases it, and then works under the       *)
(* bucket's lock, where a burst takes the map's lock again.  No call waits *)
(* while it holds the map's lock, so what it does under it is one step;    *)
(* the bucket's lock is held from one step to another.                     *)
(***************************************************************************)
EXTENDS Integers, FiniteSets

CONSTANTS ApiKeys,
          Calls,    \* calls of Check in progress at the same time
          Limits,   \* pairs (softLimit, hardLimit) that tiers have over time
          Window,   \* windowSec
          MaxTime   \* bound: seconds that a behaviour lasts

ASSUME BucketAssumption ==
    /\ ApiKeys # {}
    /\ Limits \subseteq Nat \X Nat
    /\ Limits # {}
    /\ Window \in Nat \ {0}
    /\ MaxTime \in Nat
    /\ "none" \notin Calls

VARIABLES now,
          exists,             \* keys of tbl.buckets
          bucket,             \* the buckets: tokens, capacity, refillRate,
                              \* lastRefill
          holder,             \* the call that holds each bucket's lock
          overages,           \* tbl.overages
          globalBurstFreeze,
          pc, key, limits,    \* step and arguments of each call
          result,             \* what the last finished Check returned
          since               \* history: requests let through from second s on

vars == <<now, exists, bucket, holder, overages, globalBurstFreeze, pc, key,
          limits, result, since>>

Soft(l) == l[1]
Hard(l) == l[2]
None == "none"
Times == 0..MaxTime

\* What hardLimit - softLimit comes to, in shares
BurstCapacity(l) == IF Hard(l) > Soft(l) THEN Window * (Hard(l) - Soft(l)) ELSE 0

\* A bucket as its first request makes it
NewBucket(l) ==
    [tokens |-> Window * Hard(l), capacity |-> Window * Hard(l),
     refillRate |-> Soft(l), lastRefill |-> now]

AnyLimits == CHOOSE l \in Limits : TRUE
AnyKey == CHOOSE k \in ApiKeys : TRUE

\* NewTokenBucketLimiter
Init ==
    /\ now = 0
    /\ exists = {}
    /\ bucket = [k \in ApiKeys |-> [tokens |-> 0, capacity |-> 0, refillRate |-> 0,
                                    lastRefill |-> 0]]
    /\ holder = [k \in ApiKeys |-> None]
    /\ overages = [k \in ApiKeys |-> 0]
    /\ globalBurstFreeze = FALSE
    /\ pc = [c \in Calls |-> "idle"]
    /\ key = [c \in Calls |-> AnyKey]
    /\ limits = [c \in Calls |-> AnyLimits]
    /\ result = [status |-> "BLOCKED", count |-> 0]
    /\ since = [k \in ApiKeys |-> [s \in Times |-> 0]]

-----------------------------------------------------------------------------
Goto(c, step) == pc' = [pc EXCEPT ![c] = step]

SetGlobalBurstFreeze(frozen) ==
    /\ globalBurstFreeze' = frozen
    /\ UNCHANGED <<now, exists, bucket, holder, overages, pc, key, limits, result, since>>

\* A handler calls Check with its key and the limits its tier has now.
Begin(c, k, l) ==
    /\ pc[c] = "idle"
    /\ Goto(c, "find")
    /\ key' = [key EXCEPT ![c] = k]
    /\ limits' = [limits EXCEPT ![c] = l]
    /\ UNCHANGED <<now, exists, bucket, holder, overages, globalBurstFreeze, result, since>>

\* Slip: the bucket is made anew by every call.
FindAlwaysMakes(c) ==
    /\ pc[c] = "find"
    /\ Goto(c, "enter")
    /\ exists' = exists \cup {key[c]}
    /\ bucket' = [bucket EXCEPT ![key[c]] = NewBucket(limits[c])]
    /\ UNCHANGED <<now, holder, overages, globalBurstFreeze, key, limits, result, since>>

\* The part of Check under tbl.mu.  A bucket that exists keeps its capacity
\* and rate, whatever the limits of this call.
Find(c) ==
    /\ pc[c] = "find"
    /\ Goto(c, "enter")
    /\ exists' = exists \cup {key[c]}
    /\ bucket' = IF key[c] \in exists THEN bucket
                 ELSE [bucket EXCEPT ![key[c]] = NewBucket(limits[c])]
    /\ UNCHANGED <<now, holder, overages, globalBurstFreeze, key, limits, result, since>>

\* bucket.tokens after the refill.
Refilled(b) ==
    LET tokens == b.tokens + (now - b.lastRefill) * b.refillRate
    IN  IF tokens < b.capacity THEN tokens ELSE b.capacity

\* Store the refilled bucket less what the call consumes.
Consume(k, shares) ==
    bucket' = [bucket EXCEPT ![k] = [tokens |-> Refilled(@) - shares,
                                     capacity |-> @.capacity,
                                     refillRate |-> @.refillRate, lastRefill |-> now]]

\* A request for k is let through.
LetThrough(k) ==
    since' = [since EXCEPT ![k] = [s \in Times |-> IF s <= now THEN @[s] + 1 ELSE @[s]]]

\* Case 1: above the burst reserve.
Normal(c) ==
    LET k == key[c]
        left == Refilled(bucket[k]) - Window
    IN  /\ pc[c] = "enter" /\ holder[k] = None
        /\ left >= BurstCapacity(limits[c])
        /\ Consume(k, Window)
        /\ LetThrough(k)
        /\ result' = [status |-> "NORMAL",
                      count |-> Soft(limits[c]) - (left - BurstCapacity(limits[c])) \div Window]
        /\ Goto(c, "idle")
        /\ UNCHANGED <<now, exists, holder, overages, globalBurstFreeze, key, limits>>

\* Slip: the remaining burst is computed before the token is taken.
BurstCountsBefore(c) ==
    LET k == key[c]
        tokens == Refilled(bucket[k])
    IN  /\ pc[c] = "enter" /\ holder[k] = None
        /\ tokens < BurstCapacity(limits[c]) + Window
        /\ tokens >= Window /\ ~globalBurstFreeze
        /\ Consume(k, Window)
        /\ LetThrough(k)
        /\ result' = [status |-> "BURST", count |-> Hard(limits[c]) - tokens \div Window]
        /\ holder' = [holder EXCEPT ![k] = c]
        /\ Goto(c, "overage")
        /\ UNCHANGED <<now, exists, overages, globalBurstFreeze, key, limits>>

\* Case 2: a token of the reserve.  The bucket stays locked ...
Burst(c) ==
    LET k == key[c]
        tokens == Refilled(bucket[k])
    IN  /\ pc[c] = "enter" /\ holder[k] = None
        /\ tokens < BurstCapacity(limits[c]) + Window
        /\ tokens >= Window /\ ~globalBurstFreeze
        /\ Consume(k, Window)
        /\ LetThrough(k)
        /\ result' = [status |-> "BURST", count |-> Hard(limits[c]) - (tokens - Window) \div Window]
        /\ holder' = [holder EXCEPT ![k] = c]
        /\ Goto(c, "overage")
        /\ UNCHANGED <<now, exists, overages, globalBurstFreeze, key, limits>>

\* Slip: the bucket is not unlocked after a burst.
OverageKeepsLock(c) ==
    /\ pc[c] = "overage"
    /\ overages' = [overages EXCEPT ![key[c]] = @ + 1]
    /\ Goto(c, "idle")
    /\ UNCHANGED <<now, exists, bucket, holder, globalBurstFreeze, key, limits, result, since>>

\* ... while the overage is counted under tbl.mu.
Overage(c) ==
    /\ pc[c] = "overage"
    /\ overages' = [overages EXCEPT ![key[c]] = @ + 1]
    /\ holder' = [holder EXCEPT ![key[c]] = None]
    /\ Goto(c, "idle")
    /\ UNCHANGED <<now, exists, bucket, globalBurstFreeze, key, limits, result, since>>

\* Case 3
Blocked(c) ==
    LET k == key[c]
        tokens == Refilled(bucket[k])
    IN  /\ pc[c] = "enter" /\ holder[k] = None
        /\ tokens < BurstCapacity(limits[c]) + Window
        /\ tokens < Window \/ globalBurstFreeze
        /\ Consume(k, 0)
        /\ result' = [status |-> "BLOCKED", count |-> Hard(limits[c])]
        /\ Goto(c, "idle")
        /\ UNCHANGED <<now, exists, holder, overages, globalBurstFreeze, key, limits, since>>

Elapse ==
    /\ now < MaxTime
    /\ now' = now + 1
    /\ UNCHANGED <<exists, bucket, holder, overages, globalBurstFreeze, pc, key, limits,
                   result, since>>

\* A call that has begun goes on.
Checking(c) == Find(c) \/ Normal(c) \/ Burst(c) \/ Overage(c) \/ Blocked(c)

Next ==
    \/ \E frozen \in BOOLEAN : SetGlobalBurstFreeze(frozen)
    \/ \E c \in Calls, k \in ApiKeys, l \in Limits : Begin(c, k, l)
    \/ \E c \in Calls : Checking(c)
    \/ Elapse

Spec == Init /\ [][Next]_vars

\* A mutex of Go is handed to every waiter in turn (starvation mode), so a
\* call that finds its lock free again and again gets it.
FairSpec == Spec /\ \A c \in Calls : SF_vars(Checking(c))

-----------------------------------------------------------------------------
(* Properties *)

\* A bucket never holds more than its capacity or less than nothing, is
\* refilled up to a moment that has passed, and is locked exactly by a call
\* that is counting an overage.
TypeOK ==
    /\ now \in Times
    /\ exists \subseteq ApiKeys
    /\ bucket \in [ApiKeys -> [tokens : Nat, capacity : Nat, refillRate : Nat,
                               lastRefill : Times]]
    /\ \A k \in ApiKeys : /\ bucket[k].tokens <= bucket[k].capacity
                          /\ bucket[k].lastRefill <= now
    /\ holder \in [ApiKeys -> Calls \cup {None}]
    /\ \A k \in ApiKeys, c \in Calls :
          holder[k] = c <=> (pc[c] = "overage" /\ key[c] = k)
    /\ overages \in [ApiKeys -> Nat]
    /\ globalBurstFreeze \in BOOLEAN
    /\ pc \in [Calls -> {"idle", "find", "enter", "overage"}]
    /\ key \in [Calls -> ApiKeys]
    /\ limits \in [Calls -> Limits]
    /\ result \in [status : {"NORMAL", "BURST", "BLOCKED"}, count : Int]
    /\ since \in [ApiKeys -> [Times -> Nat]]

\* The promise of a token bucket, over every stretch of time from a second s
\* to now: a key gets at most the hard limit and what has been refilled since
\* s, however calls interleave between the two locks and whatever limits the
\* later calls bring (those of the bucket count).
RateBound ==
    \A k \in exists : \A s \in 0..now :
        Window * since[k][s] <= bucket[k].capacity + bucket[k].refillRate * (now - s)

\* The bucket of k was made with limits l.
MadeWith(k, l) == bucket[k].capacity = Window * Hard(l) /\ bucket[k].refillRate = Soft(l)

\* The Count that the headers are computed from tells the zones apart as the
\* sliding windows do: up to the soft limit for NORMAL, beyond it and up to
\* the hard limit for BURST (for a call with the bucket's own limits; others
\* can report a negative one).
CountInZone ==
    [][\A c \in Calls :
         LET l == limits[c] IN
         (pc[c] = "enter" /\ pc'[c] # "enter" /\ MadeWith(key[c], l)) =>
            \/ result'.status = "NORMAL" /\ result'.count \in 1..Soft(l)
            \/ result'.status = "BURST" /\ result'.count \in (Soft(l) + 1)..Hard(l)
            \/ result'.status = "BLOCKED" /\ result'.count = Hard(l)]_vars

\* Every Check returns, also when it waits for a bucket whose holder waits
\* for the map's lock.
ChecksEnd == \A c \in Calls : pc[c] # "idle" ~> pc[c] = "idle"
=============================================================================
