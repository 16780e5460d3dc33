------------------------- MODULE TokenBucketProofs -------------------------
(***************************************************************************)
(* The token bucket keeps its rate and reports the right zone, for any     *)
(* keys, calls, limits, window and length of time.                         *)
(*                                                                         *)
(* RateBound says nothing of the tokens that are left, so it is not        *)
(* inductive: a bucket that is full and has just let everything through    *)
(* satisfies it.  Spent adds them: what was let through since s and what   *)
(* is left are no more than the capacity and what was refilled since s.    *)
(***************************************************************************)
EXTENDS TokenBucket, TLAPS

\* A call that works on a bucket has found one.
Entered == \A c \in Calls : pc[c] \in {"enter", "overage"} => key[c] \in exists

\* After the last refill nothing was let through, so s beyond it has nothing
\* to account for.
Spent ==
    \A k \in ApiKeys, s \in Times :
        IF k \in exists /\ s <= bucket[k].lastRefill
        THEN Window * since[k][s] + bucket[k].tokens
               <= bucket[k].capacity + bucket[k].refillRate * (bucket[k].lastRefill - s)
        ELSE since[k][s] = 0

BucketInv == TypeOK /\ Entered /\ Spent

Bucket == [tokens : Nat, capacity : Nat, refillRate : Nat, lastRefill : Times]

LEMMA LimitFacts ==
    ASSUME NEW l \in Limits
    PROVE  /\ Soft(l) \in Nat /\ Hard(l) \in Nat
           /\ BurstCapacity(l) \in Nat
           /\ Window * Hard(l) \in Nat
<1>1. Soft(l) \in Nat /\ Hard(l) \in Nat /\ Window \in Nat
  BY BucketAssumption DEF Soft, Hard
<1>2. \A a, b \in Nat : a * b \in Nat
  OBVIOUS
<1>3. Window * Hard(l) \in Nat
  BY <1>1, <1>2
<1>4. BurstCapacity(l) \in Nat
  <2>1. CASE Hard(l) > Soft(l)
    <3>1. Hard(l) - Soft(l) \in Nat
      BY <1>1, <2>1
    <3> QED
      BY <1>1, <1>2, <2>1, <3>1 DEF BurstCapacity
  <2>2. CASE ~(Hard(l) > Soft(l))
    BY <2>2 DEF BurstCapacity
  <2> QED
    BY <2>1, <2>2
<1> QED
  BY <1>1, <1>3, <1>4

\* A refill stays within the capacity and adds at most the rate times the
\* time since the last one.
LEMMA RefillFacts ==
    ASSUME NEW b \in Bucket, now \in Times, b.lastRefill <= now, b.tokens <= b.capacity
    PROVE  /\ Refilled(b) \in Nat
           /\ Refilled(b) <= b.capacity
           /\ Refilled(b) <= b.tokens + (now - b.lastRefill) * b.refillRate
<1>1. /\ b.tokens \in Nat /\ b.capacity \in Nat /\ b.refillRate \in Nat
      /\ b.lastRefill \in Nat /\ now \in Nat
  BY BucketAssumption DEF Bucket, Times
<1>2. PICK x \in Nat : x = now - b.lastRefill
  BY <1>1
<1>3. x * b.refillRate \in Nat
  <2>1. \A a, c \in Nat : a * c \in Nat
    OBVIOUS
  <2> QED
    BY <1>1, <1>2, <2>1
<1> QED
  BY <1>1, <1>2, <1>3 DEF Refilled

\* The accounts of one second s after a request took w shares (or none).
LEMMA Accounts ==
    ASSUME NEW w \in Nat, NEW n \in Nat, NEW tokens \in Nat, NEW capacity \in Nat,
           NEW rate \in Nat, NEW last \in Nat, NEW t \in Nat, NEW s \in Nat,
           NEW left \in Nat,
           last <= t, s <= last,
           w * n + tokens <= capacity + rate * (last - s),
           left <= tokens + (t - last) * rate
    PROVE  w * n + left <= capacity + rate * (t - s)
<1>1. rate * (t - s) = rate * (last - s) + (t - last) * rate
  BY Z3
<1>2. \A a, b, c, d, e, f \in Int :
         (a + b <= c + d /\ e <= b + f) => a + e <= c + (d + f)
  BY Z3
<1>3. w * n \in Int /\ rate * (last - s) \in Int /\ (t - last) * rate \in Int
  BY Z3
<1> QED
  BY <1>1, <1>2, <1>3

\* What TypeOK says of the buckets and of the history.
BucketsOK ==
    /\ bucket \in [ApiKeys -> Bucket]
    /\ \A k \in ApiKeys : /\ bucket[k].tokens <= bucket[k].capacity
                          /\ bucket[k].lastRefill <= now
    /\ since \in [ApiKeys -> [Times -> Nat]]

\* A call that consumes shares of its bucket, and lets its request through
\* exactly if it consumes some, keeps the accounts.
LEMMA Consumed ==
    ASSUME now \in Times, BucketsOK, Spent,
           NEW k \in ApiKeys, k \in exists,
           NEW shares \in Nat, shares <= Refilled(bucket[k]),
           Consume(k, shares),
           \/ shares = Window /\ LetThrough(k)
           \/ shares = 0 /\ UNCHANGED since,
           now' = now, exists' = exists
    PROVE  BucketsOK' /\ Spent'
<1> DEFINE b == bucket[k]
           left == Refilled(b) - shares
<1>1. /\ b \in Bucket /\ b.tokens \in Nat /\ b.capacity \in Nat /\ b.refillRate \in Nat
      /\ b.lastRefill \in Times /\ b.tokens <= b.capacity /\ b.lastRefill <= now
  BY DEF BucketsOK, Bucket
<1>2. /\ Refilled(b) \in Nat /\ Refilled(b) <= b.capacity
      /\ Refilled(b) <= b.tokens + (now - b.lastRefill) * b.refillRate
  BY <1>1, RefillFacts
<1>3. left \in Nat /\ left <= b.capacity
  BY <1>1, <1>2
<1>4. /\ bucket' \in [ApiKeys -> Bucket]
      /\ bucket'[k].tokens = left /\ bucket'[k].capacity = b.capacity
      /\ bucket'[k].refillRate = b.refillRate /\ bucket'[k].lastRefill = now
      /\ \A j \in ApiKeys \ {k} : bucket'[j] = bucket[j]
  <2> DEFINE new == [tokens |-> left, capacity |-> b.capacity,
                     refillRate |-> b.refillRate, lastRefill |-> now]
  <2>1. bucket' = [bucket EXCEPT ![k] = new]
    BY DEF Consume
  <2>2. new \in Bucket
    BY <1>1, <1>3 DEF Bucket
  <2>3. /\ new.tokens = left /\ new.capacity = b.capacity
        /\ new.refillRate = b.refillRate /\ new.lastRefill = now
    OBVIOUS
  <2> HIDE DEF new, left
  <2>4. /\ bucket'[k] = new
        /\ \A j \in ApiKeys \ {k} : bucket'[j] = bucket[j]
        /\ bucket' \in [ApiKeys -> Bucket]
    BY <2>1, <2>2 DEF BucketsOK
  <2> QED
    BY <2>3, <2>4
<1>5. /\ since' \in [ApiKeys -> [Times -> Nat]]
      /\ \A j \in ApiKeys \ {k} : since'[j] = since[j]
      /\ \A s \in Times : s > now => since'[k][s] = since[k][s]
      /\ \/ shares = 0 /\ since' = since
         \/ shares = Window /\ \A s \in Times : s <= now => since'[k][s] = since[k][s] + 1
  <2>1. CASE shares = 0 /\ UNCHANGED since
    BY <2>1 DEF BucketsOK
  <2>2. CASE shares = Window /\ LetThrough(k)
    <3> DEFINE f == [s \in Times |-> IF s <= now THEN since[k][s] + 1 ELSE since[k][s]]
    <3>1. since' = [since EXCEPT ![k] = f]
      BY <2>2 DEF LetThrough
    <3>2. f \in [Times -> Nat]
      BY DEF BucketsOK
    <3>3. since'[k] = f /\ (\A j \in ApiKeys \ {k} : since'[j] = since[j])
          /\ since' \in [ApiKeys -> [Times -> Nat]]
      BY <3>1, <3>2 DEF BucketsOK
    <3>4. \A s \in Times : /\ s <= now => f[s] = since[k][s] + 1
                           /\ s > now => f[s] = since[k][s]
      BY BucketAssumption DEF Times
    <3> HIDE DEF f
    <3> QED
      BY <2>2, <3>3, <3>4
  <2> QED
    BY <2>1, <2>2
<1> HIDE DEF left
<1>6. BucketsOK'
  <2>1. now <= now
    BY BucketAssumption DEF Times
  <2>2. ASSUME NEW j \in ApiKeys
        PROVE  bucket'[j].tokens <= bucket'[j].capacity /\ bucket'[j].lastRefill <= now'
    <3>1. CASE j = k
      BY <1>3, <1>4, <2>1, <3>1
    <3>2. CASE j # k
      BY <1>4, <3>2 DEF BucketsOK
    <3> QED
      BY <3>1, <3>2
  <2> QED
    BY <1>4, <1>5, <2>2, Zenon DEF BucketsOK
<1>7. Spent'
  <2> SUFFICES ASSUME NEW j \in ApiKeys, NEW s \in Times
               PROVE  IF j \in exists /\ s <= bucket'[j].lastRefill
                      THEN Window * since'[j][s] + bucket'[j].tokens
                             <= bucket'[j].capacity
                                  + bucket'[j].refillRate * (bucket'[j].lastRefill - s)
                      ELSE since'[j][s] = 0
    BY Zenon DEF Spent
  <2>1. CASE j # k
    BY <1>4, <1>5, <2>1 DEF Spent
  <2>2. CASE j = k /\ s > now
    <3>1. since[k][s] = 0
      BY <1>1, <2>2, BucketAssumption DEF Spent, Times
    <3>2. ~(s <= now)
      BY <2>2, BucketAssumption DEF Times
    <3>3. since'[k][s] = 0
      BY <1>5, <2>2, <3>1
    <3> QED
      BY <1>4, <2>2, <3>2, <3>3
  <2>3. CASE j = k /\ s <= now
    <3>1. since[k][s] \in Nat
      BY DEF BucketsOK
    <3>2. /\ Window \in Nat /\ now \in Nat /\ s \in Nat /\ b.lastRefill \in Nat
      BY <1>1, BucketAssumption DEF Times
    <3>3. Window * since'[k][s] + left = Window * since[k][s] + Refilled(b)
      BY <1>2, <1>5, <2>3, <3>1, <3>2 DEF left
    <3>4. Window * since[k][s] + Refilled(b) <= b.capacity + b.refillRate * (now - s)
      <4>1. CASE s <= b.lastRefill
        <5>1. Window * since[k][s] + b.tokens
                <= b.capacity + b.refillRate * (b.lastRefill - s)
          BY <4>1 DEF Spent
        <5> QED
          BY <1>1, <1>2, <3>1, <3>2, <4>1, <5>1, Accounts
      <4>2. CASE ~(s <= b.lastRefill)
        <5>1. since[k][s] = 0
          BY <4>2 DEF Spent
        <5>2. b.refillRate * (now - s) \in Nat
          <6>1. now - s \in Nat
            BY <2>3, <3>2
          <6>2. \A x, y \in Nat : x * y \in Nat
            OBVIOUS
          <6> QED
            BY <1>1, <6>1, <6>2
        <5> QED
          BY <1>1, <1>2, <3>2, <5>1, <5>2
      <4> QED
        BY <4>1, <4>2
    <3> QED
      BY <1>4, <2>3, <3>3, <3>4
  <2> QED
    BY <2>1, <2>2, <2>3, BucketAssumption DEF Times
<1> QED
  BY <1>6, <1>7

\* What TypeOK says of the calls.
CallsOK ==
    /\ holder \in [ApiKeys -> Calls \cup {None}]
    /\ \A k \in ApiKeys, c \in Calls :
          holder[k] = c <=> (pc[c] = "overage" /\ key[c] = k)
    /\ pc \in [Calls -> {"idle", "find", "enter", "overage"}]
    /\ key \in [Calls -> ApiKeys]
    /\ limits \in [Calls -> Limits]

ResultOK == result \in [status : {"NORMAL", "BURST", "BLOCKED"}, count : Int]

LEMMA TypeParts ==
    TypeOK <=> /\ now \in Times /\ exists \subseteq ApiKeys
               /\ overages \in [ApiKeys -> Nat] /\ globalBurstFreeze \in BOOLEAN
               /\ BucketsOK /\ CallsOK /\ ResultOK
BY Zenon DEF TypeOK, BucketsOK, CallsOK, ResultOK, Bucket

LEMMA TypePartsPrimed ==
    TypeOK' <=> /\ now' \in Times /\ exists' \subseteq ApiKeys
                /\ overages' \in [ApiKeys -> Nat] /\ globalBurstFreeze' \in BOOLEAN
                /\ BucketsOK' /\ CallsOK' /\ ResultOK'
BY Zenon DEF TypeOK, BucketsOK, CallsOK, ResultOK, Bucket

LEMMA BucketInitially == Init => BucketInv
<1> SUFFICES ASSUME Init PROVE BucketInv
  OBVIOUS
<1>1. 0 \in Times /\ now = 0
  BY BucketAssumption DEF Times, Init
<1>2. AnyKey \in ApiKeys /\ AnyLimits \in Limits
  BY BucketAssumption, Zenon DEF AnyKey, AnyLimits
<1>3. BucketsOK
  BY <1>1 DEF Init, BucketsOK, Bucket
<1>4. CallsOK
  <2>1. \A k \in ApiKeys : holder[k] = None
    BY DEF Init
  <2>2. \A c \in Calls : pc[c] = "idle"
    BY DEF Init
  <2>3. \A c \in Calls : c # None
    BY BucketAssumption DEF None
  <2>4. \A k \in ApiKeys, c \in Calls : holder[k] = c <=> (pc[c] = "overage" /\ key[c] = k)
    BY <2>1, <2>2, <2>3
  <2>5. holder \in [ApiKeys -> Calls \cup {None}]
    BY DEF Init
  <2>6. /\ pc \in [Calls -> {"idle", "find", "enter", "overage"}]
        /\ key \in [Calls -> ApiKeys] /\ limits \in [Calls -> Limits]
    BY <1>2 DEF Init
  <2> QED
    BY <2>4, <2>5, <2>6, Zenon DEF CallsOK
<1>5. ResultOK
  BY DEF Init, ResultOK
<1>6. TypeOK
  <2>1. exists \subseteq ApiKeys /\ overages \in [ApiKeys -> Nat]
    BY DEF Init
  <2>2. globalBurstFreeze \in BOOLEAN
    BY Zenon DEF Init
  <2> QED
    BY <1>1, <1>3, <1>4, <1>5, <2>1, <2>2, TypeParts, Zenon
<1>7. Entered /\ Spent
  BY DEF Init, Entered, Spent
<1> QED
  BY <1>6, <1>7 DEF BucketInv

\* A step of call c that leaves the lock alone keeps the order of the calls.
LEMMA Unlocked ==
    ASSUME CallsOK, NEW c \in Calls, NEW step \in {"idle", "find", "enter"},
           pc[c] # "overage", Goto(c, step), holder' = holder,
           key' \in [Calls -> ApiKeys], limits' \in [Calls -> Limits],
           \A d \in Calls \ {c} : key'[d] = key[d]
    PROVE  CallsOK'
<1>1. /\ pc' \in [Calls -> {"idle", "find", "enter", "overage"}]
      /\ pc'[c] = step /\ \A d \in Calls \ {c} : pc'[d] = pc[d]
  BY DEF Goto, CallsOK
<1>2. ASSUME NEW k \in ApiKeys, NEW d \in Calls
      PROVE  holder'[k] = d <=> (pc'[d] = "overage" /\ key'[d] = k)
  <2>1. CASE d = c
    BY <1>1, <2>1 DEF CallsOK
  <2>2. CASE d # c
    BY <1>1, <2>2 DEF CallsOK
  <2> QED
    BY <2>1, <2>2
<1> QED
  BY <1>1, <1>2, Zenon DEF CallsOK

LEMMA BucketStepwise == BucketInv /\ [Next]_vars => BucketInv'
<1> SUFFICES ASSUME BucketInv, [Next]_vars PROVE BucketInv'
  OBVIOUS
<1>0. /\ now \in Times /\ exists \subseteq ApiKeys
      /\ overages \in [ApiKeys -> Nat] /\ globalBurstFreeze \in BOOLEAN
      /\ BucketsOK /\ CallsOK /\ ResultOK /\ Entered /\ Spent
  BY TypeParts, Zenon DEF BucketInv
<1>1. ASSUME NEW frozen \in BOOLEAN, SetGlobalBurstFreeze(frozen) PROVE BucketInv'
  <2>1. globalBurstFreeze' \in BOOLEAN
    BY <1>1, Zenon DEF SetGlobalBurstFreeze
  <2>2. UNCHANGED <<now, exists, bucket, holder, overages, pc, key, limits, result, since>>
    BY <1>1, Zenon DEF SetGlobalBurstFreeze
  <2>3. BucketsOK' /\ Spent'
    BY <1>0, <2>2, Zenon DEF BucketsOK, Spent
  <2>4. CallsOK' /\ Entered'
    BY <1>0, <2>2, Zenon DEF CallsOK, Entered
  <2>5. ResultOK'
    BY <1>0, <2>2, Zenon DEF ResultOK
  <2> QED
    BY <1>0, <2>1, <2>2, <2>3, <2>4, <2>5, TypePartsPrimed, Zenon DEF BucketInv
<1>2. ASSUME NEW c \in Calls, NEW k \in ApiKeys, NEW l \in Limits, Begin(c, k, l)
      PROVE  BucketInv'
  <2>1. /\ UNCHANGED <<now, exists, bucket, holder, overages, globalBurstFreeze, result, since>>
        /\ pc[c] = "idle" /\ Goto(c, "find")
    BY <1>2, Zenon DEF Begin
  <2>2. /\ key' \in [Calls -> ApiKeys] /\ limits' \in [Calls -> Limits]
        /\ \A d \in Calls \ {c} : key'[d] = key[d]
    BY <1>0, <1>2 DEF Begin, CallsOK
  <2>3. CallsOK'
    BY <1>0, <2>1, <2>2, Unlocked
  <2>4. BucketsOK' /\ ResultOK' /\ Spent'
    BY <1>0, <2>1, Zenon DEF BucketsOK, ResultOK, Spent
  <2>5. Entered'
    BY <1>0, <2>1, <2>2 DEF Entered, Goto, CallsOK
  <2> QED
    BY <1>0, <2>1, <2>3, <2>4, <2>5, TypePartsPrimed, Zenon DEF BucketInv
<1>3. ASSUME NEW c \in Calls, Find(c) PROVE BucketInv'
  <2> DEFINE k == key[c]
  <2>1. /\ UNCHANGED <<now, holder, overages, globalBurstFreeze, key, limits, result, since>>
        /\ pc[c] = "find" /\ Goto(c, "enter") /\ exists' = exists \cup {k}
    BY <1>3, Zenon DEF Find
  <2>2. CallsOK' /\ k \in ApiKeys
    BY <1>0, <2>1, Unlocked DEF CallsOK
  <2>3. Entered'
    BY <1>0, <2>1 DEF Entered, Goto, CallsOK
  <2>4. BucketsOK' /\ Spent'
    <3>1. CASE k \in exists
      <4>1. exists' = exists /\ bucket' = bucket
        BY <1>3, <2>1, <3>1 DEF Find
      <4> QED
        BY <1>0, <2>1, <4>1, Zenon DEF BucketsOK, Spent
    <3>2. CASE k \notin exists
      <4> DEFINE new == NewBucket(limits[c])
      <4>1. /\ bucket' = [bucket EXCEPT ![k] = new]
            /\ limits[c] \in Limits
        BY <1>0, <1>3, <3>2 DEF Find, CallsOK
      <4>2. /\ new.tokens = Window * Hard(limits[c]) /\ new.capacity = Window * Hard(limits[c])
            /\ new.refillRate = Soft(limits[c]) /\ new.lastRefill = now
            /\ new.tokens = new.capacity
        BY DEF NewBucket
      <4>3. new \in Bucket
        BY <1>0, <4>1, LimitFacts DEF NewBucket, Bucket
      <4> HIDE DEF new
      <4>4. /\ bucket' \in [ApiKeys -> Bucket] /\ bucket'[k] = new
            /\ \A j \in ApiKeys \ {k} : bucket'[j] = bucket[j]
        BY <1>0, <2>2, <4>1, <4>3 DEF BucketsOK
      <4>5. now \in Nat /\ new.capacity \in Nat /\ new.refillRate \in Nat
        BY <1>0, <4>3, BucketAssumption DEF Bucket, Times
      <4>6. BucketsOK'
        <5>1. ASSUME NEW j \in ApiKeys
              PROVE  bucket'[j].tokens <= bucket'[j].capacity /\ bucket'[j].lastRefill <= now'
          <6>1. CASE j = k
            BY <2>1, <4>2, <4>4, <4>5, <6>1
          <6>2. CASE j # k
            BY <1>0, <2>1, <4>4, <6>2 DEF BucketsOK
          <6> QED
            BY <6>1, <6>2
        <5> QED
          BY <1>0, <2>1, <4>4, <5>1, Zenon DEF BucketsOK
      <4>7. Spent'
        <5> SUFFICES ASSUME NEW j \in ApiKeys, NEW s \in Times
                     PROVE  IF j \in exists' /\ s <= bucket'[j].lastRefill
                            THEN Window * since[j][s] + bucket'[j].tokens
                                   <= bucket'[j].capacity
                                        + bucket'[j].refillRate * (bucket'[j].lastRefill - s)
                            ELSE since[j][s] = 0
          BY <2>1, Zenon DEF Spent
        <5>1. CASE j # k
          BY <1>0, <2>1, <4>4, <5>1 DEF Spent
        <5>2. CASE j = k
          <6>1. since[k][s] = 0
            BY <1>0, <2>2, <3>2 DEF Spent
          <6>2. CASE s <= now
            <7>1. now - s \in Nat /\ Window \in Nat
              BY <4>5, <6>2, BucketAssumption DEF Times
            <7>2. \A x, y \in Nat : x * y \in Nat
              OBVIOUS
            <7>3. new.refillRate * (now - s) \in Nat
              BY <4>5, <7>1, <7>2
            <7>4. Window * since[k][s] + new.tokens <= new.capacity + new.refillRate * (now - s)
              BY <4>2, <4>5, <6>1, <7>1, <7>3
            <7> QED
              BY <2>1, <4>2, <4>4, <5>2, <6>1, <7>4
          <6>3. CASE ~(s <= now)
            BY <4>2, <4>4, <5>2, <6>1, <6>3
          <6> QED
            BY <6>2, <6>3
        <5> QED
          BY <5>1, <5>2
      <4> QED
        BY <4>6, <4>7
    <3> QED
      BY <3>1, <3>2
  <2>5. ResultOK' /\ exists' \subseteq ApiKeys
    BY <1>0, <2>1, <2>2 DEF ResultOK
  <2> QED
    BY <1>0, <2>1, <2>2, <2>3, <2>4, <2>5, TypePartsPrimed, Zenon DEF BucketInv
<1>4. ASSUME NEW c \in Calls, Normal(c) PROVE BucketInv'
  <2> DEFINE k == key[c]
             left == Refilled(bucket[k]) - Window
  <2>1. /\ UNCHANGED <<now, exists, holder, overages, globalBurstFreeze, key, limits>>
        /\ pc[c] = "enter" /\ Goto(c, "idle")
        /\ Consume(k, Window) /\ LetThrough(k)
        /\ left >= BurstCapacity(limits[c])
    BY <1>4, Zenon DEF Normal
  <2>2. /\ k \in ApiKeys /\ k \in exists /\ limits[c] \in Limits
        /\ Refilled(bucket[k]) \in Nat
    <3>1. k \in ApiKeys /\ k \in exists /\ limits[c] \in Limits
      BY <1>0, <2>1 DEF CallsOK, Entered
    <3>2. bucket[k] \in Bucket /\ bucket[k].tokens <= bucket[k].capacity /\ bucket[k].lastRefill <= now
      BY <1>0, <3>1 DEF BucketsOK
    <3> QED
      BY <1>0, <3>1, <3>2, RefillFacts
  <2>3. /\ BurstCapacity(limits[c]) \in Nat /\ Soft(limits[c]) \in Nat
        /\ Window \in Nat \ {0} /\ Window <= Refilled(bucket[k])
    BY <2>1, <2>2, LimitFacts, BucketAssumption
  <2>4. BucketsOK' /\ Spent'
    BY <1>0, <2>1, <2>2, <2>3, Consumed
  <2>5. ResultOK'
    <3>1. PICK n \in Int : result' = [status |-> "NORMAL", count |-> n]
      <4>1. (left - BurstCapacity(limits[c])) \div Window \in Int
        BY <2>2, <2>3
      <4>2. Soft(limits[c]) - (left - BurstCapacity(limits[c])) \div Window \in Int
        BY <2>3, <4>1
      <4> QED
        BY <1>4, <4>2, Zenon DEF Normal
    <3> QED
      BY <3>1 DEF ResultOK
  <2>6. CallsOK'
    BY <1>0, <2>1, Unlocked DEF CallsOK
  <2>7. Entered'
    BY <1>0, <2>1 DEF Entered, Goto, CallsOK
  <2> QED
    BY <1>0, <2>1, <2>4, <2>5, <2>6, <2>7, TypePartsPrimed, Zenon DEF BucketInv
<1>5. ASSUME NEW c \in Calls, Burst(c) PROVE BucketInv'
  <2> DEFINE k == key[c]
             tokens == Refilled(bucket[k])
  <2>1. /\ UNCHANGED <<now, exists, overages, globalBurstFreeze, key, limits>>
        /\ pc[c] = "enter" /\ Goto(c, "overage") /\ holder[k] = None
        /\ Consume(k, Window) /\ LetThrough(k)
        /\ tokens >= Window
        /\ holder' = [holder EXCEPT ![k] = c]
    BY <1>5, Zenon DEF Burst
  <2>2. /\ k \in ApiKeys /\ k \in exists /\ limits[c] \in Limits
        /\ Refilled(bucket[k]) \in Nat
    <3>1. k \in ApiKeys /\ k \in exists /\ limits[c] \in Limits
      BY <1>0, <2>1 DEF CallsOK, Entered
    <3>2. bucket[k] \in Bucket /\ bucket[k].tokens <= bucket[k].capacity /\ bucket[k].lastRefill <= now
      BY <1>0, <3>1 DEF BucketsOK
    <3> QED
      BY <1>0, <3>1, <3>2, RefillFacts
  <2>3. /\ Hard(limits[c]) \in Nat
        /\ Window \in Nat \ {0} /\ Window <= Refilled(bucket[k])
    BY <2>1, <2>2, LimitFacts, BucketAssumption
  <2>4. BucketsOK' /\ Spent'
    BY <1>0, <2>1, <2>2, <2>3, Consumed
  <2>5. ResultOK'
    <3>1. PICK n \in Int : result' = [status |-> "BURST", count |-> n]
      <4>1. (tokens - Window) \div Window \in Int
        BY <2>2, <2>3
      <4>2. Hard(limits[c]) - (tokens - Window) \div Window \in Int
        BY <2>3, <4>1
      <4> QED
        BY <1>5, <4>2, Zenon DEF Burst
    <3> QED
      BY <3>1 DEF ResultOK
  <2>6. CallsOK'
    <3>1. /\ pc' \in [Calls -> {"idle", "find", "enter", "overage"}]
          /\ pc'[c] = "overage" /\ \A d \in Calls \ {c} : pc'[d] = pc[d]
      BY <1>0, <2>1 DEF Goto, CallsOK
    <3>2. /\ holder' \in [ApiKeys -> Calls \cup {None}]
          /\ holder'[k] = c /\ \A j \in ApiKeys \ {k} : holder'[j] = holder[j]
      BY <1>0, <2>1, <2>2 DEF CallsOK
    <3>3. \A d \in Calls : d # None
      BY BucketAssumption DEF None
    <3>4. ASSUME NEW j \in ApiKeys, NEW d \in Calls
          PROVE  holder'[j] = d <=> (pc'[d] = "overage" /\ key'[d] = j)
      <4>1. key'[d] = key[d] /\ (holder[j] = d <=> (pc[d] = "overage" /\ key[d] = j))
        BY <1>0, <2>1 DEF CallsOK
      <4>2. CASE d = c
        BY <2>1, <3>1, <3>2, <4>1, <4>2
      <4>3. CASE d # c
        BY <2>1, <3>1, <3>2, <3>3, <4>1, <4>3
      <4> QED
        BY <4>2, <4>3
    <3> QED
      BY <1>0, <2>1, <3>1, <3>2, <3>4, Zenon DEF CallsOK
  <2>7. Entered'
    BY <1>0, <2>1, <2>2 DEF Entered, Goto, CallsOK
  <2> QED
    BY <1>0, <2>1, <2>4, <2>5, <2>6, <2>7, TypePartsPrimed, Zenon DEF BucketInv
<1>6. ASSUME NEW c \in Calls, Overage(c) PROVE BucketInv'
  <2> DEFINE k == key[c]
  <2>1. /\ UNCHANGED <<now, exists, bucket, globalBurstFreeze, key, limits, result, since>>
        /\ pc[c] = "overage" /\ Goto(c, "idle")
        /\ holder' = [holder EXCEPT ![k] = None]
    BY <1>6, Zenon DEF Overage
  <2>2. k \in ApiKeys /\ overages' \in [ApiKeys -> Nat]
    BY <1>0, <1>6 DEF Overage, CallsOK
  <2>3. BucketsOK' /\ Spent' /\ ResultOK'
    BY <1>0, <2>1, Zenon DEF BucketsOK, Spent, ResultOK
  <2>4. CallsOK'
    <3>1. /\ pc' \in [Calls -> {"idle", "find", "enter", "overage"}]
          /\ pc'[c] = "idle" /\ \A d \in Calls \ {c} : pc'[d] = pc[d]
      BY <1>0, <2>1 DEF Goto, CallsOK
    <3>2. /\ holder' \in [ApiKeys -> Calls \cup {None}]
          /\ holder'[k] = None /\ \A j \in ApiKeys \ {k} : holder'[j] = holder[j]
      BY <1>0, <2>1, <2>2 DEF CallsOK
    <3>3. \A d \in Calls : d # None
      BY BucketAssumption DEF None
    <3>4. ASSUME NEW j \in ApiKeys, NEW d \in Calls
          PROVE  holder'[j] = d <=> (pc'[d] = "overage" /\ key'[d] = j)
      <4>1. /\ key'[d] = key[d] /\ (holder[j] = d <=> (pc[d] = "overage" /\ key[d] = j))
            /\ holder[k] = c
        BY <1>0, <2>1, <2>2 DEF CallsOK
      <4>2. CASE d = c
        BY <2>1, <3>1, <3>2, <3>3, <4>1, <4>2
      <4>3. CASE d # c
        BY <2>1, <3>1, <3>2, <3>3, <4>1, <4>3
      <4> QED
        BY <4>2, <4>3
    <3> QED
      BY <1>0, <2>1, <3>1, <3>2, <3>4, Zenon DEF CallsOK
  <2>5. Entered'
    BY <1>0, <2>1 DEF Entered, Goto, CallsOK
  <2> QED
    BY <1>0, <2>1, <2>2, <2>3, <2>4, <2>5, TypePartsPrimed, Zenon DEF BucketInv
<1>7. ASSUME NEW c \in Calls, Blocked(c) PROVE BucketInv'
  <2> DEFINE k == key[c]
  <2>1. /\ UNCHANGED <<now, exists, holder, overages, globalBurstFreeze, key, limits, since>>
        /\ pc[c] = "enter" /\ Goto(c, "idle")
        /\ Consume(k, 0)
        /\ result' = [status |-> "BLOCKED", count |-> Hard(limits[c])]
    BY <1>7, Zenon DEF Blocked
  <2>2. /\ k \in ApiKeys /\ k \in exists /\ limits[c] \in Limits
        /\ Refilled(bucket[k]) \in Nat
    <3>1. k \in ApiKeys /\ k \in exists /\ limits[c] \in Limits
      BY <1>0, <2>1 DEF CallsOK, Entered
    <3>2. bucket[k] \in Bucket /\ bucket[k].tokens <= bucket[k].capacity /\ bucket[k].lastRefill <= now
      BY <1>0, <3>1 DEF BucketsOK
    <3> QED
      BY <1>0, <3>1, <3>2, RefillFacts
  <2>3. 0 \in Nat /\ 0 <= Refilled(bucket[k])
    BY <2>2
  <2>4. BucketsOK' /\ Spent'
    BY <1>0, <2>1, <2>2, <2>3, Consumed
  <2>5. ResultOK'
    BY <2>1, <2>2, LimitFacts DEF ResultOK
  <2>6. CallsOK'
    BY <1>0, <2>1, Unlocked DEF CallsOK
  <2>7. Entered'
    BY <1>0, <2>1 DEF Entered, Goto, CallsOK
  <2> QED
    BY <1>0, <2>1, <2>4, <2>5, <2>6, <2>7, TypePartsPrimed, Zenon DEF BucketInv
<1>8. CASE Elapse
  <2>1. /\ UNCHANGED <<exists, bucket, holder, overages, globalBurstFreeze, pc, key,
                       limits, result, since>>
        /\ now < MaxTime /\ now' = now + 1
    BY <1>8, Zenon DEF Elapse
  <2>2. now' \in Times /\ now \in Nat
    BY <1>0, <2>1, BucketAssumption DEF Times
  <2>3. BucketsOK'
    <3>1. ASSUME NEW k \in ApiKeys
          PROVE  bucket[k].tokens <= bucket[k].capacity /\ bucket[k].lastRefill <= now'
      <4>1. bucket[k] \in Bucket /\ bucket[k].lastRefill <= now /\ bucket[k].tokens <= bucket[k].capacity
        BY <1>0 DEF BucketsOK
      <4>2. bucket[k].lastRefill \in Nat
        BY <4>1, BucketAssumption DEF Bucket, Times
      <4> QED
        BY <2>1, <2>2, <4>1, <4>2
    <3> QED
      BY <1>0, <2>1, <3>1, Zenon DEF BucketsOK
  <2>4. CallsOK' /\ Entered'
    BY <1>0, <2>1, Zenon DEF CallsOK, Entered
  <2>5. ResultOK' /\ Spent'
    BY <1>0, <2>1, Zenon DEF ResultOK, Spent
  <2> QED
    BY <1>0, <2>1, <2>2, <2>3, <2>4, <2>5, TypePartsPrimed, Zenon DEF BucketInv
<1>9. CASE UNCHANGED vars
  <2>1. UNCHANGED <<now, exists, bucket, holder, overages, globalBurstFreeze, pc, key,
                    limits, result, since>>
    BY <1>9, Zenon DEF vars
  <2>2. BucketsOK' /\ Spent'
    BY <1>0, <2>1, Zenon DEF BucketsOK, Spent
  <2>3. CallsOK' /\ Entered'
    BY <1>0, <2>1, Zenon DEF CallsOK, Entered
  <2>4. ResultOK'
    BY <1>0, <2>1, Zenon DEF ResultOK
  <2> QED
    BY <1>0, <2>1, <2>2, <2>3, <2>4, TypePartsPrimed, Zenon DEF BucketInv
<1> QED
  BY <1>1, <1>2, <1>3, <1>4, <1>5, <1>6, <1>7, <1>8, <1>9, Zenon DEF Next, Checking

LEMMA BucketInvariant == Spec => []BucketInv
BY BucketInitially, BucketStepwise, PTL DEF Spec

\* A bucket never holds more than its capacity or less than nothing, and is
\* locked exactly while an overage is counted, for any calls and limits
\* (TokenBucketLimiter.Check with its two locks).
THEOREM BucketTypeCorrect == Spec => []TypeOK
<1>1. BucketInv => TypeOK
  BY DEF BucketInv
<1> QED
  BY <1>1, BucketInvariant, PTL

\* Over any stretch of time Check lets through for a key no more than the
\* bucket's capacity and what it was refilled, however calls interleave.
THEOREM BucketRateBound == Spec => []RateBound
<1>1. BucketInv => RateBound
  <2> SUFFICES ASSUME BucketInv, NEW k \in exists, NEW s \in 0..now
               PROVE  Window * since[k][s]
                        <= bucket[k].capacity + bucket[k].refillRate * (now - s)
    BY DEF RateBound
  <2>1. now \in Times /\ exists \subseteq ApiKeys /\ BucketsOK /\ Spent
    BY TypeParts, Zenon DEF BucketInv
  <2>2. /\ k \in ApiKeys /\ now \in Nat /\ s \in Nat /\ s \in Times /\ s <= now
        /\ Window \in Nat
    BY <2>1, BucketAssumption DEF Times
  <2> DEFINE b == bucket[k]
  <2>3. /\ b.tokens \in Nat /\ b.capacity \in Nat /\ b.refillRate \in Nat
        /\ b.lastRefill \in Nat /\ b.lastRefill <= now /\ since[k][s] \in Nat
    <3>1. b \in Bucket /\ b.lastRefill <= now /\ since[k][s] \in Nat
      BY <2>1, <2>2 DEF BucketsOK
    <3> HIDE DEF b
    <3> QED
      BY <3>1, BucketAssumption DEF Bucket, Times
  <2>4. \A x, y \in Nat : x * y \in Nat
    OBVIOUS
  <2>5. CASE s <= b.lastRefill
    <3>1. Window * since[k][s] + b.tokens <= b.capacity + b.refillRate * (b.lastRefill - s)
      BY <2>1, <2>2, <2>5 DEF Spent
    <3>2. b.tokens <= b.tokens + (now - b.lastRefill) * b.refillRate
      <4>1. now - b.lastRefill \in Nat
        BY <2>2, <2>3
      <4>2. (now - b.lastRefill) * b.refillRate \in Nat
        BY <2>3, <2>4, <4>1
      <4> QED
        BY <2>3, <4>2
    <3>3. Window * since[k][s] + b.tokens <= b.capacity + b.refillRate * (now - s)
      BY <2>2, <2>3, <2>5, <3>1, <3>2, Accounts
    <3>4. Window * since[k][s] \in Nat /\ b.refillRate * (now - s) \in Int
      BY <2>2, <2>3, <2>4
    <3> QED
      BY <2>3, <3>3, <3>4
  <2>6. CASE ~(s <= b.lastRefill)
    <3>1. since[k][s] = 0
      BY <2>1, <2>2, <2>6 DEF Spent
    <3>2. b.refillRate * (now - s) \in Nat
      <4>1. now - s \in Nat
        BY <2>2
      <4> QED
        BY <2>3, <2>4, <4>1
    <3> QED
      BY <2>2, <2>3, <3>1, <3>2
  <2> QED
    BY <2>5, <2>6
<1> QED
  BY <1>1, BucketInvariant, PTL

-----------------------------------------------------------------------------
(* The counts.  A whole number of tokens is what is left of a number of      *)
(* shares; the rest is how many tokens the refill lets a bucket have.        *)

\* Fewer shares than n tokens have are fewer than n whole tokens.
LEMMA WholeTokens ==
    ASSUME NEW w \in Nat, w > 0, NEW x \in Nat, NEW n \in Nat, x < w * n
    PROVE  x \div w \in Nat /\ x \div w < n
<1>1. x \div w \in Int /\ w * (x \div w) <= x /\ x < w * (x \div w) + w
  OBVIOUS
<1>2. ASSUME NEW q \in Int, w * q <= x, x < w * q + w PROVE q >= 0 /\ q < n
  BY <1>2
<1> QED
  BY <1>1, <1>2

\* What a call knows when it has the bucket's lock, of a bucket that was made
\* with the call's own limits.
LEMMA AtTheBucket ==
    ASSUME BucketInv, NEW c \in Calls, pc[c] = "enter", MadeWith(key[c], limits[c])
    PROVE  /\ limits[c] \in Limits
           /\ Refilled(bucket[key[c]]) \in Nat
           /\ Refilled(bucket[key[c]]) <= Window * Hard(limits[c])
<1>1. now \in Times /\ BucketsOK /\ CallsOK
  BY TypeParts, Zenon DEF BucketInv
<1>2. key[c] \in ApiKeys /\ limits[c] \in Limits
  BY <1>1 DEF CallsOK
<1>3. /\ bucket[key[c]] \in Bucket
      /\ bucket[key[c]].tokens <= bucket[key[c]].capacity
      /\ bucket[key[c]].lastRefill <= now
  BY <1>1, <1>2 DEF BucketsOK
<1>4. /\ Refilled(bucket[key[c]]) \in Nat
      /\ Refilled(bucket[key[c]]) <= bucket[key[c]].capacity
  BY <1>1, <1>3, RefillFacts
<1> QED
  BY <1>2, <1>4 DEF MadeWith

\* Above the reserve a count is one of the soft limit's.
LEMMA NormalCount ==
    ASSUME NEW l \in Limits, NEW tokens \in Nat, tokens <= Window * Hard(l),
           tokens - Window >= BurstCapacity(l)
    PROVE  Soft(l) - (tokens - Window - BurstCapacity(l)) \div Window \in 1..Soft(l)
<1> DEFINE x == tokens - Window - BurstCapacity(l)
<1>1. /\ Soft(l) \in Nat /\ Hard(l) \in Nat /\ BurstCapacity(l) \in Nat
      /\ Window \in Nat /\ Window > 0
  BY LimitFacts, BucketAssumption
<1>2. x \in Nat
  BY <1>1
<1>3. x < Window * Soft(l)
  <2>1. CASE Hard(l) > Soft(l)
    <3>1. BurstCapacity(l) = Window * (Hard(l) - Soft(l))
      BY <2>1 DEF BurstCapacity
    <3>2. Window * (Hard(l) - Soft(l)) = Window * Hard(l) - Window * Soft(l)
      BY <1>1
    <3>3. Window * Hard(l) \in Nat /\ Window * Soft(l) \in Int
      BY <1>1
    <3> QED
      BY <1>1, <3>1, <3>2, <3>3
  <2>2. CASE ~(Hard(l) > Soft(l))
    <3>1. BurstCapacity(l) = 0
      BY <2>2 DEF BurstCapacity
    <3>2. Window * Hard(l) <= Window * Soft(l)
      BY <1>1, <2>2
    <3>3. Window * Hard(l) \in Int /\ Window * Soft(l) \in Int
      BY <1>1
    <3> QED
      BY <1>1, <3>1, <3>2, <3>3
  <2> QED
    BY <2>1, <2>2
<1> HIDE DEF x
<1>4. x \div Window \in Nat /\ x \div Window < Soft(l)
  BY <1>1, <1>2, <1>3, WholeTokens
<1>5. Soft(l) - x \div Window \in 1..Soft(l)
  BY <1>1, <1>4
<1> QED
  BY <1>5 DEF x

\* A token of the reserve has a count beyond the soft limit.
LEMMA BurstCount ==
    ASSUME NEW l \in Limits, NEW tokens \in Nat, tokens >= Window,
           tokens < BurstCapacity(l) + Window
    PROVE  Hard(l) - (tokens - Window) \div Window \in (Soft(l) + 1)..Hard(l)
<1> DEFINE x == tokens - Window
<1>1. /\ Soft(l) \in Nat /\ Hard(l) \in Nat /\ BurstCapacity(l) \in Nat
      /\ Window \in Nat /\ Window > 0
  BY LimitFacts, BucketAssumption
<1>2. x \in Nat /\ x < BurstCapacity(l)
  BY <1>1
<1>3. Hard(l) > Soft(l) /\ BurstCapacity(l) = Window * (Hard(l) - Soft(l))
  BY <1>2 DEF BurstCapacity
<1>4. PICK n \in Nat : n = Hard(l) - Soft(l)
  BY <1>1, <1>3
<1> HIDE DEF x
<1>5. x \div Window \in Nat /\ x \div Window < n
  BY <1>1, <1>2, <1>3, <1>4, WholeTokens
<1>6. Hard(l) - x \div Window \in (Soft(l) + 1)..Hard(l)
  BY <1>1, <1>4, <1>5
<1> QED
  BY <1>6 DEF x

\* What CountInZone says of the step of one call.
Zoned(c) ==
    LET l == limits[c] IN
    (pc[c] = "enter" /\ pc'[c] # "enter" /\ MadeWith(key[c], l)) =>
       \/ result'.status = "NORMAL" /\ result'.count \in 1..Soft(l)
       \/ result'.status = "BURST" /\ result'.count \in (Soft(l) + 1)..Hard(l)
       \/ result'.status = "BLOCKED" /\ result'.count = Hard(l)

LEMMA CountStepwise ==
    BucketInv /\ [Next]_vars => [\A c \in Calls : Zoned(c)]_vars
<1> SUFFICES ASSUME BucketInv, Next, NEW c \in Calls,
                    pc[c] = "enter", pc'[c] # "enter", MadeWith(key[c], limits[c])
             PROVE  \/ result'.status = "NORMAL" /\ result'.count \in 1..Soft(limits[c])
                    \/ result'.status = "BURST"
                       /\ result'.count \in (Soft(limits[c]) + 1)..Hard(limits[c])
                    \/ result'.status = "BLOCKED" /\ result'.count = Hard(limits[c])
  BY Zenon DEF Zoned
<1> DEFINE l == limits[c]
           tokens == Refilled(bucket[key[c]])
<1>1. l \in Limits /\ tokens \in Nat /\ tokens <= Window * Hard(l)
  BY AtTheBucket
<1>2. pc \in [Calls -> {"idle", "find", "enter", "overage"}]
  BY TypeParts, Zenon DEF BucketInv, CallsOK
\* Only the three cases of Check take a call from its bucket.
<1>3. Normal(c) \/ Burst(c) \/ Blocked(c)
  <2>a. ASSUME NEW d \in Calls, NEW step, Goto(d, step), d # c \/ pc[d] # "enter"
        PROVE  FALSE
    <3>1. d # c
      BY <2>a
    <3> QED
      BY <1>2, <2>a, <3>1 DEF Goto
  <2>1. ASSUME NEW frozen \in BOOLEAN, SetGlobalBurstFreeze(frozen) PROVE FALSE
    BY <2>1, Zenon DEF SetGlobalBurstFreeze
  <2>2. ASSUME NEW d \in Calls, NEW k \in ApiKeys, NEW m \in Limits, Begin(d, k, m) PROVE FALSE
    <3>1. Goto(d, "find") /\ pc[d] = "idle"
      BY <2>2, Zenon DEF Begin
    <3> QED
      BY <2>a, <3>1
  <2>3. ASSUME NEW d \in Calls, Find(d) \/ Overage(d) PROVE FALSE
    <3>1. (pc[d] = "find" /\ Goto(d, "enter")) \/ (pc[d] = "overage" /\ Goto(d, "idle"))
      BY <2>3, Zenon DEF Find, Overage
    <3> QED
      BY <2>a, <3>1
  <2>4. ASSUME NEW d \in Calls, d # c, Normal(d) \/ Burst(d) \/ Blocked(d) PROVE FALSE
    <3>1. Goto(d, "idle") \/ Goto(d, "overage")
      BY <2>4, Zenon DEF Normal, Burst, Blocked
    <3> QED
      BY <2>4, <2>a, <3>1
  <2>5. ASSUME Elapse PROVE FALSE
    BY <2>5, Zenon DEF Elapse
  <2> QED
    BY <2>1, <2>2, <2>3, <2>4, <2>5, Zenon DEF Next, Checking
<1>4. CASE Normal(c)
  <2>1. /\ tokens - Window >= BurstCapacity(l)
        /\ result' = [status |-> "NORMAL",
                      count |-> Soft(l) - (tokens - Window - BurstCapacity(l)) \div Window]
    BY <1>4, Zenon DEF Normal
  <2>2. Soft(l) - (tokens - Window - BurstCapacity(l)) \div Window \in 1..Soft(l)
    BY <1>1, <2>1, NormalCount
  <2> QED
    BY <2>1, <2>2, Zenon
<1>5. CASE Burst(c)
  <2>1. /\ tokens >= Window /\ tokens < BurstCapacity(l) + Window
        /\ result' = [status |-> "BURST", count |-> Hard(l) - (tokens - Window) \div Window]
    BY <1>5, Zenon DEF Burst
  <2>2. Hard(l) - (tokens - Window) \div Window \in (Soft(l) + 1)..Hard(l)
    BY <1>1, <2>1, BurstCount
  <2> QED
    BY <2>1, <2>2, Zenon
<1>6. CASE Blocked(c)
  <2>1. result' = [status |-> "BLOCKED", count |-> Hard(l)]
    BY <1>6, Zenon DEF Blocked
  <2> QED
    BY <2>1
<1> QED
  BY <1>3, <1>4, <1>5, <1>6

\* The Count of Check tells the zones apart, for any limits, window and
\* refill: NORMAL never reports more than the soft limit, BURST never less
\* than one beyond it or more than the hard limit.
THEOREM BucketCountInZone == Spec => CountInZone
<1>1. (\A c \in Calls : Zoned(c)) =>
        (\A c \in Calls :
           LET l == limits[c] IN
           (pc[c] = "enter" /\ pc'[c] # "enter" /\ MadeWith(key[c], l)) =>
              \/ result'.status = "NORMAL" /\ result'.count \in 1..Soft(l)
              \/ result'.status = "BURST" /\ result'.count \in (Soft(l) + 1)..Hard(l)
              \/ result'.status = "BLOCKED" /\ result'.count = Hard(l))
  BY Zenon DEF Zoned
<1> QED
  BY <1>1, CountStepwise, BucketInvariant, PTL DEF Spec, CountInZone
============================================================================
