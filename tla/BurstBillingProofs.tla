------------------------- MODULE BurstBillingProofs -------------------------
(***************************************************************************)
(* A billing row never exceeds a count, for any requests, keys, months and *)
(* bursts, with or without Redis, failing calls and restarts.              *)
(*                                                                         *)
(* NeverOverbilled becomes inductive with the same fact about the count a  *)
(* handler carries from its read to its write, with the order of the clock *)
(* readings, and with a bound on the count of the in-memory limiter: it    *)
(* and the requests still to be counted are no more than the bursts.       *)
(***************************************************************************)
EXTENDS BurstBilling, FiniteSetTheorems, TLAPS

\* x is at most the largest of the counts f of the months up to m.
CoveredBy(f, m, x) == \E n \in 1..m : x <= f[n]

BillingShape ==
    /\ client \in {"redis", "nil"}
    /\ month \in Months
    /\ begun \in [ApiKeys -> Nat]
    /\ units \in [ApiKeys -> [Months -> Nat]]
    /\ overages \in [ApiKeys -> Nat]
    /\ rows \in [ApiKeys -> [Months -> Nat]]
    /\ pc \in [Reqs -> {"idle", "script", "memory", "read", "publish", "write", "announce"}]
    /\ key \in [Reqs -> ApiKeys]
    /\ mon \in [Reqs -> Months]
    /\ got \in [Reqs -> Nat]

ClockOrder == \A r \in Reqs : mon[r] <= month

\* Requests of key k that the in-memory limiter may still count
Waiting(k) == {r \in Reqs : pc[r] \in {"script", "memory"} /\ key[r] = k}

MemoryBounded ==
    \A k \in ApiKeys :
        /\ IsFiniteSet(Waiting(k))
        /\ overages[k] + Cardinality(Waiting(k)) <= begun[k]

\* What a handler has read may be written to the row of its month.
CarriedCovered ==
    \A r \in Reqs : pc[r] \in {"publish", "write"} =>
        IF client = "nil" THEN got[r] <= begun[key[r]]
        ELSE CoveredBy(units[key[r]], mon[r], got[r])

RowsCovered ==
    \A k \in ApiKeys, m \in Months :
        IF <<k, m>> \in local THEN rows[k][m] <= begun[k]
        ELSE CoveredBy(units[k], m, rows[k][m])

BillingInv == BillingShape /\ ClockOrder /\ MemoryBounded /\ CarriedCovered /\ RowsCovered

LEMMA MonthFacts ==
    /\ 1 \in Months /\ Months \subseteq Nat
    /\ \A m \in Months : 1 <= m /\ m <= LastMonth /\ 1 \in 1..m
BY BillingAssumption DEF Months

LEMMA BillingInitially == Init => BillingInv
<1> SUFFICES ASSUME Init PROVE BillingInv
  OBVIOUS
<1>1. BillingShape /\ ClockOrder
  BY MonthFacts DEF Init, BillingShape, ClockOrder
<1>2. MemoryBounded
  <2> SUFFICES ASSUME NEW k \in ApiKeys
               PROVE  IsFiniteSet(Waiting(k)) /\ overages[k] + Cardinality(Waiting(k)) <= begun[k]
    BY DEF MemoryBounded
  <2>1. Waiting(k) = {}
    BY DEF Init, Waiting
  <2>2. IsFiniteSet({}) /\ Cardinality({}) = 0
    BY FS_EmptySet
  <2>3. overages[k] = 0 /\ begun[k] = 0
    BY DEF Init
  <2> QED
    BY <2>1, <2>2, <2>3
<1>3. CarriedCovered
  BY DEF Init, CarriedCovered
<1>4. RowsCovered
  <2> SUFFICES ASSUME NEW k \in ApiKeys, NEW m \in Months
               PROVE  <<k, m>> \notin local /\ CoveredBy(units[k], m, rows[k][m])
    BY DEF RowsCovered
  <2>1. 1 \in 1..m /\ rows[k][m] <= units[k][1]
    BY MonthFacts DEF Init
  <2> QED
    BY <2>1 DEF Init, CoveredBy
<1> QED
  BY <1>1, <1>2, <1>3, <1>4 DEF BillingInv

-----------------------------------------------------------------------------
(* Facts used by several actions                                           *)

\* Covered amounts stay covered when counts grow.
LEMMA CoverGrows ==
    ASSUME NEW f \in [Months -> Nat], NEW g \in [Months -> Nat],
           \A n \in Months : f[n] <= g[n],
           NEW m \in Months, NEW x \in Nat, CoveredBy(f, m, x)
    PROVE  CoveredBy(g, m, x)
<1>1. PICK n \in 1..m : x <= f[n]
  BY DEF CoveredBy
<1>2. n \in Months
  BY BillingAssumption DEF Months
<1>3. f[n] \in Nat /\ g[n] \in Nat
  BY <1>2
<1>4. x <= g[n]
  BY <1>1, <1>2, <1>3
<1> QED
  BY <1>4 DEF CoveredBy

\* A step that only lets counts grow and gives no handler a new count keeps
\* what rows and handlers hold within bounds.
LEMMA QuietStep ==
    ASSUME BillingInv, BillingShape',
           \A k \in ApiKeys : begun[k] <= begun'[k],
           \A k \in ApiKeys : \A n \in Months : units[k][n] <= units'[k][n],
           \A s \in Reqs : pc'[s] \in {"publish", "write"} =>
               /\ pc[s] \in {"publish", "write"}
               /\ key'[s] = key[s] /\ mon'[s] = mon[s] /\ got'[s] = got[s]
               /\ client' = client,
           rows' = rows, local' = local
    PROVE  CarriedCovered' /\ RowsCovered'
<1>1. ASSUME NEW k \in ApiKeys, NEW m \in Months, NEW x \in Nat, CoveredBy(units[k], m, x)
      PROVE  CoveredBy(units'[k], m, x)
  <2>1. units[k] \in [Months -> Nat] /\ units'[k] \in [Months -> Nat]
    BY DEF BillingInv, BillingShape
  <2> QED
    BY <1>1, <2>1, CoverGrows
<1>2. ASSUME NEW s \in Reqs, pc'[s] \in {"publish", "write"}
      PROVE  IF client' = "nil" THEN got'[s] <= begun'[key'[s]]
             ELSE CoveredBy(units'[key'[s]], mon'[s], got'[s])
  <2>1. /\ pc[s] \in {"publish", "write"}
        /\ key'[s] = key[s] /\ mon'[s] = mon[s] /\ got'[s] = got[s] /\ client' = client
    BY <1>2
  <2>2. key[s] \in ApiKeys /\ mon[s] \in Months /\ got[s] \in Nat
    BY DEF BillingInv, BillingShape
  <2>3. begun[key[s]] \in Nat /\ begun'[key[s]] \in Nat /\ begun[key[s]] <= begun'[key[s]]
    BY <2>2 DEF BillingInv, BillingShape
  <2>4. IF client = "nil" THEN got[s] <= begun[key[s]]
        ELSE CoveredBy(units[key[s]], mon[s], got[s])
    BY <2>1 DEF BillingInv, CarriedCovered
  <2> QED
    BY <1>1, <2>1, <2>2, <2>3, <2>4
<1>3. ASSUME NEW k \in ApiKeys, NEW m \in Months
      PROVE  IF <<k, m>> \in local' THEN rows'[k][m] <= begun'[k]
             ELSE CoveredBy(units'[k], m, rows'[k][m])
  <2>1. /\ rows[k][m] \in Nat /\ begun[k] \in Nat /\ begun'[k] \in Nat
        /\ begun[k] <= begun'[k]
    BY DEF BillingInv, BillingShape
  <2>2. IF <<k, m>> \in local THEN rows[k][m] <= begun[k]
        ELSE CoveredBy(units[k], m, rows[k][m])
    BY DEF BillingInv, RowsCovered
  <2> QED
    BY <1>1, <2>1, <2>2
<1> QED
  BY <1>2, <1>3 DEF CarriedCovered, RowsCovered

\* A step that counts nothing in memory and lets no request begin keeps the
\* bound of the in-memory count.
LEMMA MemoryStays ==
    ASSUME BillingShape, MemoryBounded, begun' = begun, overages' \in [ApiKeys -> Nat],
           \A k \in ApiKeys : overages'[k] <= overages[k],
           \A s \in Reqs : pc'[s] \in {"script", "memory"} =>
               pc[s] \in {"script", "memory"} /\ key'[s] = key[s]
    PROVE  MemoryBounded'
<1> SUFFICES ASSUME NEW k \in ApiKeys
             PROVE  /\ IsFiniteSet(Waiting(k)')
                    /\ overages'[k] + Cardinality(Waiting(k)') <= begun[k]
  BY DEF MemoryBounded
<1>1. Waiting(k)' \subseteq Waiting(k)
  BY DEF Waiting
<1>2. IsFiniteSet(Waiting(k)) /\ overages[k] + Cardinality(Waiting(k)) <= begun[k]
  BY DEF MemoryBounded
<1>3. IsFiniteSet(Waiting(k)') /\ Cardinality(Waiting(k)') <= Cardinality(Waiting(k))
  BY <1>1, <1>2, FS_Subset
<1>4. Cardinality(Waiting(k)) \in Nat /\ Cardinality(Waiting(k)') \in Nat
  BY <1>2, <1>3, FS_CardinalityType
<1>5. overages[k] \in Nat /\ overages'[k] \in Nat /\ begun[k] \in Nat
  BY DEF BillingShape
<1>6. overages'[k] <= overages[k]
  OBVIOUS
<1> QED
  BY <1>2, <1>3, <1>4, <1>5, <1>6

\* MemoryCheck counts a request that was waiting.
LEMMA MemoryCounts ==
    ASSUME BillingShape, MemoryBounded, NEW r \in Reqs, MemoryCheck(r)
    PROVE  MemoryBounded'
<1> DEFINE k0 == key[r]
<1>1. CASE overages' = [overages EXCEPT ![k0] = @ + 1] /\ Goto(r, "read")
  <2> SUFFICES ASSUME NEW k \in ApiKeys
               PROVE  /\ IsFiniteSet(Waiting(k)')
                      /\ overages'[k] + Cardinality(Waiting(k)') <= begun'[k]
    BY DEF MemoryBounded
  <2>1. Waiting(k)' = Waiting(k) \ {r}
    BY <1>1 DEF Waiting, MemoryCheck, Goto, BillingShape
  <2>2. IsFiniteSet(Waiting(k)) /\ overages[k] + Cardinality(Waiting(k)) <= begun[k]
    BY DEF MemoryBounded
  <2>3. /\ IsFiniteSet(Waiting(k)')
        /\ Cardinality(Waiting(k)') = IF r \in Waiting(k) THEN Cardinality(Waiting(k)) - 1
                                      ELSE Cardinality(Waiting(k))
    <3>1. /\ IsFiniteSet(Waiting(k) \ {r})
          /\ Cardinality(Waiting(k) \ {r}) = IF r \in Waiting(k) THEN Cardinality(Waiting(k)) - 1
                                             ELSE Cardinality(Waiting(k))
      BY <2>2, FS_RemoveElement, Zenon
    <3> QED
      BY <2>1, <3>1, Zenon
  <2>4. Cardinality(Waiting(k)) \in Nat
    BY <2>2, FS_CardinalityType
  <2>5. r \in Waiting(k) <=> k = k0
    BY DEF Waiting, MemoryCheck
  <2>6. overages'[k] = IF k = k0 THEN overages[k] + 1 ELSE overages[k]
    BY <1>1 DEF BillingShape
  <2>7. overages[k] \in Nat /\ begun[k] \in Nat /\ begun' = begun
    BY DEF BillingShape, MemoryCheck
  <2> QED
    BY <2>2, <2>3, <2>4, <2>5, <2>6, <2>7
<1>2. CASE overages' = overages /\ Goto(r, "idle")
  BY <1>2, MemoryStays DEF MemoryCheck, Goto, BillingShape
<1> QED
  BY <1>1, <1>2 DEF MemoryCheck

\* Burst adds a request to those waiting, and one to the bursts.
LEMMA MemoryBegins ==
    ASSUME BillingShape, MemoryBounded, NEW r \in Reqs, NEW k0 \in ApiKeys, Burst(r, k0)
    PROVE  MemoryBounded'
<1> SUFFICES ASSUME NEW k \in ApiKeys
             PROVE  /\ IsFiniteSet(Waiting(k)')
                    /\ overages'[k] + Cardinality(Waiting(k)') <= begun'[k]
  BY DEF MemoryBounded
<1>1. /\ IsFiniteSet(Waiting(k)) /\ overages[k] + Cardinality(Waiting(k)) <= begun[k]
      /\ overages[k] \in Nat /\ begun[k] \in Nat /\ overages' = overages
  BY DEF MemoryBounded, BillingShape, Burst, counters
<1>2. Cardinality(Waiting(k)) \in Nat /\ r \notin Waiting(k)
  BY <1>1, FS_CardinalityType DEF Waiting, Burst
<1>3. CASE k = k0
  <2>1. Waiting(k)' = Waiting(k) \cup {r}
    BY <1>3 DEF Waiting, Burst, Goto, BillingShape
  <2>2. IsFiniteSet(Waiting(k)') /\ Cardinality(Waiting(k)') = Cardinality(Waiting(k)) + 1
    BY <1>1, <1>2, <2>1, FS_AddElement
  <2>3. begun'[k] = begun[k] + 1
    BY <1>3 DEF Burst, BillingShape
  <2> QED
    BY <1>1, <1>2, <2>2, <2>3
<1>4. CASE k # k0
  <2>1. Waiting(k)' = Waiting(k)
    BY <1>4 DEF Waiting, Burst, Goto, BillingShape
  <2>2. begun'[k] = begun[k]
    BY <1>4 DEF Burst, BillingShape
  <2> QED
    BY <1>1, <2>1, <2>2
<1> QED
  BY <1>3, <1>4

\* HINCRBY lets the counts grow.
LEMMA CountGrows ==
    ASSUME BillingShape, NEW r \in Reqs, Count(r)
    PROVE  /\ units' \in [ApiKeys -> [Months -> Nat]]
           /\ \A k \in ApiKeys : \A n \in Months : units[k][n] <= units'[k][n]
<1>1. key[r] \in ApiKeys /\ mon[r] \in Months /\ units[key[r]] \in [Months -> Nat]
  BY DEF BillingShape
<1>2. units' \in [ApiKeys -> [Months -> Nat]]
  BY <1>1 DEF Count, BillingShape
<1> QED
  BY <1>2 DEF Count, BillingShape

-----------------------------------------------------------------------------
LEMMA BillingStepwise ==
    ASSUME BillingInv, [Next]_vars
    PROVE  BillingInv'
<1>0. BillingShape /\ ClockOrder /\ MemoryBounded /\ CarriedCovered /\ RowsCovered
  BY DEF BillingInv
<1>1. ASSUME NEW r \in Reqs, NEW k \in ApiKeys, Burst(r, k)
      PROVE  BillingInv'
  <2>1. BillingShape' /\ ClockOrder'
    BY <1>0, <1>1, MonthFacts DEF Burst, BillingShape, ClockOrder, Goto, ReadClock, counters
  <2>2. MemoryBounded'
    BY <1>0, <1>1, MemoryBegins
  <2>3. CarriedCovered' /\ RowsCovered'
    BY <1>0, <1>1, <2>1, QuietStep DEF Burst, BillingShape, Goto, ReadClock, counters
  <2> QED
    BY <2>1, <2>2, <2>3 DEF BillingInv
<1>2. ASSUME NEW r \in Reqs, Count(r), Goto(r, "read") /\ ReadClock(r)
      PROVE  BillingInv'
  <2>0. /\ units' \in [ApiKeys -> [Months -> Nat]]
        /\ \A k \in ApiKeys : \A n \in Months : units[k][n] <= units'[k][n]
    BY <1>0, <1>2, CountGrows
  <2>1. BillingShape' /\ ClockOrder'
    BY <1>0, <1>2, <2>0, MonthFacts DEF Count, BillingShape, ClockOrder, Goto, ReadClock
  <2>2. MemoryBounded'
    BY <1>0, <1>2, MemoryStays DEF Count, Goto, BillingShape
  <2>3. CarriedCovered' /\ RowsCovered'
    BY <1>0, <1>2, <2>0, <2>1, QuietStep DEF Count, BillingShape, Goto, ReadClock
  <2> QED
    BY <2>1, <2>2, <2>3 DEF BillingInv
<1>3. ASSUME NEW r \in Reqs, Count(r), NEW label \in {"script", "memory"}, Goto(r, label),
             UNCHANGED mon
      PROVE  BillingInv'
  <2>0. /\ units' \in [ApiKeys -> [Months -> Nat]]
        /\ \A k \in ApiKeys : \A n \in Months : units[k][n] <= units'[k][n]
    BY <1>0, <1>3, CountGrows
  <2>1. BillingShape' /\ ClockOrder'
    BY <1>0, <1>3, <2>0 DEF Count, BillingShape, ClockOrder, Goto
  <2>2. MemoryBounded'
    BY <1>0, <1>3, MemoryStays DEF Count, Goto, BillingShape
  <2>3. CarriedCovered' /\ RowsCovered'
    BY <1>0, <1>3, <2>0, <2>1, QuietStep DEF Count, BillingShape, Goto
  <2> QED
    BY <2>1, <2>2, <2>3 DEF BillingInv
<1>4. ASSUME NEW r \in Reqs, FailScript(r)
      PROVE  BillingInv'
  <2>1. BillingShape' /\ ClockOrder'
    BY <1>0, <1>4 DEF FailScript, BillingShape, ClockOrder, Goto, counters
  <2>2. MemoryBounded'
    BY <1>0, <1>4, MemoryStays DEF FailScript, Goto, BillingShape, counters
  <2>3. CarriedCovered' /\ RowsCovered'
    BY <1>0, <1>4, <2>1, QuietStep DEF FailScript, BillingShape, Goto, counters
  <2> QED
    BY <2>1, <2>2, <2>3 DEF BillingInv
<1>5. ASSUME NEW r \in Reqs, MemoryCheck(r)
      PROVE  BillingInv'
  <2>1. BillingShape' /\ ClockOrder'
    <3>1. key[r] \in ApiKeys /\ overages[key[r]] \in Nat /\ month \in Months
      BY <1>0 DEF BillingShape
    <3>2. overages' \in [ApiKeys -> Nat] /\ mon' \in [Reqs -> Months]
      <4>1. CASE overages' = [overages EXCEPT ![key[r]] = @ + 1] /\ ReadClock(r)
        <5>1. overages' \in [ApiKeys -> Nat]
          BY <1>0, <3>1, <4>1 DEF BillingShape
        <5>2. mon' \in [Reqs -> Months]
          BY <1>0, <3>1, <4>1 DEF BillingShape, ReadClock
        <5> QED
          BY <5>1, <5>2
      <4>2. CASE UNCHANGED <<overages, mon>>
        BY <1>0, <4>2 DEF BillingShape
      <4> QED
        BY <1>5, <4>1, <4>2 DEF MemoryCheck
    <3>3. pc' \in [Reqs -> {"idle", "script", "memory", "read", "publish", "write", "announce"}]
      BY <1>0, <1>5 DEF MemoryCheck, BillingShape, Goto
    <3>4. ClockOrder'
      BY <1>0, <1>5, MonthFacts DEF MemoryCheck, BillingShape, ClockOrder, ReadClock
    <3> QED
      BY <1>0, <1>5, <3>2, <3>3, <3>4 DEF MemoryCheck, BillingShape
  <2>2. MemoryBounded'
    BY <1>0, <1>5, MemoryCounts
  <2>3. CarriedCovered' /\ RowsCovered'
    BY <1>0, <1>5, <2>1, QuietStep DEF MemoryCheck, BillingShape, Goto, ReadClock
  <2> QED
    BY <2>1, <2>2, <2>3 DEF BillingInv
<1>6. ASSUME NEW r \in Reqs, ReadUnits(r)
      PROVE  BillingInv'
  <2>0. /\ key[r] \in ApiKeys /\ mon[r] \in Months /\ month \in Months /\ mon[r] <= month
        /\ units[key[r]][mon[r]] \in Nat /\ overages[key[r]] \in Nat /\ begun[key[r]] \in Nat
    <3>1. key[r] \in ApiKeys /\ mon[r] \in Months /\ month \in Months /\ mon[r] <= month
      BY <1>0 DEF BillingShape, ClockOrder
    <3>2. units[key[r]] \in [Months -> Nat]
      BY <1>0, <3>1 DEF BillingShape
    <3> QED
      BY <1>0, <3>1, <3>2 DEF BillingShape
  <2>1. BillingShape' /\ ClockOrder'
    <3>1. got' \in [Reqs -> Nat]
      <4>1. PICK n \in Nat : got' = [got EXCEPT ![r] = n]
        <5>1. \/ got' = [got EXCEPT ![r] = units[key[r]][mon[r]]]
              \/ got' = [got EXCEPT ![r] = 0]
              \/ got' = [got EXCEPT ![r] = overages[key[r]]]
          BY <1>6 DEF ReadUnits
        <5> QED
          BY <2>0, <5>1
      <4> QED
        BY <1>0, <4>1 DEF BillingShape
    <3>2. mon' \in [Reqs -> Months] /\ ClockOrder'
      <4>1. mon' = [mon EXCEPT ![r] = month] /\ month' = month
        BY <1>6 DEF ReadUnits, ReadClock
      <4> QED
        BY <1>0, <2>0, <4>1, MonthFacts DEF BillingShape, ClockOrder
    <3> QED
      BY <1>0, <1>6, <3>1, <3>2 DEF ReadUnits, BillingShape, Goto, counters
  <2>2. MemoryBounded'
    BY <1>0, <1>6, MemoryStays DEF ReadUnits, Goto, BillingShape, counters
  <2>3. RowsCovered'
    BY <1>0, <1>6 DEF ReadUnits, RowsCovered, counters
  <2>4. CarriedCovered'
    <3> SUFFICES ASSUME NEW s \in Reqs, pc'[s] \in {"publish", "write"}
                 PROVE  IF client = "nil" THEN got'[s] <= begun[key[s]]
                        ELSE CoveredBy(units[key[s]], mon'[s], got'[s])
      BY <1>6 DEF CarriedCovered, ReadUnits, counters
    <3>1. CASE s = r /\ client = "nil"
      <4>1. got'[s] = overages[key[r]]
        BY <1>0, <1>6, <3>1 DEF ReadUnits, BillingShape
      <4>2. /\ IsFiniteSet(Waiting(key[r]))
            /\ overages[key[r]] + Cardinality(Waiting(key[r])) <= begun[key[r]]
        BY <1>0, <2>0 DEF MemoryBounded
      <4>3. Cardinality(Waiting(key[r])) \in Nat
        BY <4>2, FS_CardinalityType
      <4> QED
        BY <2>0, <3>1, <4>1, <4>2, <4>3
    <3>2. CASE s = r /\ client # "nil"
      <4>1. mon'[s] = month /\ got'[s] \in {units[key[r]][mon[r]], 0}
        BY <1>0, <1>6, <3>2 DEF ReadUnits, BillingShape, ReadClock
      <4>2. mon[r] \in 1..month
        BY <2>0, MonthFacts
      <4>3. got'[s] <= units[key[r]][mon[r]]
        BY <2>0, <4>1
      <4> QED
        BY <3>2, <4>1, <4>2, <4>3 DEF CoveredBy
    <3>3. CASE s # r
      BY <1>0, <1>6, <3>3 DEF ReadUnits, BillingShape, CarriedCovered, Goto, ReadClock
    <3> QED
      BY <3>1, <3>2, <3>3
  <2> QED
    BY <2>1, <2>2, <2>3, <2>4 DEF BillingInv
<1>7. ASSUME NEW r \in Reqs, Publish(r)
      PROVE  BillingInv'
  <2>1. BillingShape' /\ ClockOrder'
    BY <1>0, <1>7 DEF Publish, BillingShape, ClockOrder, Goto
  <2>2. MemoryBounded'
    BY <1>0, <1>7, MemoryStays DEF Publish, Goto, BillingShape
  <2>3. CarriedCovered' /\ RowsCovered'
    BY <1>0, <1>7, <2>1, QuietStep DEF Publish, BillingShape, Goto
  <2> QED
    BY <2>1, <2>2, <2>3 DEF BillingInv
<1>8. ASSUME NEW r \in Reqs, RecordBillingOverage(r)
      PROVE  BillingInv'
  <2>0. /\ key[r] \in ApiKeys /\ mon[r] \in Months /\ rows[key[r]] \in [Months -> Nat]
        /\ got[r] \in Nat
    BY <1>0 DEF BillingShape
  <2>1. \/ rows' = [rows EXCEPT ![key[r]][mon[r]] = got[r]]
        \/ rows' = rows
    BY <1>8 DEF RecordBillingOverage, Write
  <2>2. rows' \in [ApiKeys -> [Months -> Nat]]
    <3>1. CASE rows' = [rows EXCEPT ![key[r]][mon[r]] = got[r]]
      <4>1. [rows[key[r]] EXCEPT ![mon[r]] = got[r]] \in [Months -> Nat]
        BY <2>0
      <4>2. rows' = [rows EXCEPT ![key[r]] = [rows[key[r]] EXCEPT ![mon[r]] = got[r]]]
        BY <3>1
      <4> QED
        BY <1>0, <2>0, <4>1, <4>2 DEF BillingShape
    <3> QED
      BY <1>0, <2>1, <3>1 DEF BillingShape
  <2>3. BillingShape' /\ ClockOrder'
    BY <1>0, <1>8, <2>2 DEF RecordBillingOverage, BillingShape, ClockOrder, Goto
  <2>4. MemoryBounded'
    BY <1>0, <1>8, MemoryStays DEF RecordBillingOverage, Goto, BillingShape
  <2>5. CarriedCovered'
    BY <1>0, <1>8 DEF RecordBillingOverage, BillingShape, CarriedCovered, Goto
  <2>6. RowsCovered'
    <3> SUFFICES ASSUME NEW k \in ApiKeys, NEW m \in Months
                 PROVE  IF <<k, m>> \in local' THEN rows'[k][m] <= begun[k]
                        ELSE CoveredBy(units[k], m, rows'[k][m])
      BY <1>8 DEF RowsCovered, RecordBillingOverage
    <3>1. IF client = "nil" THEN got[r] <= begun[key[r]]
          ELSE CoveredBy(units[key[r]], mon[r], got[r])
      BY <1>0, <1>8 DEF RecordBillingOverage, CarriedCovered
    <3>2. IF <<k, m>> \in local THEN rows[k][m] <= begun[k]
          ELSE CoveredBy(units[k], m, rows[k][m])
      BY <1>0 DEF RowsCovered
    <3>3. CASE UNCHANGED <<rows, local>>
      BY <3>2, <3>3
    <3>4. CASE Write(r, got[r]) /\ k = key[r] /\ m = mon[r]
      <4>1. rows'[k][m] = got[r]
        BY <1>0, <2>0, <3>4 DEF Write, BillingShape
      <4>2. <<k, m>> \in local' <=> client = "nil"
        BY <3>4 DEF Write
      <4> QED
        BY <3>1, <3>4, <4>1, <4>2
    <3>5. CASE Write(r, got[r]) /\ ~(k = key[r] /\ m = mon[r])
      <4>1. rows'[k][m] = rows[k][m]
        BY <1>0, <2>0, <3>5 DEF Write, BillingShape
      <4>2. <<k, m>> \in local' <=> <<k, m>> \in local
        BY <3>5 DEF Write
      <4> QED
        BY <3>2, <4>1, <4>2
    <3> QED
      BY <1>8, <3>3, <3>4, <3>5 DEF RecordBillingOverage
  <2> QED
    BY <2>3, <2>4, <2>5, <2>6 DEF BillingInv
<1>9. ASSUME NEW r \in Reqs, Announce(r)
      PROVE  BillingInv'
  <2>1. BillingShape' /\ ClockOrder'
    BY <1>0, <1>9 DEF Announce, BillingShape, ClockOrder, Goto
  <2>2. MemoryBounded'
    BY <1>0, <1>9, MemoryStays DEF Announce, Goto, BillingShape
  <2>3. CarriedCovered' /\ RowsCovered'
    BY <1>0, <1>9, <2>1, QuietStep DEF Announce, BillingShape, Goto
  <2> QED
    BY <2>1, <2>2, <2>3 DEF BillingInv
<1>10. CASE MonthTurns
  <2>1. BillingShape' /\ ClockOrder'
    BY <1>0, <1>10, BillingAssumption DEF MonthTurns, BillingShape, ClockOrder, Months, counters
  <2>2. MemoryBounded'
    BY <1>0, <1>10, MemoryStays DEF MonthTurns, BillingShape, counters
  <2>3. CarriedCovered' /\ RowsCovered'
    BY <1>0, <1>10, <2>1, QuietStep DEF MonthTurns, BillingShape, counters
  <2> QED
    BY <2>1, <2>2, <2>3 DEF BillingInv
<1>11. CASE Restart
  <2>1. BillingShape' /\ ClockOrder'
    BY <1>0, <1>11 DEF Restart, BillingShape, ClockOrder
  <2>2. MemoryBounded'
    BY <1>0, <1>11, MemoryStays DEF Restart, BillingShape
  <2>3. CarriedCovered' /\ RowsCovered'
    BY <1>0, <1>11, <2>1, QuietStep DEF Restart, BillingShape
  <2> QED
    BY <2>1, <2>2, <2>3 DEF BillingInv
<1>12. CASE UNCHANGED vars
  <2>1. BillingShape' /\ ClockOrder'
    BY <1>0, <1>12 DEF vars, counters, BillingShape, ClockOrder
  <2>2. MemoryBounded'
    BY <1>0, <1>12, MemoryStays DEF vars, counters, BillingShape
  <2>3. CarriedCovered' /\ RowsCovered'
    BY <1>0, <1>12, <2>1, QuietStep DEF vars, counters, BillingShape
  <2> QED
    BY <2>1, <2>2, <2>3 DEF BillingInv
<1> QED
  BY <1>1, <1>2, <1>3, <1>4, <1>5, <1>6, <1>7, <1>8, <1>9, <1>10, <1>11, <1>12
     DEF Next, NotBurst, RunScript, LoseReply

LEMMA BillingInvariant == Spec => []BillingInv
<1>1. Init => BillingInv
  BY BillingInitially
<1>2. BillingInv /\ [Next]_vars => BillingInv'
  BY BillingStepwise
<1> QED
  BY <1>1, <1>2, PTL DEF Spec

\* Billing (step 6 of serveInternal, RecordBillingOverage): no row carries
\* more than was counted for the key in its month or an earlier one, or than
\* the key had bursts, for any number of concurrent bursts, failed calls, lost
\* replies and restarts.
THEOREM BillingNeverOverbilled == Spec => []NeverOverbilled
<1>1. BillingInv => NeverOverbilled
  BY DEF BillingInv, RowsCovered, CoveredBy, NeverOverbilled
<1> QED
  BY <1>1, BillingInvariant, PTL

-----------------------------------------------------------------------------
(* Who announces a burst.  With Redis the script does, and no request ever *)
(* reaches the handler's own announcement; without it no request reaches   *)
(* the script.  The events and the requests that still owe one are covered *)
(* by the bursts and the replies lost.                                     *)

OneAnnouncer ==
    \A r \in Reqs : IF client = "nil" THEN pc[r] # "script" ELSE pc[r] # "announce"

\* Requests of key k that will still announce their burst, if they get to it
Owing(k) ==
    {r \in Reqs : key[r] = k /\ (pc[r] = "script" \/ (client = "nil" /\ pc[r] # "idle"))}

EventsBounded ==
    \A k \in ApiKeys :
        /\ IsFiniteSet(Owing(k))
        /\ events[k] + Cardinality(Owing(k)) <= begun[k] + lost

AnnounceInv ==
    /\ events \in [ApiKeys -> Nat]
    /\ lost \in Nat
    /\ OneAnnouncer
    /\ EventsBounded

LEMMA AnnounceInitially == Init => AnnounceInv
<1> SUFFICES ASSUME Init PROVE AnnounceInv
  OBVIOUS
<1>1. events \in [ApiKeys -> Nat] /\ lost \in Nat /\ OneAnnouncer
  BY DEF Init, OneAnnouncer
<1>2. EventsBounded
  <2> SUFFICES ASSUME NEW k \in ApiKeys
               PROVE  IsFiniteSet(Owing(k)) /\ events[k] + Cardinality(Owing(k)) <= begun[k] + lost
    BY DEF EventsBounded
  <2>1. Owing(k) = {}
    BY DEF Init, Owing
  <2>2. IsFiniteSet({}) /\ Cardinality({}) = 0
    BY FS_EmptySet
  <2>3. events[k] = 0 /\ begun[k] = 0 /\ lost = 0
    BY DEF Init
  <2> QED
    BY <2>1, <2>2, <2>3
<1> QED
  BY <1>1, <1>2 DEF AnnounceInv

\* What is owed for one key, when the requests that owe become fewer, by one
\* at least if the step announced a burst that no lost reply accounts for.
LEMMA OwedFewer ==
    ASSUME NEW A, NEW B, IsFiniteSet(A), B \subseteq A,
           NEW e \in Nat, NEW e2 \in Nat, NEW b \in Nat, NEW b2 \in Nat,
           e + Cardinality(A) <= b, b <= b2,
           \/ e2 = e
           \/ e2 = e + 1 /\ b2 = b + 1
           \/ e2 = e + 1 /\ \E r \in A : r \notin B
    PROVE  IsFiniteSet(B) /\ e2 + Cardinality(B) <= b2
<1>1. /\ IsFiniteSet(B) /\ Cardinality(B) <= Cardinality(A)
      /\ Cardinality(A) = Cardinality(B) => A = B
  BY FS_Subset
<1>2. Cardinality(A) \in Nat /\ Cardinality(B) \in Nat
  BY <1>1, FS_CardinalityType
<1>3. e2 = e + 1 /\ (\E r \in A : r \notin B) => Cardinality(A) # Cardinality(B)
  BY <1>1
<1> DEFINE a == Cardinality(A)
           c == Cardinality(B)
           gone == \E r \in A : r \notin B
<1> HIDE DEF a, c, gone
<1>4. e2 + c <= b2
  <2>1. a \in Nat /\ c \in Nat /\ c <= a /\ e + a <= b
    BY <1>1, <1>2 DEF a, c
  <2>2. e2 = e + 1 /\ gone => a # c
    BY <1>3 DEF a, c, gone
  <2>3. (e2 = e) \/ (e2 = e + 1 /\ b2 = b + 1) \/ (e2 = e + 1 /\ gone)
    BY DEF gone
  <2> QED
    BY <2>1, <2>2, <2>3
<1> QED
  BY <1>1, <1>4 DEF c

\* A step in which no request comes to owe an announcement.
LEMMA EventsStay ==
    ASSUME BillingShape, BillingShape', AnnounceInv, events' \in [ApiKeys -> Nat], lost' \in Nat,
           lost <= lost', begun' = begun,
           \A s \in Reqs, k \in ApiKeys : s \in Owing(k)' => s \in Owing(k),
           \A k \in ApiKeys :
              \/ events'[k] = events[k]
              \/ events'[k] = events[k] + 1 /\ lost' = lost + 1
              \/ events'[k] = events[k] + 1 /\ \E r \in Owing(k) : r \notin Owing(k)'
    PROVE  EventsBounded'
<1> SUFFICES ASSUME NEW k \in ApiKeys
             PROVE  /\ IsFiniteSet(Owing(k)')
                    /\ events'[k] + Cardinality(Owing(k)') <= begun'[k] + lost'
  BY DEF EventsBounded
<1> DEFINE A == Owing(k)
           B == Owing(k)'
           b == begun[k] + lost
           b2 == begun'[k] + lost'
<1>1. IsFiniteSet(A) /\ events[k] + Cardinality(A) <= b
  BY DEF AnnounceInv, EventsBounded
<1>2. B \subseteq A
  BY DEF Owing
<1>3. begun[k] \in Nat /\ events[k] \in Nat /\ events'[k] \in Nat /\ lost \in Nat
  BY DEF BillingShape, AnnounceInv
<1>4. b \in Nat /\ b2 \in Nat /\ b <= b2 /\ (lost' = lost + 1 => b2 = b + 1)
  BY <1>3
<1>5. \/ events'[k] = events[k]
      \/ events'[k] = events[k] + 1 /\ b2 = b + 1
      \/ events'[k] = events[k] + 1 /\ \E r \in A : r \notin B
  <2>1. \/ events'[k] = events[k]
        \/ events'[k] = events[k] + 1 /\ lost' = lost + 1
        \/ events'[k] = events[k] + 1 /\ \E r \in A : r \notin B
    OBVIOUS
  <2> HIDE DEF A, B, b, b2
  <2> QED
    BY <1>4, <2>1
<1> HIDE DEF A, B, b, b2
<1>6. IsFiniteSet(B) /\ events'[k] + Cardinality(B) <= b2
  BY <1>1, <1>2, <1>3, <1>4, <1>5, OwedFewer
<1> QED
  BY <1>6 DEF B, b2

\* A burst begins: one more request owes, and there is one more burst.
LEMMA EventsBegin ==
    ASSUME BillingShape, AnnounceInv, NEW r \in Reqs, NEW k0 \in ApiKeys, Burst(r, k0)
    PROVE  EventsBounded'
<1> SUFFICES ASSUME NEW k \in ApiKeys
             PROVE  /\ IsFiniteSet(Owing(k)')
                    /\ events'[k] + Cardinality(Owing(k)') <= begun'[k] + lost'
  BY DEF EventsBounded
<1>1. /\ IsFiniteSet(Owing(k)) /\ events[k] + Cardinality(Owing(k)) <= begun[k] + lost
      /\ events[k] \in Nat /\ begun[k] \in Nat /\ lost \in Nat
      /\ events' = events /\ lost' = lost
  BY DEF EventsBounded, AnnounceInv, BillingShape, Burst, counters
<1>2. Cardinality(Owing(k)) \in Nat /\ r \notin Owing(k)
  BY <1>1, FS_CardinalityType DEF Owing, Burst
<1>3. CASE k = k0
  <2>1. Owing(k)' = Owing(k) \cup {r}
    BY <1>3 DEF Owing, Burst, Goto, BillingShape
  <2>2. IsFiniteSet(Owing(k)') /\ Cardinality(Owing(k)') = Cardinality(Owing(k)) + 1
    BY <1>1, <1>2, <2>1, FS_AddElement
  <2>3. begun'[k] = begun[k] + 1
    BY <1>3 DEF Burst, BillingShape
  <2> QED
    BY <1>1, <1>2, <2>2, <2>3
<1>4. CASE k # k0
  <2>1. Owing(k)' = Owing(k)
    BY <1>2, <1>4 DEF Owing, Burst, Goto, BillingShape
  <2>2. begun'[k] = begun[k]
    BY <1>4 DEF Burst, BillingShape
  <2> QED
    BY <1>1, <2>1, <2>2
<1> QED
  BY <1>3, <1>4

\* A step of request r that announces nothing.
LEMMA SilentStep ==
    ASSUME BillingShape, BillingShape', AnnounceInv, NEW r \in Reqs, NEW label, Goto(r, label),
           UNCHANGED <<client, begun, lost, events, key>>,
           label # "script", pc[r] # "idle",
           client # "nil" => label # "announce"
    PROVE  AnnounceInv'
<1>1. \A s \in Reqs, k \in ApiKeys : s \in Owing(k)' => s \in Owing(k)
  BY DEF Owing, Goto, BillingShape
<1>2. OneAnnouncer'
  BY DEF AnnounceInv, OneAnnouncer, Goto, BillingShape
<1>3. events' \in [ApiKeys -> Nat] /\ lost' \in Nat /\ lost <= lost' /\ begun' = begun
  BY DEF AnnounceInv
<1>4. EventsBounded'
  BY <1>1, <1>3, EventsStay
<1> QED
  BY <1>2, <1>3, <1>4 DEF AnnounceInv

\* HINCRBY and XADD: one more event of the request's key.
LEMMA OneEvent ==
    ASSUME BillingShape, AnnounceInv, NEW r \in Reqs,
           events' = [events EXCEPT ![key[r]] = @ + 1]
    PROVE  /\ events' \in [ApiKeys -> Nat]
           /\ \A k \in ApiKeys : events'[k] = IF k = key[r] THEN events[k] + 1 ELSE events[k]
BY DEF BillingShape, AnnounceInv

LEMMA AnnounceStepwise ==
    ASSUME BillingInv, BillingInv', AnnounceInv, [Next]_vars
    PROVE  AnnounceInv'
<1>0. BillingShape /\ BillingShape'
  BY DEF BillingInv
<1>1. ASSUME NEW r \in Reqs, NEW k \in ApiKeys, Burst(r, k)
      PROVE  AnnounceInv'
  <2>1. EventsBounded'
    BY <1>0, <1>1, EventsBegin
  <2>2. OneAnnouncer'
    BY <1>0, <1>1 DEF AnnounceInv, OneAnnouncer, Burst, Goto, BillingShape
  <2> QED
    BY <1>1, <2>1, <2>2 DEF AnnounceInv, Burst, counters
<1>2. ASSUME NEW r \in Reqs, RunScript(r)
      PROVE  AnnounceInv'
  <2>1. /\ pc[r] = "script" /\ pc' = [pc EXCEPT ![r] = "read"]
        /\ UNCHANGED <<client, begun, lost, key>>
        /\ events' = [events EXCEPT ![key[r]] = @ + 1]
    BY <1>2 DEF RunScript, Count, Goto
  <2>2. client # "nil" /\ OneAnnouncer'
    BY <1>0, <2>1 DEF AnnounceInv, OneAnnouncer, BillingShape
  <2>3. \A s \in Reqs, k \in ApiKeys : s \in Owing(k)' => s \in Owing(k)
    BY <1>0, <2>1, <2>2 DEF Owing, BillingShape
  <2>4. r \in Owing(key[r]) /\ \A k \in ApiKeys : r \notin Owing(k)'
    BY <1>0, <2>1, <2>2 DEF Owing, BillingShape
  <2>5. /\ events' \in [ApiKeys -> Nat]
        /\ \A k \in ApiKeys : \/ events'[k] = events[k]
                              \/ events'[k] = events[k] + 1 /\ \E q \in Owing(k) : q \notin Owing(k)'
    BY <1>0, <2>1, <2>4, OneEvent
  <2>6. lost' \in Nat /\ lost <= lost' /\ begun' = begun
    BY <2>1 DEF AnnounceInv
  <2>7. EventsBounded'
    BY <1>0, <2>3, <2>5, <2>6, EventsStay
  <2> QED
    BY <2>2, <2>5, <2>6, <2>7 DEF AnnounceInv
<1>3. ASSUME NEW r \in Reqs, LoseReply(r)
      PROVE  AnnounceInv'
  <2>1. /\ pc[r] = "script"
        /\ pc' = [pc EXCEPT ![r] = "script"] \/ pc' = [pc EXCEPT ![r] = "memory"]
        /\ UNCHANGED <<client, begun, key>> /\ lost' = lost + 1
        /\ events' = [events EXCEPT ![key[r]] = @ + 1]
    BY <1>3 DEF LoseReply, Count, Goto
  <2>2. client # "nil" /\ OneAnnouncer'
    BY <1>0, <2>1 DEF AnnounceInv, OneAnnouncer, BillingShape
  <2>3. \A s \in Reqs, k \in ApiKeys : s \in Owing(k)' => s \in Owing(k)
    BY <1>0, <2>1, <2>2 DEF Owing, BillingShape
  <2>4. lost' \in Nat /\ lost <= lost' /\ begun' = begun
    BY <2>1 DEF AnnounceInv
  <2>5. /\ events' \in [ApiKeys -> Nat]
        /\ \A k \in ApiKeys : \/ events'[k] = events[k]
                              \/ events'[k] = events[k] + 1 /\ lost' = lost + 1
    BY <1>0, <2>1, OneEvent
  <2>6. EventsBounded'
    BY <1>0, <2>3, <2>4, <2>5, EventsStay
  <2> QED
    BY <2>2, <2>4, <2>5, <2>6 DEF AnnounceInv
<1>4. ASSUME NEW r \in Reqs, FailScript(r)
      PROVE  AnnounceInv'
  BY <1>0, <1>4, SilentStep DEF FailScript, counters
<1>5. ASSUME NEW r \in Reqs, MemoryCheck(r)
      PROVE  AnnounceInv'
  BY <1>0, <1>5, SilentStep DEF MemoryCheck
<1>6. ASSUME NEW r \in Reqs, ReadUnits(r)
      PROVE  AnnounceInv'
  BY <1>0, <1>6, SilentStep DEF ReadUnits, counters
<1>7. ASSUME NEW r \in Reqs, Publish(r)
      PROVE  AnnounceInv'
  BY <1>0, <1>7, SilentStep DEF Publish
<1>8. ASSUME NEW r \in Reqs, RecordBillingOverage(r)
      PROVE  AnnounceInv'
  <2>1. CASE client # "nil"
    BY <1>0, <1>8, <2>1, SilentStep DEF RecordBillingOverage
  <2>2. CASE client = "nil"
    BY <1>0, <1>8, <2>2, SilentStep DEF RecordBillingOverage
  <2> QED
    BY <2>1, <2>2
<1>9. ASSUME NEW r \in Reqs, Announce(r)
      PROVE  AnnounceInv'
  <2>1. /\ pc[r] = "announce" /\ pc' = [pc EXCEPT ![r] = "idle"]
        /\ UNCHANGED <<client, begun, lost, key>>
        /\ events' = [events EXCEPT ![key[r]] = @ + 1]
    BY <1>9 DEF Announce, Goto
  <2>2. client = "nil" /\ OneAnnouncer'
    BY <1>0, <2>1 DEF AnnounceInv, OneAnnouncer, BillingShape
  <2>3. \A s \in Reqs, k \in ApiKeys : s \in Owing(k)' => s \in Owing(k)
    BY <1>0, <2>1, <2>2 DEF Owing, BillingShape
  <2>4. r \in Owing(key[r]) /\ \A k \in ApiKeys : r \notin Owing(k)'
    BY <1>0, <2>1, <2>2 DEF Owing, BillingShape
  <2>5. /\ events' \in [ApiKeys -> Nat]
        /\ \A k \in ApiKeys : \/ events'[k] = events[k]
                              \/ events'[k] = events[k] + 1 /\ \E q \in Owing(k) : q \notin Owing(k)'
    BY <1>0, <2>1, <2>4, OneEvent
  <2>6. lost' \in Nat /\ lost <= lost' /\ begun' = begun
    BY <2>1 DEF AnnounceInv
  <2>7. EventsBounded'
    BY <1>0, <2>3, <2>5, <2>6, EventsStay
  <2> QED
    BY <2>2, <2>5, <2>6, <2>7 DEF AnnounceInv
<1>10. ASSUME UNCHANGED <<begun, lost, events, key>>, UNCHANGED <<client, pc>> \/ Restart
       PROVE  AnnounceInv'
  <2>1. \A s \in Reqs, k \in ApiKeys : s \in Owing(k)' => s \in Owing(k)
    BY <1>10 DEF Owing, Restart
  <2>2. OneAnnouncer'
    BY <1>10 DEF AnnounceInv, OneAnnouncer, Restart
  <2>3. events' \in [ApiKeys -> Nat] /\ lost' \in Nat /\ lost <= lost' /\ begun' = begun
    BY <1>10 DEF AnnounceInv
  <2>4. EventsBounded'
    BY <1>0, <1>10, <2>1, <2>3, EventsStay
  <2> QED
    BY <2>2, <2>3, <2>4 DEF AnnounceInv
<1>11. CASE MonthTurns
  BY <1>10, <1>11 DEF MonthTurns, counters
<1>12. CASE Restart
  BY <1>10, <1>12 DEF Restart
<1>13. CASE UNCHANGED vars
  BY <1>10, <1>13 DEF vars, counters
<1> QED
  BY <1>1, <1>2, <1>3, <1>4, <1>5, <1>6, <1>7, <1>8, <1>9, <1>11, <1>12, <1>13
     DEF Next, NotBurst

\* Announcing a burst (lua.go's XADD, webhookEngine.Publish of step 6): a
\* customer is told of no more bursts than there were and replies were lost,
\* whatever the gateway finds of Redis when it starts again.
THEOREM BillingAnnouncedOnce == Spec => []AnnouncedOnce
<1>1. Init => AnnounceInv
  BY AnnounceInitially
<1>2. BillingInv /\ BillingInv' /\ AnnounceInv /\ [Next]_vars => AnnounceInv'
  BY AnnounceStepwise
<1>3. BillingInv /\ AnnounceInv => AnnouncedOnce
  <2> SUFFICES ASSUME BillingInv, AnnounceInv, NEW k \in ApiKeys
               PROVE  events[k] <= begun[k] + lost
    BY DEF AnnouncedOnce
  <2>1. IsFiniteSet(Owing(k)) /\ events[k] + Cardinality(Owing(k)) <= begun[k] + lost
    BY DEF AnnounceInv, EventsBounded
  <2>2. Cardinality(Owing(k)) \in Nat
    BY <2>1, FS_CardinalityType
  <2>3. events[k] \in Nat /\ begun[k] \in Nat /\ lost \in Nat
    BY DEF AnnounceInv, BillingInv, BillingShape
  <2> QED
    BY <2>1, <2>2, <2>3
<1> QED
  BY <1>1, <1>2, <1>3, BillingInvariant, PTL DEF Spec
=============================================================================
