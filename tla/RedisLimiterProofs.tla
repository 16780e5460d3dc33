------------------------- MODULE RedisLimiterProofs -------------------------
(***************************************************************************)
(* The sliding-window promise of the rate limiters for all limits, windows *)
(* and keys.                                                               *)
(*                                                                         *)
(* InMemoryLimiter: the slice of a key is related to the history of its    *)
(* grants: it is a suffix of it, and what it lacks has left the window.    *)
(*                                                                         *)
(* RedisLimiter: for any number of concurrent requests and any delay below *)
(* the window, the requests let through are counted against the members of *)
(* the sorted set and the grants of the fallback.                          *)
(***************************************************************************)
EXTENDS RedisLimiter, FiniteSetTheorems, TLAPS

-----------------------------------------------------------------------------
(* Facts about sequences of timestamps: g is a history, w a slice of it.   *)

\* g is ordered and ends by time t.
OrderedUpTo(g, t) ==
    /\ \A i \in 1..Len(g) : g[i] <= t
    /\ \A i, j \in 1..Len(g) : i <= j => g[i] <= g[j]

\* w is a suffix of g that lacks nothing later than m.
IsSuffix(w, g, m) ==
    /\ Len(w) <= Len(g)
    /\ \A i \in 1..Len(w) : w[i] = g[Len(g) - Len(w) + i]
    /\ \A i \in 1..(Len(g) - Len(w)) : g[i] <= m

\* Elements of g that are C apart are at least W apart in time.
SpreadOver(g, C, W) ==
    \A i \in 1..(Len(g) - C) : g[i + C] >= g[i] + W

AllLater(w, m) == \A i \in 1..Len(w) : w[i] > m

LEMMA SeqFacts ==
  ASSUME NEW T, NEW s \in Seq(T)
  PROVE  /\ Len(s) \in Nat
         /\ \A i \in 1..Len(s) : s[i] \in T
  OBVIOUS

LEMMA AppendFacts ==
  ASSUME NEW T, NEW s \in Seq(T), NEW t \in T
  PROVE  /\ Append(s, t) \in Seq(T)
         /\ Len(Append(s, t)) = Len(s) + 1
         /\ \A i \in 1..Len(s) : Append(s, t)[i] = s[i]
         /\ Append(s, t)[Len(s) + 1] = t
  OBVIOUS

LEMMA SubSeqFacts ==
  ASSUME NEW T, NEW s \in Seq(T), NEW idx \in 0..Len(s)
  PROVE  /\ SubSeq(s, idx + 1, Len(s)) \in Seq(T)
         /\ Len(SubSeq(s, idx + 1, Len(s))) = Len(s) - idx
         /\ \A i \in 1..(Len(s) - idx) : SubSeq(s, idx + 1, Len(s))[i] = s[idx + i]
  OBVIOUS

\* Cutting the slice at the index that sort.Search finds leaves a suffix of
\* the history that holds what is later than m and nothing else.
LEMMA PrunedSuffix ==
  ASSUME NEW T, T \subseteq Int, NEW w \in Seq(T), NEW g \in Seq(T), NEW m \in Int,
         NEW t, OrderedUpTo(g, t), IsSuffix(w, g, m),
         NEW idx \in 0..Len(w), Search(w, m, idx)
  PROVE  /\ SubSeq(w, idx + 1, Len(w)) \in Seq(T)
         /\ IsSuffix(SubSeq(w, idx + 1, Len(w)), g, m)
         /\ AllLater(SubSeq(w, idx + 1, Len(w)), m)
<1> DEFINE lw == Len(w)
           lg == Len(g)
           p == lg - lw
           ts == SubSeq(w, idx + 1, lw)
<1>1. lw \in Nat /\ lg \in Nat /\ lw <= lg /\ idx \in 0..lw
  BY SeqFacts DEF IsSuffix
<1>2. /\ ts \in Seq(T) /\ Len(ts) = lw - idx
      /\ \A i \in 1..(lw - idx) : ts[i] = w[idx + i]
  BY SubSeqFacts
<1>3. \A i \in 1..lg : g[i] \in Int
  BY SeqFacts
<1>4. /\ idx > 0 => w[idx] <= m
      /\ idx < lw => w[idx + 1] > m
  BY DEF Search
<1>5. /\ \A i \in 1..lw : w[i] = g[p + i]
      /\ \A i \in 1..p : g[i] <= m
  BY DEF IsSuffix
<1>6. \A i, j \in 1..lg : i <= j => g[i] <= g[j]
  BY DEF OrderedUpTo
<1>7. p \in Nat /\ p + lw = lg
  BY <1>1
<1> HIDE DEF lw, lg, ts, p
<1>8. ASSUME NEW i \in 1..(p + idx) PROVE g[i] <= m
  <2>1. CASE i <= p
    BY <1>5, <1>7, <2>1
  <2>2. CASE i > p
    <3>1. /\ idx > 0 /\ idx \in 1..lw /\ i \in 1..lg
          /\ p + idx \in 1..lg /\ i <= p + idx
      BY <1>1, <1>7, <2>2
    <3>2. g[p + idx] <= m
      BY <1>4, <1>5, <3>1
    <3>3. g[i] <= g[p + idx]
      BY <1>6, <3>1
    <3>4. g[i] \in Int /\ g[p + idx] \in Int
      BY <1>3, <3>1
    <3>5. QED
      BY <3>2, <3>3, <3>4
  <2>3. QED
    BY <1>7, <2>1, <2>2
<1>9. ASSUME NEW i \in 1..(lw - idx)
      PROVE ts[i] = g[p + idx + i] /\ ts[i] > m
  <2>1. /\ idx < lw /\ idx + 1 \in 1..lw /\ idx + i \in 1..lw
        /\ p + (idx + i) \in 1..lg /\ p + (idx + i) = p + idx + i
        /\ p + (idx + 1) \in 1..lg /\ p + (idx + 1) <= p + (idx + i)
    BY <1>1, <1>7
  <2>2. ts[i] = w[idx + i] /\ w[idx + i] = g[p + (idx + i)]
    BY <1>2, <1>5, <2>1
  <2>3. g[p + (idx + 1)] > m
    BY <1>4, <1>5, <2>1
  <2>4. g[p + (idx + 1)] <= g[p + (idx + i)]
    BY <1>6, <2>1
  <2>5. g[p + (idx + i)] \in Int /\ g[p + (idx + 1)] \in Int
    BY <1>3, <2>1
  <2>6. ts[i] > m
    BY <2>2, <2>3, <2>4, <2>5
  <2>7. QED
    BY <2>1, <2>2, <2>6
<1>10. Len(ts) = lw - idx /\ Len(ts) <= lg /\ lg - Len(ts) = p + idx
  BY <1>1, <1>2, <1>7
<1>11. IsSuffix(ts, g, m)
  <2>1. Len(g) = lg
    BY DEF lg
  <2>2. QED
    BY <1>8, <1>9, <1>10, <2>1 DEF IsSuffix
<1>12. AllLater(ts, m)
  BY <1>9, <1>10 DEF AllLater
<1>13. QED
  BY <1>2, <1>11, <1>12 DEF ts, lw

\* Adding t to a history and to a slice of it with less than C elements keeps
\* how they are related and the spread of the history.
LEMMA AppendedGrant ==
  ASSUME NEW T, T \subseteq Int, NEW g \in Seq(T), NEW w \in Seq(T), NEW t \in T,
         NEW W \in Nat, NEW C \in Nat, Len(w) < C,
         OrderedUpTo(g, t), IsSuffix(w, g, t - W), SpreadOver(g, C, W)
  PROVE  /\ Append(g, t) \in Seq(T) /\ Append(w, t) \in Seq(T)
         /\ Len(Append(w, t)) <= C
         /\ OrderedUpTo(Append(g, t), t)
         /\ IsSuffix(Append(w, t), Append(g, t), t - W)
         /\ SpreadOver(Append(g, t), C, W)
<1> DEFINE n == Len(g)
           l == Len(w)
           q == n - l
           h == Append(g, t)
           v == Append(w, t)
<1>1. n \in Nat /\ l \in Nat /\ l <= n /\ t \in Int /\ l < C
  BY SeqFacts DEF IsSuffix
<1>2. q \in Nat /\ q <= n /\ q + l = n
  BY <1>1
<1>3. /\ h \in Seq(T) /\ Len(h) = n + 1 /\ h[n + 1] = t
      /\ \A i \in 1..n : h[i] = g[i]
  BY AppendFacts
<1>4. /\ v \in Seq(T) /\ Len(v) = l + 1 /\ v[l + 1] = t
      /\ \A i \in 1..l : v[i] = w[i]
  BY AppendFacts
<1>5. \A i \in 1..n : g[i] \in Int
  BY SeqFacts
<1>6. /\ \A i \in 1..l : w[i] = g[q + i]
      /\ \A i \in 1..q : g[i] <= t - W
  BY DEF IsSuffix
<1>7. /\ \A i \in 1..n : g[i] <= t
      /\ \A i, j \in 1..n : i <= j => g[i] <= g[j]
  BY DEF OrderedUpTo
<1>8. \A i \in 1..(n - C) : g[i + C] >= g[i] + W
  BY DEF SpreadOver
<1> HIDE DEF n, l, q, h, v
<1>9. Len(v) <= Len(h) /\ Len(v) <= C /\ Len(h) - Len(v) = q
  BY <1>1, <1>2, <1>3, <1>4
<1>10. ASSUME NEW i \in 1..Len(v) PROVE v[i] = h[q + i]
  <2>1. CASE i \in 1..l
    <3>1. q + i \in 1..n
      BY <1>1, <1>2, <2>1
    <3>2. QED
      BY <1>3, <1>4, <1>6, <2>1, <3>1
  <2>2. CASE i = l + 1
    <3>1. q + i = n + 1
      BY <1>1, <1>2, <2>2
    <3>2. QED
      BY <1>3, <1>4, <2>2, <3>1
  <2>3. QED
    BY <1>1, <1>4, <2>1, <2>2
<1>11. ASSUME NEW i \in 1..q PROVE h[i] <= t - W
  <2>1. i \in 1..n
    BY <1>1, <1>2
  <2>2. QED
    BY <1>3, <1>6, <2>1
<1>12. IsSuffix(v, h, t - W)
  BY <1>9, <1>10, <1>11 DEF IsSuffix
<1>13. ASSUME NEW i \in 1..Len(h) PROVE h[i] <= t
  <2>1. CASE i \in 1..n
    BY <1>3, <1>7, <2>1
  <2>2. CASE i = n + 1
    BY <1>1, <1>3, <2>2
  <2>3. QED
    BY <1>1, <1>3, <2>1, <2>2
<1>14. ASSUME NEW i \in 1..Len(h), NEW j \in 1..Len(h), i <= j PROVE h[i] <= h[j]
  <2>1. CASE j \in 1..n
    <3>1. i \in 1..n
      BY <1>1, <1>3, <1>14, <2>1
    <3>2. g[i] <= g[j]
      BY <1>7, <1>14, <2>1, <3>1
    <3>3. QED
      BY <1>3, <2>1, <3>1, <3>2
  <2>2. CASE j = n + 1
    BY <1>3, <1>13, <2>2
  <2>3. QED
    BY <1>1, <1>3, <2>1, <2>2
<1>15. OrderedUpTo(h, t)
  BY <1>13, <1>14 DEF OrderedUpTo
<1>16. ASSUME NEW i \in 1..(Len(h) - C) PROVE h[i + C] >= h[i] + W
  <2>1. CASE i + C \in 1..n
    <3>1. i \in 1..n /\ i \in 1..(n - C)
      BY <1>1, <2>1
    <3>2. g[i + C] >= g[i] + W
      BY <1>8, <3>1
    <3>3. QED
      BY <1>3, <2>1, <3>1, <3>2
  <2>2. CASE i + C = n + 1
    <3>1. i \in 1..q /\ i \in 1..n
      BY <1>1, <1>2, <2>2
    <3>2. g[i] <= t - W /\ g[i] \in Int /\ h[i] = g[i]
      BY <1>3, <1>5, <1>6, <3>1
    <3>3. h[i + C] = t
      BY <1>3, <2>2
    <3>4. QED
      BY <1>1, <3>2, <3>3
  <2>3. QED
    BY <1>1, <1>3, <2>1, <2>2
<1>17. SpreadOver(h, C, W)
  BY <1>16 DEF SpreadOver
<1>18. QED
  BY <1>3, <1>4, <1>9, <1>12, <1>15, <1>17 DEF h, v

\* A suffix that lacks nothing later than m, all later than m, counts the
\* elements of the history that are later than m.
LEMMA SuffixCounts ==
  ASSUME NEW T, T \subseteq Int, NEW g \in Seq(T), NEW w \in Seq(T), NEW m \in Int,
         IsSuffix(w, g, m), AllLater(w, m)
  PROVE  Cardinality({i \in 1..Len(g) : g[i] > m}) = Len(w)
<1> DEFINE n == Len(g)
           l == Len(w)
           q == n - l
<1>1. n \in Nat /\ l \in Nat /\ l <= n
  BY SeqFacts DEF IsSuffix
<1>2. \A i \in 1..n : g[i] \in Int
  BY SeqFacts
<1>3. /\ \A i \in 1..l : w[i] = g[q + i]
      /\ \A i \in 1..q : g[i] <= m
  BY DEF IsSuffix
<1>4. \A i \in 1..l : w[i] > m
  BY DEF AllLater
<1>5. q \in Nat /\ q + l = n
  BY <1>1
<1> HIDE DEF n, l, q
<1>6. ASSUME NEW i \in 1..n PROVE (g[i] > m) <=> i \in (q + 1)..n
  <2>1. CASE i <= q
    <3>1. i \in 1..q /\ i \notin (q + 1)..n
      BY <1>1, <1>5, <2>1
    <3>2. QED
      BY <1>2, <1>3, <3>1
  <2>2. CASE i > q
    <3>1. i \in (q + 1)..n /\ i - q \in 1..l /\ q + (i - q) = i
      BY <1>1, <1>5, <2>2
    <3>2. w[i - q] = g[i] /\ w[i - q] > m
      BY <1>3, <1>4, <3>1
    <3>3. QED
      BY <3>1, <3>2
  <2>3. QED
    BY <1>5, <2>1, <2>2
<1>7. {i \in 1..n : g[i] > m} = (q + 1)..n
  <2>1. (q + 1)..n \subseteq 1..n
    BY <1>1, <1>5
  <2>2. QED
    BY <1>6, <2>1
<1>8. Cardinality((q + 1)..n) = l
  <2>1. q + 1 \in Int /\ n \in Int
    BY <1>1, <1>5
  <2>2. Cardinality((q + 1)..n) = IF q + 1 > n THEN 0 ELSE n - (q + 1) + 1
    BY <2>1, FS_Interval
  <2>3. QED
    BY <1>1, <1>5, <2>2
<1>9. QED
  BY <1>7, <1>8 DEF n, l

-----------------------------------------------------------------------------
(* The inductive invariant                                                 *)

LimiterInv ==
    /\ LimiterTypeOK
    /\ \A k \in ApiKeys :
         /\ OrderedUpTo(grants[k], now)
         /\ IsSuffix(windows[k], grants[k], now - Window)
         /\ SpreadOver(grants[k], Capacity, Window)

LEMMA CapacityType ==
  Capacity \in Nat /\ Capacity >= SoftLimit /\ Capacity >= HardLimit
  BY LimiterAssumption DEF Capacity

LEMMA LimiterInvInit == LimiterInit => LimiterInv
<1> SUFFICES ASSUME LimiterInit PROVE LimiterInv
  OBVIOUS
<1>1. \A k \in ApiKeys : windows[k] = <<>> /\ grants[k] = <<>>
  BY DEF LimiterInit
<1>2. globalBurstFreeze \in BOOLEAN
  BY Zenon DEF LimiterInit
<1>3. /\ now = 0 /\ now \in 0..MaxTime /\ status \in Statuses
      /\ overages \in [ApiKeys -> Nat]
      /\ windows \in [ApiKeys -> Seq(0..MaxTime)]
      /\ grants \in [ApiKeys -> Seq(0..MaxTime)]
  BY LimiterAssumption DEF LimiterInit, Statuses
<1>4. \A k \in ApiKeys : Len(windows[k]) <= Capacity
  BY <1>1, CapacityType
<1>5. LimiterTypeOK
  BY <1>2, <1>3, <1>4 DEF LimiterTypeOK
<1>6. /\ OrderedUpTo(<<>>, now)
      /\ IsSuffix(<<>>, <<>>, now - Window)
      /\ SpreadOver(<<>>, Capacity, Window)
  BY CapacityType DEF OrderedUpTo, IsSuffix, SpreadOver
<1>7. QED
  BY <1>1, <1>5, <1>6 DEF LimiterInv

\* Granting to a key with less than Capacity requests in its window.
LEMMA GrantKeepsInv ==
  ASSUME LimiterInv, NEW k \in ApiKeys, NEW ts \in Seq(0..MaxTime),
         IsSuffix(ts, grants[k], now - Window), Len(ts) < Capacity,
         Grant(k, ts), overages' \in [ApiKeys -> Nat], status' \in Statuses,
         UNCHANGED <<now, globalBurstFreeze>>
  PROVE  LimiterInv'
<1> DEFINE h == Append(grants[k], now)
           v == Append(ts, now)
<1>1. /\ LimiterTypeOK
      /\ \A j \in ApiKeys : /\ OrderedUpTo(grants[j], now)
                            /\ IsSuffix(windows[j], grants[j], now - Window)
                            /\ SpreadOver(grants[j], Capacity, Window)
  BY DEF LimiterInv
<1>2. /\ now \in 0..MaxTime /\ MaxTime \in Nat /\ 0..MaxTime \subseteq Int
      /\ windows \in [ApiKeys -> Seq(0..MaxTime)]
      /\ grants \in [ApiKeys -> Seq(0..MaxTime)]
      /\ globalBurstFreeze \in BOOLEAN
      /\ \A j \in ApiKeys : Len(windows[j]) <= Capacity
      /\ Window \in Nat /\ Capacity \in Nat /\ Capacity' = Capacity
  BY <1>1, LimiterAssumption, CapacityType DEF LimiterTypeOK, Capacity
<1>3. /\ h \in Seq(0..MaxTime) /\ v \in Seq(0..MaxTime)
      /\ Len(v) <= Capacity
      /\ OrderedUpTo(h, now)
      /\ IsSuffix(v, h, now - Window)
      /\ SpreadOver(h, Capacity, Window)
  <2>1. grants[k] \in Seq(0..MaxTime)
    BY <1>2
  <2>2. QED
    BY <1>1, <1>2, <2>1, AppendedGrant
<1>4. /\ windows' = [windows EXCEPT ![k] = v]
      /\ grants' = [grants EXCEPT ![k] = h]
      /\ now' = now /\ globalBurstFreeze' = globalBurstFreeze
  BY DEF Grant
<1> HIDE DEF h, v
<1>5. \A j \in ApiKeys :
         /\ windows'[j] = IF j = k THEN v ELSE windows[j]
         /\ grants'[j] = IF j = k THEN h ELSE grants[j]
  BY <1>2, <1>4
<1>6. LimiterTypeOK'
  <2>1. /\ windows' \in [ApiKeys -> Seq(0..MaxTime)]
        /\ grants' \in [ApiKeys -> Seq(0..MaxTime)]
    BY <1>2, <1>3, <1>4
  <2>2. \A j \in ApiKeys : Len(windows'[j]) <= Capacity
    BY <1>2, <1>3, <1>5
  <2>3. now' \in 0..MaxTime /\ globalBurstFreeze' \in BOOLEAN
    BY <1>2, <1>4
  <2>4. QED
    BY <1>2, <2>1, <2>2, <2>3, Zenon DEF LimiterTypeOK, Capacity, Statuses
<1>7. ASSUME NEW j \in ApiKeys
      PROVE /\ OrderedUpTo(grants'[j], now')
            /\ IsSuffix(windows'[j], grants'[j], now' - Window)
            /\ SpreadOver(grants'[j], Capacity', Window)
  BY <1>1, <1>2, <1>3, <1>4, <1>5
<1>8. QED
  BY <1>6, <1>7 DEF LimiterInv

\* Time, the freeze flag and a blocked request leave slices and history alone.
LEMMA NoGrantKeepsInv ==
  ASSUME LimiterInv, UNCHANGED <<windows, overages, grants>>,
         now' \in 0..MaxTime, now' >= now,
         globalBurstFreeze' \in BOOLEAN, status' \in Statuses
  PROVE  LimiterInv'
<1>1. LimiterTypeOK /\ now \in Int /\ now' \in Int /\ Window \in Int
  BY LimiterAssumption DEF LimiterInv, LimiterTypeOK
<1>2. LimiterTypeOK'
  BY <1>1, Zenon DEF LimiterTypeOK, Capacity, Statuses
<1>3. ASSUME NEW k \in ApiKeys
      PROVE /\ OrderedUpTo(grants[k], now')
            /\ IsSuffix(windows[k], grants[k], now' - Window)
            /\ SpreadOver(grants[k], Capacity, Window)
  <2> DEFINE g == grants[k]
             w == windows[k]
  <2>1. /\ OrderedUpTo(g, now) /\ IsSuffix(w, g, now - Window)
        /\ SpreadOver(g, Capacity, Window)
    BY DEF LimiterInv
  <2>2. g \in Seq(0..MaxTime) /\ w \in Seq(0..MaxTime)
    BY <1>1 DEF LimiterTypeOK
  <2>3. Len(g) \in Nat /\ Len(w) \in Nat /\ \A i \in 1..Len(g) : g[i] \in 0..MaxTime
    BY <2>2, SeqFacts
  <2> HIDE DEF g, w
  <2>4. OrderedUpTo(g, now')
    BY <1>1, <2>1, <2>3 DEF OrderedUpTo
  <2>5. IsSuffix(w, g, now' - Window)
    <3>1. \A i \in 1..(Len(g) - Len(w)) : i \in 1..Len(g)
      BY <2>3
    <3>2. QED
      BY <1>1, <2>1, <2>3, <3>1 DEF IsSuffix
  <2>6. QED
    BY <2>1, <2>4, <2>5 DEF g, w
<1>4. QED
  BY <1>2, <1>3 DEF LimiterInv, Capacity

\* What Check has before it decides: the requests still in the window.
LEMMA CheckedSlice ==
  ASSUME LimiterInv, NEW k \in ApiKeys, Check(k)
  PROVE  \E ts \in Seq(0..MaxTime) :
            /\ IsSuffix(ts, grants[k], now - Window)
            /\ AllLater(ts, now - Window)
            /\ CheckNormal(k, ts) \/ CheckBurst(k, ts) \/ CheckBlocked(k, ts)
<1>1. PICK idx \in 0..Len(windows[k]) :
        /\ Search(windows[k], now - Window, idx)
        /\ LET timestamps == SubSeq(windows[k], idx + 1, Len(windows[k]))
           IN  \/ CheckNormal(k, timestamps)
               \/ CheckBurst(k, timestamps)
               \/ CheckBlocked(k, timestamps)
  BY DEF Check
<1> DEFINE ts == SubSeq(windows[k], idx + 1, Len(windows[k]))
<1>2. /\ windows[k] \in Seq(0..MaxTime) /\ grants[k] \in Seq(0..MaxTime)
      /\ 0..MaxTime \subseteq Int /\ now - Window \in Int
  BY LimiterAssumption DEF LimiterInv, LimiterTypeOK
<1>3. OrderedUpTo(grants[k], now) /\ IsSuffix(windows[k], grants[k], now - Window)
  BY DEF LimiterInv
<1>4. /\ ts \in Seq(0..MaxTime)
      /\ IsSuffix(ts, grants[k], now - Window)
      /\ AllLater(ts, now - Window)
  BY <1>1, <1>2, <1>3, PrunedSuffix
<1>5. QED
  BY <1>1, <1>4

LEMMA LimiterInvStep == LimiterInv /\ [LimiterNext]_limiterVars => LimiterInv'
<1> SUFFICES ASSUME LimiterInv, [LimiterNext]_limiterVars PROVE LimiterInv'
  OBVIOUS
<1>0. /\ now \in 0..MaxTime /\ MaxTime \in Nat /\ status \in Statuses
      /\ globalBurstFreeze \in BOOLEAN /\ overages \in [ApiKeys -> Nat]
  BY LimiterAssumption DEF LimiterInv, LimiterTypeOK
<1>1. ASSUME NEW value \in BOOLEAN, SetGlobalBurstFreeze(value)
      PROVE LimiterInv'
  BY <1>0, <1>1, NoGrantKeepsInv DEF SetGlobalBurstFreeze
<1>2. ASSUME NEW k \in ApiKeys, Check(k) PROVE LimiterInv'
  <2>1. PICK ts \in Seq(0..MaxTime) :
            /\ IsSuffix(ts, grants[k], now - Window)
            /\ AllLater(ts, now - Window)
            /\ CheckNormal(k, ts) \/ CheckBurst(k, ts) \/ CheckBlocked(k, ts)
    BY <1>2, CheckedSlice
  <2>2. UNCHANGED <<now, globalBurstFreeze>>
    BY <1>2 DEF Check
  <2>3. Len(ts) \in Nat /\ SoftLimit \in Nat /\ HardLimit \in Nat
    BY <2>1, SeqFacts, LimiterAssumption
  <2>4. CASE CheckNormal(k, ts)
    <3>1. /\ Len(ts) < SoftLimit /\ Grant(k, ts) /\ status' \in Statuses
          /\ overages' \in [ApiKeys -> Nat]
      BY <1>0, <2>4 DEF CheckNormal, Statuses
    <3>2. Len(ts) < Capacity
      BY <2>3, <3>1, CapacityType
    <3>3. QED
      BY <2>1, <2>2, <3>1, <3>2, GrantKeepsInv
  <2>5. CASE CheckBurst(k, ts)
    <3>1. /\ Len(ts) < HardLimit /\ Grant(k, ts) /\ status' \in Statuses
          /\ overages' \in [ApiKeys -> Nat]
      BY <1>0, <2>5 DEF CheckBurst, Statuses
    <3>2. Len(ts) < Capacity
      BY <2>3, <3>1, CapacityType
    <3>3. QED
      BY <2>1, <2>2, <3>1, <3>2, GrantKeepsInv
  <2>6. CASE CheckBlocked(k, ts)
    BY <1>0, <2>2, <2>6, NoGrantKeepsInv DEF CheckBlocked, Statuses
  <2>7. QED
    BY <2>1, <2>4, <2>5, <2>6
<1>3. CASE LimiterElapse
  BY <1>0, <1>3, NoGrantKeepsInv DEF LimiterElapse
<1>4. CASE UNCHANGED limiterVars
  BY <1>0, <1>4, NoGrantKeepsInv DEF limiterVars
<1>5. QED
  BY <1>1, <1>2, <1>3, <1>4 DEF LimiterNext

LEMMA LimiterInvariant == LimiterSpec => []LimiterInv
  BY LimiterInvInit, LimiterInvStep, PTL DEF LimiterSpec

-----------------------------------------------------------------------------
\* The limiter keeps its types and at most Capacity timestamps per key.
THEOREM LimiterTypeCorrect == LimiterSpec => []LimiterTypeOK
  BY LimiterInvariant, PTL DEF LimiterInv

\* Check never lets more than max(softLimit, hardLimit) requests of a key
\* through in a window.
THEOREM LimiterWindowBound == LimiterSpec => []WindowBound
<1>1. LimiterInv => WindowBound
  BY DEF LimiterInv, SpreadOver, WindowBound
<1>2. QED
  BY LimiterInvariant, <1>1, PTL

\* Check takes the decision of the abstract window and grants accordingly.
LEMMA CheckDecides ==
  ASSUME LimiterInv, NEW k \in ApiKeys, Check(k)
  PROVE  Promise!Decide(k)
<1>1. PICK ts \in Seq(0..MaxTime) :
          /\ IsSuffix(ts, grants[k], now - Window)
          /\ AllLater(ts, now - Window)
          /\ CheckNormal(k, ts) \/ CheckBurst(k, ts) \/ CheckBlocked(k, ts)
  BY CheckedSlice
<1>2. /\ grants[k] \in Seq(0..MaxTime) /\ 0..MaxTime \subseteq Int
      /\ now - Window \in Int
  BY LimiterAssumption DEF LimiterInv, LimiterTypeOK
<1>3. Promise!InWindow(k) = Len(ts)
  <2>1. Promise!InWindow(k) = Cardinality({i \in 1..Len(grants[k]) : grants[k][i] > now - Window})
    BY DEF Promise!InWindow, Promise!Cardinality, Promise!IsFiniteSet, Cardinality, IsFiniteSet
  <2> QED
    BY <1>1, <1>2, <2>1, SuffixCounts
<1>4. Len(ts) \in Nat /\ SoftLimit \in Nat /\ HardLimit \in Nat
  BY <1>1, SeqFacts, LimiterAssumption
<1>5. UNCHANGED <<now, globalBurstFreeze>>
  BY DEF Check
<1>6. CASE CheckNormal(k, ts)
  <2>1. status' = "NORMAL" /\ Promise!Decision(k) = "NORMAL"
    BY <1>3, <1>6 DEF CheckNormal, Promise!Decision
  <2>2. grants' = [grants EXCEPT ![k] = Append(@, now)]
    BY <1>6 DEF CheckNormal, Grant
  <2> QED
    BY <1>5, <2>1, <2>2 DEF Promise!Decide
<1>7. CASE CheckBurst(k, ts)
  <2>1. status' = "BURST" /\ Promise!Decision(k) = "BURST"
    BY <1>3, <1>4, <1>7 DEF CheckBurst, Promise!Decision
  <2>2. grants' = [grants EXCEPT ![k] = Append(@, now)]
    BY <1>7 DEF CheckBurst, Grant
  <2> QED
    BY <1>5, <2>1, <2>2 DEF Promise!Decide
<1>8. CASE CheckBlocked(k, ts)
  <2>1. status' = "BLOCKED" /\ Promise!Decision(k) = "BLOCKED"
    BY <1>3, <1>4, <1>8 DEF CheckBlocked, Promise!Decision
  <2>2. grants' = grants
    BY <1>8 DEF CheckBlocked
  <2> QED
    BY <1>5, <2>1, <2>2 DEF Promise!Decide
<1> QED
  BY <1>1, <1>6, <1>7, <1>8

\* The limiter of limiter.go, which prunes and forgets, implements the sliding
\* window over the whole history: every Check is a Decide.
THEOREM LimiterKeepsPromise == LimiterSpec => KeepsPromise
<1>1. LimiterInit => Promise!SlidingInit
  BY DEF LimiterInit, Promise!SlidingInit
<1>2. LimiterInv /\ [LimiterNext]_limiterVars => [Promise!SlidingNext]_(Promise!slidingVars)
  <2> SUFFICES ASSUME LimiterInv, [LimiterNext]_limiterVars
               PROVE  Promise!SlidingNext \/ UNCHANGED Promise!slidingVars
    OBVIOUS
  <2>1. ASSUME NEW value \in BOOLEAN, SetGlobalBurstFreeze(value)
        PROVE  Promise!SlidingNext
    BY <2>1 DEF SetGlobalBurstFreeze, Promise!SlidingNext, Promise!SetFrozen
  <2>2. ASSUME NEW k \in ApiKeys, Check(k)
        PROVE  Promise!SlidingNext
    BY <2>2, CheckDecides DEF Promise!SlidingNext
  <2>3. CASE LimiterElapse
    BY <2>3 DEF LimiterElapse, Promise!SlidingNext, Promise!SlidingElapse
  <2>4. CASE UNCHANGED limiterVars
    BY <2>4 DEF limiterVars, Promise!slidingVars
  <2> QED
    BY <2>1, <2>2, <2>3, <2>4 DEF LimiterNext
<1> QED
  BY LimiterInvariant, <1>1, <1>2, PTL DEF LimiterSpec, KeepsPromise, Promise!SlidingSpec

-----------------------------------------------------------------------------
(* The limiter with Redis in front: the in-memory limiter inside it         *)

\* Every step of RedisLimiter does to memFallback what one of its own methods
\* does, or nothing.
LEMMA RedisStepIsLimiterStep == [Next]_vars => [LimiterNext]_limiterVars
<1> SUFFICES ASSUME [Next]_vars PROVE [LimiterNext]_limiterVars
  OBVIOUS
<1>1. ASSUME NEW c \in Callers, FreezeStoreFallback(c)
      PROVE [LimiterNext]_limiterVars
  <2>1. (setting[c] = "on") \in BOOLEAN
    BY Zenon
  <2>2. QED
    BY <1>1, <2>1, Zenon DEF FreezeStoreFallback, LimiterNext
<1>2. CASE \E r \in Reqs : Fallback(r)
  BY <1>2, RedisAssumption DEF Fallback, LimiterNext
<1>3. CASE Elapse
  BY <1>3 DEF Elapse, LimiterNext
<1>4. CASE UNCHANGED limiterVars
  BY <1>4
<1>5. QED
  BY <1>1, <1>2, <1>3, <1>4
  DEF Next, FreezeStore, Begin, RunScript, Resend, LoseReply, FailScript, vars

\* What holds of memFallback by itself holds inside RedisLimiter.
LEMMA RedisLimiterInvariant == Spec => []LimiterInv
<1>1. Init => LimiterInv
  BY LimiterInvInit DEF Init
<1>2. LimiterInv /\ [Next]_vars => LimiterInv'
  BY LimiterInvStep, RedisStepIsLimiterStep
<1>3. QED
  BY <1>1, <1>2, PTL DEF Spec

-----------------------------------------------------------------------------
(* The burst freeze *)

\* memFallback has what the call that returned last stored there, and a
\* request that has not seen the freeze lifted is bound by both copies of the
\* flag, with no call under way that lifts it.
FreezeInv ==
    /\ flag \in [Reqs -> BOOLEAN]
    /\ thawed \in [Reqs -> BOOLEAN]
    /\ frozen \in BOOLEAN
    /\ setting \in [Callers -> {"none", "on", "off"}]
    /\ lastSet \in BOOLEAN
    /\ globalBurstFreeze = lastSet
    /\ pc \in [Reqs -> {"idle", "script", "fallback"}]
    /\ \A r \in Reqs : pc[r] # "idle" =>
         /\ ~flag[r] => thawed[r]
         /\ ~thawed[r] => FreezeSettled

LEMMA FreezeInvInit == Init => FreezeInv
<1> SUFFICES ASSUME Init PROVE FreezeInv
  OBVIOUS
<1>1. /\ flag \in [Reqs -> BOOLEAN] /\ thawed \in [Reqs -> BOOLEAN]
      /\ frozen \in BOOLEAN
  BY Zenon DEF Init
<1>2. lastSet \in BOOLEAN /\ globalBurstFreeze = lastSet
  BY DEF Init, LimiterInit
<1>3. pc = [r \in Reqs |-> "idle"] /\ setting = [c \in Callers |-> "none"]
  BY DEF Init
<1>4. QED
  BY <1>1, <1>2, <1>3 DEF FreezeInv

LEMMA FreezeInvStep == FreezeInv /\ [Next]_vars => FreezeInv'
<1> SUFFICES ASSUME FreezeInv, [Next]_vars PROVE FreezeInv'
  OBVIOUS
<1> USE DEF FreezeInv, FreezeSettled, Goto
<1>1. ASSUME NEW c \in Callers, NEW value \in Freezes, FreezeStore(c, value)
      PROVE FreezeInv'
  <2>1. value \in BOOLEAN
    BY RedisAssumption
  <2>2. thawed' \in [Reqs -> BOOLEAN]
    <3>1. thawed' = [r \in Reqs |-> thawed[r] \/ (~value /\ pc[r] # "idle")]
      BY <1>1 DEF FreezeStore
    <3>2. \A r \in Reqs : (thawed[r] \/ (~value /\ pc[r] # "idle")) \in BOOLEAN
      BY Zenon
    <3>3. QED
      BY <3>1, <3>2, Zenon
  <2>3. /\ frozen' = value
        /\ setting' = [setting EXCEPT ![c] = IF value THEN "on" ELSE "off"]
        /\ UNCHANGED <<flag, pc, globalBurstFreeze, lastSet>>
        /\ thawed' = [r \in Reqs |-> thawed[r] \/ (~value /\ pc[r] # "idle")]
    BY <1>1 DEF FreezeStore, limiterVars
  <2>4. setting' \in [Callers -> {"none", "on", "off"}]
    BY <2>1, <2>3
  <2>5. ASSUME NEW r \in Reqs, pc'[r] # "idle"
        PROVE /\ ~flag'[r] => thawed'[r]
              /\ ~thawed'[r] => FreezeSettled'
    <3>1. thawed'[r] <=> thawed[r] \/ ~value
      BY <2>3, <2>5
    <3>2. ASSUME value, FreezeSettled PROVE FreezeSettled'
      BY <2>3, <3>2
    <3>3. QED
      BY <2>1, <2>3, <2>5, <3>1, <3>2
  <2>6. QED
    BY <2>1, <2>2, <2>3, <2>4, <2>5
<1>2. ASSUME NEW c \in Callers, FreezeStoreFallback(c)
      PROVE FreezeInv'
  <2>1. /\ globalBurstFreeze' = (setting[c] = "on") /\ setting[c] # "none"
        /\ lastSet' = (setting[c] = "on")
        /\ setting' = [setting EXCEPT ![c] = "none"]
        /\ UNCHANGED <<flag, pc, frozen, thawed>>
    BY <1>2 DEF FreezeStoreFallback, SetGlobalBurstFreeze, requestVars
  <2>2. lastSet' \in BOOLEAN /\ globalBurstFreeze' = lastSet'
    BY <2>1
  <2>3. FreezeSettled => FreezeSettled'
    BY <2>1
  <2>4. QED
    BY <2>1, <2>2, <2>3
<1>3. ASSUME NEW r \in Reqs, Begin(r)
      PROVE FreezeInv'
  <2>1. (~FreezeSettled) \in BOOLEAN
    BY Zenon
  <2>2. thawed' = [thawed EXCEPT ![r] = ~FreezeSettled]
    BY <1>3 DEF Begin
  <2>3. thawed' \in [Reqs -> BOOLEAN] /\ flag' \in [Reqs -> BOOLEAN]
    BY <1>3, <2>1, <2>2, Zenon DEF Begin
  <2>4. /\ flag' = [flag EXCEPT ![r] = frozen] /\ pc' = [pc EXCEPT ![r] = "script"]
        /\ UNCHANGED <<frozen, setting, lastSet, globalBurstFreeze>>
    BY <1>3 DEF Begin, freezeVars, limiterVars
  <2>5. ASSUME NEW q \in Reqs, pc'[q] # "idle"
        PROVE /\ ~flag'[q] => thawed'[q]
              /\ ~thawed'[q] => FreezeSettled'
    <3>1. CASE q = r
      <4>1. thawed'[r] <=> ~FreezeSettled
        BY <2>2
      <4>2. flag'[r] = frozen
        BY <2>4
      <4>3. QED
        BY <2>4, <3>1, <4>1, <4>2
    <3>2. CASE q # r
      BY <2>2, <2>4, <2>5, <3>2
    <3>3. QED
      BY <3>1, <3>2
  <2>6. QED
    BY <2>3, <2>4, <2>5
<1>4. ASSUME NEW r \in Reqs, NEW s, Answer(r, s),
             UNCHANGED <<frozen, setting, lastSet, globalBurstFreeze>>
      PROVE FreezeInv'
  <2>1. /\ pc' = [pc EXCEPT ![r] = "idle"] /\ flag' = [flag EXCEPT ![r] = FALSE]
        /\ thawed' = [thawed EXCEPT ![r] = FALSE]
    BY <1>4 DEF Answer
  <2>2. flag' \in [Reqs -> BOOLEAN] /\ thawed' \in [Reqs -> BOOLEAN]
    BY <2>1, Zenon
  <2>3. QED
    BY <1>4, <2>1, <2>2
<1>5. ASSUME NEW r \in Reqs, pc[r] = "script", Goto(r, "fallback"),
             UNCHANGED <<frozen, setting, lastSet, globalBurstFreeze, flag, thawed>>
      PROVE FreezeInv'
  BY <1>5
<1>6. ASSUME UNCHANGED <<frozen, setting, lastSet, globalBurstFreeze, flag, thawed, pc>>
      PROVE FreezeInv'
  BY <1>6
<1>7. ASSUME NEW r \in Reqs, RunScript(r) \/ Fallback(r)
      PROVE FreezeInv'
  BY <1>4, <1>7 DEF RunScript, Fallback, Check, limiterVars, freezeVars
<1>8. ASSUME NEW r \in Reqs, LoseReply(r) \/ FailScript(r)
      PROVE FreezeInv'
  BY <1>5, <1>8 DEF LoseReply, FailScript, limiterVars, freezeVars
<1>9. CASE (\E r \in Reqs : Resend(r)) \/ Elapse \/ UNCHANGED vars
  BY <1>6, <1>9 DEF Resend, Elapse, LimiterElapse, vars, limiterVars, freezeVars,
                    requestVars
<1>10. QED
  BY <1>1, <1>2, <1>3, <1>7, <1>8, <1>9 DEF Next

LEMMA RedisFreezeInvariant == Spec => []FreezeInv
  BY FreezeInvInit, FreezeInvStep, PTL DEF Spec

\* A request that begins under a settled burst freeze is never answered BURST,
\* by Redis or by memFallback, unless a call lifts the freeze meanwhile: any
\* number of calls of SetGlobalBurstFreeze interleave their two stores, and
\* Check samples the flag before it sends the script.
THEOREM RedisFreezeHonoured == Spec => FreezeHonoured
<1>1. FreezeInv /\ [Next]_vars => [\A r \in Reqs : AnsweredBurst(r) => thawed[r]]_vars
  <2> SUFFICES ASSUME FreezeInv, Next, NEW r \in Reqs, AnsweredBurst(r)
               PROVE thawed[r]
    OBVIOUS
  <2> USE DEF FreezeInv, FreezeSettled, Goto
  <2>1. CASE pc[r] = "script" /\ Script(r, "BURST")
    BY <2>1 DEF Script
  <2>2. CASE pc[r] = "fallback" /\ status' = "BURST" /\ pc'[r] = "idle"
    <3>1. ASSUME NEW q \in Reqs, Fallback(q)
          PROVE thawed[r]
      <4>1. ~globalBurstFreeze
        BY <2>2, <3>1 DEF Fallback, Check, CheckNormal, CheckBurst, CheckBlocked
      <4>2. QED
        BY <2>2, <4>1
    <3>2. ASSUME NEW q \in Reqs, Begin(q) \/ RunScript(q) \/ LoseReply(q) \/ FailScript(q)
          PROVE FALSE
      BY <2>2, <3>2 DEF Begin, RunScript, LoseReply, FailScript, Answer
    <3>3. ASSUME UNCHANGED pc
          PROVE FALSE
      BY <2>2, <3>3
    <3>4. QED
      BY <3>1, <3>2, <3>3
      DEF Next, FreezeStore, FreezeStoreFallback, Resend, Elapse, requestVars
  <2>3. QED
    BY <2>1, <2>2 DEF AnsweredBurst
<1>2. QED
  BY <1>1, RedisFreezeInvariant, PTL DEF Spec, FreezeHonoured

-----------------------------------------------------------------------------
(* Counting the requests let through *)

\* Members of the sorted set w later than x, requests whose member is in the
\* set and later than x, elements of the history g later than x.
Members(w, x) == {m \in w : m[1] > x}
Owners(mn, a, x) == {r \in Reqs : mn[r] /\ a[r] > x}
Later(g, x) == {i \in 1..Len(g) : g[i] > x}

\* The elements of the history h from any one that is later than y on, and o
\* more, are at most n.
Ranked(h, y, o, n) ==
    \A i \in 1..Len(h) : h[i] > y => Len(h) - i + 1 + o <= n

\* No element of h is later than t.
NotAfter(h, t) == \A i \in 1..Len(h) : h[i] <= t

\* Recent forgets at most the oldest element.
Dropped(h) == IF Len(h) + 1 <= 2 * Capacity + 1 THEN 0 ELSE 1

\* The history after one more request at time t ...
Longer(h, t) == Recent(Append(h, t))

\* ... is h without its first elements that are dropped, and t.
LEMMA AdmitFacts ==
  ASSUME NEW T, T \subseteq Int, NEW h \in Seq(T), NEW t \in T
  PROVE  /\ Longer(h, t) \in Seq(T)
         /\ Len(Longer(h, t)) = Len(h) + 1 - Dropped(h)
         /\ \A i \in 1..(Len(h) - Dropped(h)) : Longer(h, t)[i] = h[i + Dropped(h)]
         /\ Longer(h, t)[Len(h) + 1 - Dropped(h)] = t
         /\ Len(h) \in Nat /\ t \in Int /\ Dropped(h) \in 0..1
         /\ \A i \in 1..Len(h) : h[i] \in Int
<1> DEFINE e == Append(h, t)
<1>1. /\ e \in Seq(T) /\ Len(e) = Len(h) + 1 /\ Len(h) \in Nat
      /\ \A i \in 1..Len(h) : e[i] = h[i]
      /\ e[Len(h) + 1] = t
  BY AppendFacts, SeqFacts
<1>2. t \in Int /\ \A i \in 1..Len(h) : h[i] \in Int
  BY SeqFacts
<1> HIDE DEF e
<1>3. CASE Len(h) + 1 <= 2 * Capacity + 1
  <2>1. Recent(e) = e /\ Dropped(h) = 0
    BY <1>1, <1>3 DEF Recent, Dropped
  <2>2. QED
    BY <1>1, <1>2, <2>1 DEF e, Longer
<1>4. CASE ~(Len(h) + 1 <= 2 * Capacity + 1)
  <2>1. Recent(e) = SubSeq(e, 1 + 1, Len(e)) /\ Dropped(h) = 1 /\ Len(h) >= 1
    BY <1>1, <1>4, CapacityType DEF Recent, Dropped
  <2>2. 1 \in 0..Len(e)
    BY <1>1
  <2>3. /\ SubSeq(e, 1 + 1, Len(e)) \in Seq(T)
        /\ Len(SubSeq(e, 1 + 1, Len(e))) = Len(e) - 1
        /\ \A i \in 1..(Len(e) - 1) : SubSeq(e, 1 + 1, Len(e))[i] = e[1 + i]
    BY <1>1, <2>2, SubSeqFacts
  <2>4. /\ Recent(e) \in Seq(T) /\ Len(Recent(e)) = Len(h)
        /\ \A i \in 1..Len(h) : Recent(e)[i] = e[1 + i]
    BY <1>1, <2>1, <2>3
  <2>5. ASSUME NEW i \in 1..(Len(h) - 1)
        PROVE  Recent(e)[i] = h[i + 1]
    <3>1. i \in 1..Len(h) /\ 1 + i \in 1..Len(h) /\ 1 + i = i + 1
      BY <1>1
    <3>2. Recent(e)[i] = e[1 + i] /\ e[1 + i] = h[1 + i]
      BY <1>1, <2>4, <3>1, Zenon
    <3>3. QED
      BY <3>1, <3>2
  <2>6. Recent(e)[Len(h)] = t
    BY <1>1, <2>1, <2>4
  <2>7. QED
    BY <1>1, <1>2, <2>1, <2>4, <2>5, <2>6 DEF e, Longer
<1>5. QED
  BY <1>3, <1>4

\* Letting one more request through, at time t, with room for it.
LEMMA RankedAdmit ==
  ASSUME NEW T, T \subseteq Int, NEW h \in Seq(T), NEW t \in T, NEW y \in Int,
         NEW o \in Nat, NEW n \in Nat, NEW o2 \in Nat, NEW n2 \in Nat,
         NotAfter(h, t), Ranked(h, y, o, n), o <= n,
         t > y => o2 + 1 + n <= o + n2
  PROVE  Ranked(Recent(Append(h, t)), y, o2, n2)
<1> DEFINE g == Longer(h, t)
           d == Dropped(h)
<1>0. Len(g) = Len(h) + 1 - d /\ Len(h) \in Nat /\ t \in Int /\ d \in 0..1
  BY AdmitFacts
<1>1. /\ \A i \in 1..(Len(h) - d) : g[i] = h[i + d]
      /\ g[Len(h) + 1 - d] = t
      /\ \A i \in 1..Len(h) : h[i] \in Int
  BY AdmitFacts
<1> HIDE DEF g, d
<1> SUFFICES ASSUME NEW i \in 1..Len(g), g[i] > y
             PROVE Len(g) - i + 1 + o2 <= n2
  BY DEF Ranked, g, Longer
<1>2. CASE i = Len(h) + 1 - d
  BY <1>0, <1>1, <1>2
<1>3. CASE i # Len(h) + 1 - d
  <2>1. i \in 1..(Len(h) - d) /\ i + d \in 1..Len(h)
    BY <1>0, <1>3
  <2>2. h[i + d] > y /\ h[i + d] <= t /\ h[i + d] \in Int
    BY <1>0, <1>1, <2>1 DEF NotAfter
  <2>3. Len(h) - (i + d) + 1 + o <= n
    BY <2>1, <2>2 DEF Ranked
  <2>4. t > y
    BY <1>0, <2>2
  <2>5. QED
    BY <1>0, <2>1, <2>3, <2>4
<1>4. QED
  BY <1>2, <1>3

\* Time t is at least span after the element of h that is n from its end.
ComesAfter(t, h, n, span) ==
    Len(h) >= n => h[Len(h) - n + 1] + span <= t

\* The history stays spread when the new request comes span after the one n
\* places before it.
LEMMA SpreadAdmit ==
  ASSUME NEW T, T \subseteq Int, NEW h \in Seq(T), NEW t \in T,
         NEW n \in Nat, n > 0, NEW span \in Int, SpreadOver(h, n, span),
         ComesAfter(t, h, n, span)
  PROVE  SpreadOver(Recent(Append(h, t)), n, span)
<1> DEFINE g == Longer(h, t)
           d == Dropped(h)
<1>0. Len(g) = Len(h) + 1 - d /\ Len(h) \in Nat /\ t \in Int /\ d \in 0..1
  BY AdmitFacts
<1>1. /\ \A i \in 1..(Len(h) - d) : g[i] = h[i + d]
      /\ g[Len(h) + 1 - d] = t
      /\ \A i \in 1..Len(h) : h[i] \in Int
  BY AdmitFacts
<1> HIDE DEF g, d
<1> SUFFICES ASSUME NEW i \in 1..(Len(g) - n)
             PROVE g[i + n] >= g[i] + span
  BY DEF SpreadOver, g, Longer
<1>2. i \in 1..(Len(h) - d) /\ i + d \in 1..Len(h)
  BY <1>0
<1>3. g[i] = h[i + d] /\ h[i + d] \in Int
  BY <1>1, <1>2
<1>4. CASE i + n = Len(h) + 1 - d
  <2>1. Len(h) >= n /\ i + d = Len(h) - n + 1
    BY <1>0, <1>2, <1>4
  <2>2. h[i + d] + span <= t
    BY <2>1 DEF ComesAfter
  <2>3. QED
    BY <1>1, <1>3, <1>4, <2>2
<1>5. CASE i + n # Len(h) + 1 - d
  <2>1. /\ i + d \in 1..(Len(h) - n) /\ i + n \in 1..(Len(h) - d)
        /\ (i + d) + n = (i + n) + d /\ (i + n) + d \in 1..Len(h)
    BY <1>0, <1>2, <1>5
  <2>2. h[(i + d) + n] >= h[i + d] + span
    BY <2>1 DEF SpreadOver
  <2>3. g[i + n] = h[(i + n) + d]
    BY <1>1, <2>1
  <2>4. QED
    BY <1>0, <1>1, <1>3, <2>1, <2>2, <2>3
<1>6. QED
  BY <1>4, <1>5

\* If a request let through n places ago were later than y, there would be n
\* in the count.
LEMMA RankedSpread ==
  ASSUME NEW T, T \subseteq Int, NEW h \in Seq(T), NEW n \in Nat \ {0},
         NEW y \in Int, NEW o \in Nat, NEW c \in Nat, Ranked(h, y, o, c), c < n,
         Len(h) >= n
  PROVE  h[Len(h) - n + 1] <= y
<1>1. Len(h) \in Nat /\ Len(h) - n + 1 \in 1..Len(h)
  BY SeqFacts
<1>2. h[Len(h) - n + 1] \in Int
  BY <1>1, SeqFacts
<1>3. CASE h[Len(h) - n + 1] > y
  <2>1. Len(h) - (Len(h) - n + 1) + 1 + o <= c
    BY <1>1, <1>3 DEF Ranked
  <2>2. QED
    BY <1>1, <2>1
<1>4. QED
  BY <1>2, <1>3

\* A suffix of the history that lacks nothing later than m bounds what is
\* later than y, for y from m on.
LEMMA SuffixBounds ==
  ASSUME NEW T, T \subseteq Int, NEW g \in Seq(T), NEW w \in Seq(T), NEW m \in Int,
         IsSuffix(w, g, m), NEW y \in Int, y >= m
  PROVE  /\ IsFiniteSet(Later(g, y))
         /\ Cardinality(Later(g, y)) \in Nat
         /\ Cardinality(Later(g, y)) <= Len(w)
<1> DEFINE n == Len(g)
           l == Len(w)
<1>1. n \in Nat /\ l \in Nat /\ l <= n
  BY SeqFacts DEF IsSuffix
<1>2. \A i \in 1..n : g[i] \in Int
  BY SeqFacts
<1>3. \A i \in 1..(n - l) : g[i] <= m
  BY DEF IsSuffix
<1>4. Later(g, y) = {i \in 1..n : g[i] > y}
  BY DEF Later
<1> HIDE DEF n, l
<1>5. Later(g, y) \in SUBSET ((n - l + 1)..n)
  <2> SUFFICES ASSUME NEW i \in 1..n, g[i] > y
               PROVE i \in (n - l + 1)..n
    BY <1>4
  <2>1. CASE i <= n - l
    <3>1. g[i] <= m /\ g[i] \in Int
      BY <1>1, <1>2, <1>3, <2>1
    <3>2. QED
      BY <3>1
  <2>2. QED
    BY <1>1, <2>1
<1>6. n - l + 1 \in Int /\ n \in Int
  BY <1>1
<1>7. /\ IsFiniteSet((n - l + 1)..n)
      /\ Cardinality((n - l + 1)..n) = IF n - l + 1 > n THEN 0 ELSE n - (n - l + 1) + 1
  BY <1>6, FS_Interval
<1>8. IsFiniteSet(Later(g, y)) /\ Cardinality(Later(g, y)) <= Cardinality((n - l + 1)..n)
  BY <1>5, <1>7, FS_Subset
<1>9. Cardinality(Later(g, y)) \in Nat
  BY <1>8, FS_CardinalityType
<1>10. Cardinality((n - l + 1)..n) = l
  BY <1>1, <1>7
<1>11. QED
  BY <1>8, <1>9, <1>10 DEF l

\* One more grant, at time t.
LEMMA LaterAppend ==
  ASSUME NEW T, T \subseteq Int, NEW g \in Seq(T), NEW t \in T, NEW y \in Int,
         IsFiniteSet(Later(g, y))
  PROVE  /\ IsFiniteSet(Later(Append(g, t), y))
         /\ t > y => Cardinality(Later(Append(g, t), y)) = Cardinality(Later(g, y)) + 1
         /\ t <= y => Later(Append(g, t), y) = Later(g, y)
<1> DEFINE e == Append(g, t)
           n == Len(g)
<1>1. n \in Nat /\ Len(e) = n + 1 /\ e[n + 1] = t /\ \A i \in 1..n : e[i] = g[i]
  BY AppendFacts, SeqFacts
<1>2. t \in Int
  OBVIOUS
<1>3. Later(e, y) = {i \in 1..(n + 1) : e[i] > y} /\ Later(g, y) = {i \in 1..n : g[i] > y}
  BY <1>1 DEF Later
<1> HIDE DEF e, n
<1>4. CASE t > y
  <2>1. Later(e, y) = Later(g, y) \cup {n + 1} /\ n + 1 \notin Later(g, y)
    BY <1>1, <1>3, <1>4
  <2>2. /\ IsFiniteSet(Later(e, y))
        /\ Cardinality(Later(e, y)) = Cardinality(Later(g, y)) + 1
    BY <2>1, FS_AddElement
  <2>3. QED
    BY <1>2, <1>4, <2>2 DEF e
<1>5. CASE ~(t > y)
  <2>1. Later(e, y) = Later(g, y)
    BY <1>1, <1>2, <1>3, <1>5
  <2>2. QED
    BY <1>5, <1>2, <2>1 DEF e
<1>6. QED
  BY <1>4, <1>5

-----------------------------------------------------------------------------
(* The inductive invariant of RedisLimiter *)

\* A request reaches Redis at most MaxDelay after it read the clock; only one
\* whose script may be sent again is known to have a member in the set.
RequestInv ==
    /\ at \in [Reqs -> 0..MaxTime]
    /\ mine \in [Reqs -> BOOLEAN]
    /\ \A r \in Reqs :
         /\ pc[r] # "script" => ~mine[r]
         /\ pc[r] # "idle" => at[r] <= now /\ now <= at[r] + MaxDelay
         /\ mine[r] => \E m \in window : m[1] = at[r]

\* EXPIRE never takes away a member that is still in the window.
SetInv ==
    /\ window \subseteq (0..MaxTime) \X Nat
    /\ IsFiniteSet(window) /\ Cardinality(window) <= Capacity
    /\ ttl \in 0..Window
    /\ \A m \in window : m[1] <= now /\ m[1] + Window <= now + ttl

HistoryInv == admitted \in Seq(0..MaxTime) /\ NotAfter(admitted, now)

\* The requests let through since any time x + MaxDelay in the window, and the
\* requests whose member waits for a reply, are covered by members later than
\* x and by grants of the fallback.
CountedSince(x) ==
    /\ Cardinality(Owners(mine, at, x)) <= Cardinality(Members(window, x))
    /\ Ranked(admitted, x + MaxDelay, Cardinality(Owners(mine, at, x)),
              Cardinality(Members(window, x))
                + Cardinality(Later(grants[Key], x + MaxDelay)))

CountInv == \A x \in Int : x >= now - Window => CountedSince(x)

RedisInv ==
    /\ LimiterInv /\ FreezeInv
    /\ RequestInv /\ SetInv /\ HistoryInv /\ CountInv
    /\ RedisWindowBound

LEMMA SpreadDef ==
  ASSUME NEW n, NEW span
  PROVE  Spread(n, span) <=> SpreadOver(admitted, n, span)
  BY DEF Spread, SpreadOver

LEMMA CardinalitiesAreNat ==
  ASSUME LimiterInv, SetInv, NEW x \in Int, x >= now - Window
  PROVE  /\ IsFiniteSet(Owners(mine, at, x))
         /\ Cardinality(Owners(mine, at, x)) \in Nat
         /\ IsFiniteSet(Members(window, x))
         /\ Cardinality(Members(window, x)) \in Nat
         /\ Cardinality(Members(window, x)) <= Capacity
         /\ IsFiniteSet(Later(grants[Key], x + MaxDelay))
         /\ Cardinality(Later(grants[Key], x + MaxDelay)) \in Nat
         /\ Cardinality(Later(grants[Key], x + MaxDelay)) <= Capacity
<1>1. Owners(mine, at, x) \in SUBSET Reqs /\ IsFiniteSet(Reqs)
  BY RedisAssumption DEF Owners
<1>2. Members(window, x) \in SUBSET window /\ IsFiniteSet(window)
  BY DEF Members, SetInv
<1>3. IsFiniteSet(Owners(mine, at, x)) /\ Cardinality(Owners(mine, at, x)) \in Nat
  BY <1>1, FS_Subset, FS_CardinalityType
<1>4. /\ IsFiniteSet(Members(window, x)) /\ Cardinality(Members(window, x)) \in Nat
      /\ Cardinality(Members(window, x)) <= Cardinality(window)
      /\ Cardinality(window) \in Nat
  BY <1>2, FS_Subset, FS_CardinalityType
<1>5. Cardinality(window) <= Capacity
  BY DEF SetInv
<1>6. /\ grants[Key] \in Seq(0..MaxTime) /\ windows[Key] \in Seq(0..MaxTime)
      /\ Len(windows[Key]) <= Capacity /\ now \in 0..MaxTime
      /\ IsSuffix(windows[Key], grants[Key], now - Window)
  BY RedisAssumption DEF LimiterInv, LimiterTypeOK
<1>7. /\ 0..MaxTime \subseteq Int /\ now - Window \in Int /\ x + MaxDelay \in Int
      /\ x + MaxDelay >= now - Window
  BY <1>6, LimiterAssumption, RedisAssumption
<1>8. /\ IsFiniteSet(Later(grants[Key], x + MaxDelay))
      /\ Cardinality(Later(grants[Key], x + MaxDelay)) \in Nat
      /\ Cardinality(Later(grants[Key], x + MaxDelay)) <= Len(windows[Key])
  BY <1>6, <1>7, SuffixBounds
<1>9. Len(windows[Key]) \in Nat
  BY <1>6, SeqFacts
<1>10. QED
  BY <1>3, <1>4, <1>5, <1>6, <1>8, <1>9, CapacityType

\* ZADD adds a member that is not there yet.
LEMMA NewMemberIsNew ==
  ASSUME IsFiniteSet(window), NEW score
  PROVE  \E n \in Nat : NewMember(score) = <<score, n>> /\ <<score, n>> \notin window
<1> DEFINE c == Cardinality(window)
<1>1. c \in Nat
  BY FS_CardinalityType
<1>2. \E n \in 0..c : <<score, n>> \notin window
  <2> SUFFICES ASSUME \A n \in 0..c : <<score, n>> \in window
               PROVE FALSE
    OBVIOUS
  <2> DEFINE f == [n \in 0..c |-> <<score, n>>]
  <2>1. f \in [0..c -> window]
    OBVIOUS
  <2>2. IsFiniteSet(0..c) /\ Cardinality(0..c) = c + 1
    BY <1>1, FS_Interval
  <2>3. Cardinality(window) < Cardinality(0..c)
    BY <1>1, <2>2
  <2>4. PICK i, j \in 0..c : i # j /\ f[i] = f[j]
    <3> HIDE DEF f, c
    <3> QED
      BY <2>1, <2>2, <2>3, FS_PigeonHole
  <2>5. QED
    BY <2>4
<1> DEFINE n == CHOOSE k \in 0..c : <<score, k>> \notin window
<1>3. n \in 0..c /\ <<score, n>> \notin window
  BY <1>2, Zenon
<1>4. NewMember(score) = <<score, n>>
  BY DEF NewMember
<1> HIDE DEF n, c
<1>5. QED
  BY <1>1, <1>3, <1>4

-----------------------------------------------------------------------------
(* What a run of the script does *)

\* Pruning takes away nothing later than now - Window.
LEMMA PrunedFacts ==
  ASSUME RedisInv, NEW r \in Reqs, pc[r] = "script"
  PROVE  /\ Pruned(at[r]) \subseteq window
         /\ \A m \in window : m[1] > now - Window => m \in Pruned(at[r])
         /\ IsFiniteSet(Pruned(at[r]))
         /\ Cardinality(Pruned(at[r])) \in Nat
         /\ Cardinality(Pruned(at[r])) <= Capacity
         /\ Cardinality(Members(window, now - Window)) <= Cardinality(Pruned(at[r]))
         /\ \A x \in Int : x >= now - Window => Members(Pruned(at[r]), x) = Members(window, x)
         /\ at[r] \in 0..MaxTime /\ at[r] <= now /\ now <= at[r] + MaxDelay
         /\ now \in 0..MaxTime
<1>1. /\ at[r] \in 0..MaxTime /\ now \in 0..MaxTime
      /\ at[r] <= now /\ now <= at[r] + MaxDelay
  BY DEF RedisInv, RequestInv, LimiterInv, LimiterTypeOK
<1>2. Window \in Nat /\ MaxTime \in Nat
  BY LimiterAssumption
<1>3. \A m \in window : m[1] \in 0..MaxTime
  BY DEF RedisInv, SetInv
<1>4. Pruned(at[r]) \in SUBSET window
  BY DEF Pruned
<1>5. \A m \in window : m[1] > now - Window => m \in Pruned(at[r])
  BY <1>1, <1>2, <1>3 DEF Pruned
<1>6. IsFiniteSet(window) /\ Cardinality(window) <= Capacity
  BY DEF RedisInv, SetInv
<1>7. /\ IsFiniteSet(Pruned(at[r])) /\ Cardinality(Pruned(at[r])) <= Cardinality(window)
  BY <1>4, <1>6, FS_Subset
<1>8. Cardinality(window) \in Nat /\ Cardinality(Pruned(at[r])) \in Nat
  BY <1>6, <1>7, FS_CardinalityType
<1>9. Members(window, now - Window) \in SUBSET Pruned(at[r])
  BY <1>5 DEF Members
<1>10. Cardinality(Members(window, now - Window)) <= Cardinality(Pruned(at[r]))
  BY <1>7, <1>9, FS_Subset
<1>11. ASSUME NEW x \in Int, x >= now - Window
       PROVE  Members(Pruned(at[r]), x) = Members(window, x)
  <2>1. \A m \in window : m[1] > x => m[1] > now - Window
    BY <1>1, <1>2, <1>3, <1>11
  <2>2. QED
    BY <1>4, <1>5, <2>1 DEF Members
<1>12. QED
  BY <1>1, <1>4, <1>5, <1>6, <1>7, <1>8, <1>10, <1>11, CapacityType

\* The set after the script: pruned, and with one member more when the request
\* is let through and was not in it.
LEMMA ScriptEffect ==
  ASSUME RedisInv, NEW r \in Reqs, NEW s \in Statuses, pc[r] = "script",
         Script(r, s), now' = now
  PROVE  /\ SetInv'
         /\ \A m \in window : m[1] > now - Window => m \in window'
         /\ s # "BLOCKED" => /\ Cardinality(Members(window, now - Window)) < Capacity
                             /\ \E m \in window' : m[1] = at[r]
         /\ \A x \in Int : x >= now - Window =>
              Cardinality(Members(window', x)) =
                IF s # "BLOCKED" /\ ~mine[r] /\ at[r] > x
                  THEN Cardinality(Members(window, x)) + 1
                  ELSE Cardinality(Members(window, x))
<1> DEFINE P == Pruned(at[r])
<1>1. /\ P \subseteq window /\ IsFiniteSet(P) /\ Cardinality(P) \in Nat
      /\ \A m \in window : m[1] > now - Window => m \in P
      /\ Cardinality(P) <= Capacity
      /\ Cardinality(Members(window, now - Window)) <= Cardinality(P)
      /\ \A x \in Int : x >= now - Window => Members(P, x) = Members(window, x)
      /\ at[r] \in 0..MaxTime /\ at[r] <= now /\ now <= at[r] + MaxDelay
      /\ now \in 0..MaxTime
  BY PrunedFacts
<1>2. /\ window \subseteq (0..MaxTime) \X Nat /\ IsFiniteSet(window)
      /\ ttl \in 0..Window
      /\ \A m \in window : m[1] \in 0..MaxTime /\ m[1] <= now /\ m[1] + Window <= now + ttl
  BY DEF RedisInv, SetInv
<1>3. Window \in Nat \ {0} /\ MaxDelay \in 0..(Window - 1) /\ MaxTime \in Nat
      /\ SoftLimit \in Nat /\ HardLimit \in Nat
  BY LimiterAssumption, RedisAssumption
<1>4. Cardinality(Members(window, now - Window)) \in Nat
  <2>1. now - Window \in Int /\ now - Window >= now - Window
    BY <1>1, <1>3
  <2>2. QED
    BY <2>1, CardinalitiesAreNat DEF RedisInv
<1>5. /\ s # "BLOCKED" => Cardinality(P) < Capacity /\ Add(r)
      /\ s = "BLOCKED" => window' = P /\ ttl' = ttl
  BY <1>1, <1>3, CapacityType DEF Script, Statuses
<1> HIDE DEF P
<1>6. CASE window' = P /\ ttl' \in {ttl, Window}
      /\ (s = "BLOCKED" \/ (mine[r] /\ Cardinality(P) < Capacity))
  <2>1. SetInv'
    <3>1. /\ window' \subseteq (0..MaxTime) \X Nat /\ IsFiniteSet(window')
          /\ Cardinality(window') <= Capacity
      BY <1>1, <1>2, <1>6
    <3>2. ttl' \in 0..Window /\ ttl' >= ttl
      BY <1>2, <1>3, <1>6
    <3>3. \A m \in window' : m[1] <= now' /\ m[1] + Window <= now' + ttl'
      BY <1>1, <1>2, <1>3, <1>6, <3>2
    <3>4. QED
      BY <3>1, <3>2, <3>3 DEF SetInv
  <2>2. s # "BLOCKED" => \E m \in window' : m[1] = at[r]
    <3>1. ASSUME mine[r] PROVE \E m \in window' : m[1] = at[r]
      <4>1. PICK m \in window : m[1] = at[r]
        BY <3>1 DEF RedisInv, RequestInv
      <4>2. m[1] > now - Window
        BY <1>1, <1>3, <4>1
      <4>3. QED
        BY <1>1, <1>6, <4>1, <4>2
    <3>2. QED
      BY <1>6, <3>1
  <2>3. QED
    BY <1>1, <1>4, <1>6, <2>1, <2>2, CapacityType
<1>7. CASE window' = P \cup {NewMember(at[r])} /\ ttl' = Window
      /\ s # "BLOCKED" /\ ~mine[r] /\ Cardinality(P) < Capacity
  <2>1. PICK n \in Nat : NewMember(at[r]) = <<at[r], n>> /\ <<at[r], n>> \notin window
    BY <1>2, NewMemberIsNew
  <2> DEFINE e == <<at[r], n>>
  <2>2. e \in (0..MaxTime) \X Nat /\ e[1] = at[r] /\ e \notin P /\ e \notin window
    BY <1>1, <2>1
  <2>3. window' = P \cup {e}
    BY <1>7, <2>1
  <2> HIDE DEF e
  <2>4. IsFiniteSet(window') /\ Cardinality(window') = Cardinality(P) + 1
    BY <1>1, <2>2, <2>3, FS_AddElement
  <2>5. SetInv'
    <3>1. window' \subseteq (0..MaxTime) \X Nat
      BY <1>1, <1>2, <2>2, <2>3
    <3>2. Cardinality(window') <= Capacity
      BY <1>1, <1>7, <2>4, CapacityType
    <3>3. ttl' \in 0..Window /\ ttl' = Window
      BY <1>3, <1>7
    <3>4. \A m \in window' : m[1] <= now' /\ m[1] + Window <= now' + ttl'
      BY <1>1, <1>2, <1>3, <2>2, <2>3, <3>3
    <3>5. QED
      BY <2>4, <3>1, <3>2, <3>3, <3>4 DEF SetInv
  <2>6. ASSUME NEW x \in Int, x >= now - Window
        PROVE  Cardinality(Members(window', x)) =
                 IF at[r] > x THEN Cardinality(Members(window, x)) + 1
                              ELSE Cardinality(Members(window, x))
    <3>1. Members(P, x) = Members(window, x)
      BY <1>1, <2>6
    <3>2. CASE at[r] > x
      <4>1. Members(window', x) = Members(window, x) \cup {e} /\ e \notin Members(window, x)
        BY <2>2, <2>3, <3>1, <3>2 DEF Members
      <4>2. IsFiniteSet(Members(window, x))
        BY <2>6, CardinalitiesAreNat DEF RedisInv
      <4>3. QED
        BY <3>2, <4>1, <4>2, FS_AddElement
    <3>3. CASE ~(at[r] > x)
      <4>1. Members(window', x) = Members(window, x)
        BY <2>2, <2>3, <3>1, <3>3 DEF Members
      <4>2. QED
        BY <3>3, <4>1
    <3>4. QED
      BY <3>2, <3>3
  <2>7. \E m \in window' : m[1] = at[r]
    BY <2>2, <2>3
  <2>8. Cardinality(Members(window, now - Window)) < Capacity
    BY <1>1, <1>4, <1>7, CapacityType
  <2>9. QED
    BY <1>1, <1>7, <2>3, <2>5, <2>6, <2>7, <2>8
<1>8. QED
  BY <1>5, <1>6, <1>7 DEF Add, P

\* A request that is answered, or gives Redis up, no longer owns a member.
LEMMA OwnersRelease ==
  ASSUME NEW r \in Reqs, NEW x \in Int, mine \in [Reqs -> BOOLEAN],
         NEW mn, NEW a, mn = [mine EXCEPT ![r] = FALSE],
         \A q \in Reqs \ {r} : a[q] = at[q]
  PROVE  /\ Cardinality(Owners(mn, a, x)) \in Nat
         /\ Cardinality(Owners(mn, a, x)) =
              IF mine[r] /\ at[r] > x THEN Cardinality(Owners(mine, at, x)) - 1
                                      ELSE Cardinality(Owners(mine, at, x))
<1>1. Owners(mn, a, x) = Owners(mine, at, x) \ {r}
  BY DEF Owners
<1>2. Owners(mine, at, x) \in SUBSET Reqs /\ Owners(mn, a, x) \in SUBSET Reqs
  BY DEF Owners
<1>3. IsFiniteSet(Owners(mine, at, x)) /\ IsFiniteSet(Owners(mn, a, x))
  BY <1>2, FS_Subset, RedisAssumption
<1>4. r \in Owners(mine, at, x) <=> mine[r] /\ at[r] > x
  BY DEF Owners
<1>5. QED
  BY <1>1, <1>3, <1>4, FS_RemoveElement, FS_CardinalityType

\* A request whose script is sent again owns its member.
LEMMA OwnersAcquire ==
  ASSUME NEW r \in Reqs, NEW x \in Int, mine \in [Reqs -> BOOLEAN], ~mine[r],
         NEW mn, mn = [mine EXCEPT ![r] = TRUE]
  PROVE  /\ Cardinality(Owners(mn, at, x)) \in Nat
         /\ Cardinality(Owners(mn, at, x)) =
              IF at[r] > x THEN Cardinality(Owners(mine, at, x)) + 1
                           ELSE Cardinality(Owners(mine, at, x))
<1>1. Owners(mine, at, x) \in SUBSET Reqs /\ Owners(mn, at, x) \in SUBSET Reqs
  BY DEF Owners
<1>2. IsFiniteSet(Owners(mine, at, x)) /\ IsFiniteSet(Owners(mn, at, x))
  BY <1>1, FS_Subset, RedisAssumption
<1>3. r \notin Owners(mine, at, x)
  BY DEF Owners
<1>4. Cardinality(Owners(mn, at, x)) \in Nat
  BY <1>2, FS_CardinalityType
<1>5. CASE at[r] > x
  <2>1. Owners(mn, at, x) = Owners(mine, at, x) \cup {r}
    BY <1>5 DEF Owners
  <2>2. QED
    BY <1>2, <1>3, <1>4, <1>5, <2>1, FS_AddElement
<1>6. CASE ~(at[r] > x)
  <2>1. Owners(mn, at, x) = Owners(mine, at, x)
    BY <1>6 DEF Owners
  <2>2. QED
    BY <1>4, <1>6, <2>1
<1>7. QED
  BY <1>5, <1>6

-----------------------------------------------------------------------------
(* The steps of RedisLimiter preserve the invariant *)

LEMMA RankedKept ==
  ASSUME NEW T, NEW h \in Seq(T), NEW y \in Int,
         NEW o \in Nat, NEW n \in Nat, NEW o2 \in Nat, NEW n2 \in Nat,
         Ranked(h, y, o, n), o2 + n <= o + n2
  PROVE  Ranked(h, y, o2, n2)
<1>1. Len(h) \in Nat
  BY SeqFacts
<1>2. QED
  BY <1>1 DEF Ranked

\* Letting a request through now keeps the history and, while there is room in
\* the count of the last Window - MaxDelay, the bound.
LEMMA AdmitHistory ==
  ASSUME RedisInv, now' = now, admitted' = Recent(Append(admitted, now))
  PROVE  HistoryInv'
<1>1. /\ admitted \in Seq(0..MaxTime) /\ now \in 0..MaxTime /\ 0..MaxTime \subseteq Int
      /\ NotAfter(admitted, now)
  BY LimiterAssumption DEF RedisInv, HistoryInv, LimiterInv, LimiterTypeOK
<1> DEFINE g == Longer(admitted, now)
           d == Dropped(admitted)
<1>2. /\ g \in Seq(0..MaxTime) /\ Len(g) = Len(admitted) + 1 - d
      /\ Len(admitted) \in Nat /\ d \in 0..1 /\ now \in Int
  BY <1>1, AdmitFacts
<1>3. /\ \A i \in 1..(Len(admitted) - d) : g[i] = admitted[i + d]
      /\ g[Len(admitted) + 1 - d] = now
  <2> DEFINE T == 0..MaxTime
  <2>1. admitted \in Seq(T) /\ now \in T /\ T \subseteq Int
    BY <1>1
  <2> HIDE DEF T
  <2>2. QED
    BY <2>1, AdmitFacts
<1> HIDE DEF g, d
<1>4. ASSUME NEW i \in 1..Len(g) PROVE g[i] <= now
  <2>1. CASE i = Len(admitted) + 1 - d
    BY <1>2, <1>3, <2>1
  <2>2. CASE i # Len(admitted) + 1 - d
    <3>1. i \in 1..(Len(admitted) - d) /\ i + d \in 1..Len(admitted)
      BY <1>2, <2>2
    <3>2. QED
      BY <1>1, <1>3, <3>1 DEF NotAfter
  <2>3. QED
    BY <2>1, <2>2
<1>5. admitted' = g
  BY DEF g, Longer
<1>6. QED
  BY <1>2, <1>4, <1>5 DEF HistoryInv, NotAfter

LEMMA AdmitBound ==
  ASSUME RedisInv, now' = now, admitted' = Recent(Append(admitted, now)),
         NEW c \in Nat,
         c = Cardinality(Members(window, now - Window))
               + Cardinality(Later(grants[Key], (now - Window) + MaxDelay)),
         c < 2 * Capacity,
         grants'[Key] = <<>> => grants[Key] = <<>> /\ c < Capacity
  PROVE  RedisWindowBound'
<1> DEFINE x == now - Window
           y == x + MaxDelay
           o == Cardinality(Owners(mine, at, x))
           span == Window - MaxDelay
<1>1. /\ admitted \in Seq(0..MaxTime) /\ now \in 0..MaxTime /\ 0..MaxTime \subseteq Int
      /\ now \in Int
  BY LimiterAssumption DEF RedisInv, HistoryInv, LimiterInv, LimiterTypeOK
<1>2. /\ x \in Int /\ y \in Int /\ x >= now - Window /\ span \in Int /\ y = now - span
  BY <1>1, LimiterAssumption, RedisAssumption
<1>3. o \in Nat
  BY <1>2, CardinalitiesAreNat DEF RedisInv
<1>4. Ranked(admitted, y, o, c)
  BY <1>2 DEF RedisInv, CountInv, CountedSince
<1>5. Capacity \in Nat /\ Capacity > 0
  BY CapacityType
<1> HIDE DEF x, y, o, span
<1>6. ASSUME NEW n \in Nat, n > 0, c < n, SpreadOver(admitted, n, span)
      PROVE  SpreadOver(admitted', n, span)
  <2>1. ASSUME Len(admitted) >= n
        PROVE  admitted[Len(admitted) - n + 1] + span <= now
    <3>1. n \in Nat \ {0}
      BY <1>6
    <3>2. admitted[Len(admitted) - n + 1] <= y
      BY <1>1, <1>2, <1>3, <1>4, <1>6, <2>1, <3>1, RankedSpread
    <3>3. Len(admitted) \in Nat /\ Len(admitted) - n + 1 \in 1..Len(admitted)
      BY <1>1, <1>6, <2>1, SeqFacts
    <3>4. admitted[Len(admitted) - n + 1] \in Int
      BY <1>1, <3>3, SeqFacts
    <3>5. QED
      BY <1>1, <1>2, <3>2, <3>4
  <2>2. ComesAfter(now, admitted, n, span)
    BY <2>1 DEF ComesAfter
  <2>3. QED
    BY <1>1, <1>2, <1>6, <2>2, SpreadAdmit
<1>7. SpreadOver(admitted, 2 * Capacity, span)
  BY SpreadDef DEF RedisInv, RedisWindowBound, span
<1>8. SpreadOver(admitted', 2 * Capacity, span)
  <2>1. 2 * Capacity \in Nat /\ 2 * Capacity > 0
    BY <1>5
  <2>2. QED
    BY <1>6, <1>7, <2>1
<1>9. grants'[Key] = <<>> => SpreadOver(admitted', Capacity, span)
  <2>1. grants[Key] = <<>> => SpreadOver(admitted, Capacity, span)
    BY SpreadDef DEF RedisInv, RedisWindowBound, span
  <2>2. QED
    BY <1>5, <1>6, <2>1
<1>10. QED
  BY <1>8, <1>9 DEF RedisWindowBound, Spread, SpreadOver, Capacity, span

\* The parts of the invariant about requests and the set that a step keeps when
\* it only moves on request r.
LEMMA RequestStep ==
  ASSUME RedisInv, FreezeInv', NEW r \in Reqs, now' = now,
         at' = at \/ at' = [at EXCEPT ![r] = 0],
         \/ pc' = [pc EXCEPT ![r] = "fallback"] /\ at' = at
         \/ pc' = [pc EXCEPT ![r] = "idle"],
         pc[r] # "idle",
         mine' = [mine EXCEPT ![r] = FALSE],
         \A m \in window : m[1] > now - Window => m \in window'
  PROVE  RequestInv'
<1>1. /\ at \in [Reqs -> 0..MaxTime] /\ mine \in [Reqs -> BOOLEAN]
      /\ pc \in [Reqs -> {"idle", "script", "fallback"}]
      /\ \A q \in Reqs :
         /\ pc[q] # "script" => ~mine[q]
         /\ pc[q] # "idle" => at[q] <= now /\ now <= at[q] + MaxDelay
         /\ mine[q] => \E m \in window : m[1] = at[q]
  BY DEF RedisInv, RequestInv, FreezeInv
<1>2. now \in 0..MaxTime /\ MaxTime \in Nat /\ Window \in Nat /\ MaxDelay \in 0..(Window - 1)
  BY LimiterAssumption, RedisAssumption DEF RedisInv, LimiterInv, LimiterTypeOK
<1>3. at' \in [Reqs -> 0..MaxTime]
  BY <1>1, <1>2
<1>4. mine' \in [Reqs -> BOOLEAN]
  BY <1>1, Zenon
<1>5. ASSUME NEW q \in Reqs
      PROVE  /\ pc'[q] # "script" => ~mine'[q]
             /\ pc'[q] # "idle" => at'[q] <= now' /\ now' <= at'[q] + MaxDelay
             /\ mine'[q] => \E m \in window' : m[1] = at'[q]
  <2>1. CASE q = r
    BY <1>1, <2>1
  <2>2. CASE q # r
    <3>1. pc'[q] = pc[q] /\ at'[q] = at[q] /\ mine'[q] = mine[q]
      BY <1>1, <2>2
    <3>2. ASSUME mine[q] PROVE \E m \in window' : m[1] = at[q]
      <4>1. PICK m \in window : m[1] = at[q]
        BY <1>1, <3>2
      <4>2. pc[q] # "idle" /\ at[q] \in 0..MaxTime
        BY <1>1, <3>2
      <4>3. m[1] > now - Window
        BY <1>1, <1>2, <4>1, <4>2
      <4>4. QED
        BY <4>1, <4>3
    <3>3. QED
      BY <1>1, <3>1, <3>2
  <2>3. QED
    BY <2>1, <2>2
<1>6. QED
  BY <1>3, <1>4, <1>5 DEF RequestInv

\* What the steps about time x have in common.
LEMMA CountFacts ==
  ASSUME RedisInv, NEW x \in Int, x >= now - Window
  PROVE  /\ Cardinality(Owners(mine, at, x)) \in Nat
         /\ Cardinality(Members(window, x)) \in Nat
         /\ Cardinality(Later(grants[Key], x + MaxDelay)) \in Nat
         /\ Cardinality(Owners(mine, at, x)) <= Cardinality(Members(window, x))
         /\ Ranked(admitted, x + MaxDelay, Cardinality(Owners(mine, at, x)),
                   Cardinality(Members(window, x))
                     + Cardinality(Later(grants[Key], x + MaxDelay)))
         /\ x + MaxDelay \in Int
         /\ admitted \in Seq(0..MaxTime) /\ 0..MaxTime \subseteq Int
         /\ now \in 0..MaxTime /\ NotAfter(admitted, now)
<1>1. /\ Cardinality(Owners(mine, at, x)) \in Nat
      /\ Cardinality(Members(window, x)) \in Nat
      /\ Cardinality(Later(grants[Key], x + MaxDelay)) \in Nat
  BY CardinalitiesAreNat DEF RedisInv
<1>2. CountedSince(x)
  BY DEF RedisInv, CountInv
<1>3. x + MaxDelay \in Int
  BY RedisAssumption, LimiterAssumption
<1>4. /\ admitted \in Seq(0..MaxTime) /\ 0..MaxTime \subseteq Int
      /\ now \in 0..MaxTime /\ NotAfter(admitted, now)
  BY LimiterAssumption DEF RedisInv, HistoryInv, LimiterInv, LimiterTypeOK
<1>5. QED
  BY <1>1, <1>2, <1>3, <1>4 DEF CountedSince

\* A step that lets nothing through: members and owners may change together.
LEMMA CountStepKept ==
  ASSUME RedisInv, UNCHANGED <<now, admitted>>, grants'[Key] = grants[Key],
         \A x \in Int : x >= now - Window =>
            /\ Cardinality(Owners(mine', at', x)) \in Nat
            /\ Cardinality(Members(window', x)) \in Nat
            /\ Cardinality(Owners(mine', at', x)) + Cardinality(Members(window, x))
                 <= Cardinality(Owners(mine, at, x)) + Cardinality(Members(window', x))
  PROVE  CountInv'
<1> SUFFICES ASSUME NEW x \in Int, x >= now - Window
             PROVE CountedSince(x)'
  BY DEF CountInv
<1> DEFINE o == Cardinality(Owners(mine, at, x))
           m == Cardinality(Members(window, x))
           l == Cardinality(Later(grants[Key], x + MaxDelay))
           o2 == Cardinality(Owners(mine', at', x))
           m2 == Cardinality(Members(window', x))
<1>1. /\ o \in Nat /\ m \in Nat /\ l \in Nat /\ o <= m /\ x + MaxDelay \in Int
      /\ Ranked(admitted, x + MaxDelay, o, m + l) /\ admitted \in Seq(0..MaxTime)
  BY CountFacts
<1>2. o2 \in Nat /\ m2 \in Nat /\ o2 + m <= o + m2
  OBVIOUS
<1> HIDE DEF o, m, l, o2, m2
<1>3. m + l \in Nat /\ m2 + l \in Nat /\ o2 + (m + l) <= o + (m2 + l) /\ o2 <= m2
  BY <1>1, <1>2
<1>4. Ranked(admitted, x + MaxDelay, o2, m2 + l)
  BY <1>1, <1>2, <1>3, RankedKept
<1>5. QED
  BY <1>3, <1>4 DEF CountedSince, o2, m2, l

\* A step that lets a request through: there is a member, or a grant of the
\* fallback, for it.
LEMMA CountStepAdmit ==
  ASSUME RedisInv, now' = now, admitted' = Recent(Append(admitted, now)),
         \A x \in Int : x >= now - Window =>
            /\ Cardinality(Owners(mine', at', x)) \in Nat
            /\ Cardinality(Members(window', x)) \in Nat
            /\ Cardinality(Later(grants'[Key], x + MaxDelay)) \in Nat
            /\ Cardinality(Owners(mine', at', x)) <= Cardinality(Members(window', x))
            /\ now > x + MaxDelay =>
                 Cardinality(Owners(mine', at', x)) + 1 + Cardinality(Members(window, x))
                      + Cardinality(Later(grants[Key], x + MaxDelay))
                   <= Cardinality(Owners(mine, at, x)) + Cardinality(Members(window', x))
                      + Cardinality(Later(grants'[Key], x + MaxDelay))
  PROVE  CountInv'
<1> SUFFICES ASSUME NEW x \in Int, x >= now - Window
             PROVE CountedSince(x)'
  BY DEF CountInv
<1> DEFINE o == Cardinality(Owners(mine, at, x))
           m == Cardinality(Members(window, x))
           l == Cardinality(Later(grants[Key], x + MaxDelay))
           o2 == Cardinality(Owners(mine', at', x))
           m2 == Cardinality(Members(window', x))
           l2 == Cardinality(Later(grants'[Key], x + MaxDelay))
           y == x + MaxDelay
<1>1. /\ o \in Nat /\ m \in Nat /\ l \in Nat /\ o <= m /\ y \in Int
      /\ Ranked(admitted, y, o, m + l)
      /\ admitted \in Seq(0..MaxTime) /\ 0..MaxTime \subseteq Int
      /\ now \in 0..MaxTime /\ NotAfter(admitted, now)
  BY CountFacts
<1>2. /\ o2 \in Nat /\ m2 \in Nat /\ l2 \in Nat /\ o2 <= m2
      /\ now > y => o2 + 1 + m + l <= o + m2 + l2
  OBVIOUS
<1> HIDE DEF o, m, l, o2, m2, l2, y
<1>3. /\ m + l \in Nat /\ m2 + l2 \in Nat /\ o <= m + l
      /\ now > y => o2 + 1 + (m + l) <= o + (m2 + l2)
  BY <1>1, <1>2
<1>4. Ranked(Recent(Append(admitted, now)), y, o2, m2 + l2)
  BY <1>1, <1>2, <1>3, RankedAdmit
<1>5. QED
  BY <1>2, <1>4 DEF CountedSince, o2, m2, l2, y

RestInv ==
    RequestInv /\ SetInv /\ HistoryInv /\ CountInv /\ RedisWindowBound

LEMMA BoundKept ==
  ASSUME RedisInv, admitted' = admitted, grants'[Key] = grants[Key]
  PROVE  RedisWindowBound'
  BY DEF RedisInv, RedisWindowBound, Spread, Capacity

LEMMA RunScriptStep ==
  ASSUME RedisInv, FreezeInv', NEW r \in Reqs, RunScript(r)
  PROVE  RestInv'
<1>1. PICK s \in Statuses : Script(r, s) /\ Answer(r, s)
  BY DEF RunScript
<1>2. pc[r] = "script" /\ now' = now /\ grants' = grants
  BY DEF RunScript, limiterVars
<1>3. /\ pc' = [pc EXCEPT ![r] = "idle"] /\ at' = [at EXCEPT ![r] = 0]
      /\ mine' = [mine EXCEPT ![r] = FALSE]
      /\ s = "BLOCKED" => admitted' = admitted
      /\ s # "BLOCKED" => admitted' = Recent(Append(admitted, now))
  BY <1>1 DEF Answer, Goto
<1>4. /\ SetInv'
      /\ \A m \in window : m[1] > now - Window => m \in window'
      /\ s # "BLOCKED" => Cardinality(Members(window, now - Window)) < Capacity
      /\ \A x \in Int : x >= now - Window =>
           Cardinality(Members(window', x)) =
             IF s # "BLOCKED" /\ ~mine[r] /\ at[r] > x
               THEN Cardinality(Members(window, x)) + 1
               ELSE Cardinality(Members(window, x))
  BY <1>1, <1>2, ScriptEffect
<1>5. RequestInv'
  BY <1>2, <1>3, <1>4, RequestStep
<1>6. /\ mine \in [Reqs -> BOOLEAN] /\ at \in [Reqs -> 0..MaxTime]
      /\ at[r] \in Int /\ at[r] <= now /\ now <= at[r] + MaxDelay
      /\ now \in Int /\ MaxDelay \in Int /\ MaxDelay >= 0 /\ Window \in Int
  BY <1>2, LimiterAssumption, RedisAssumption
  DEF RedisInv, RequestInv, LimiterInv, LimiterTypeOK
<1>7. ASSUME NEW x \in Int
      PROVE  /\ Cardinality(Owners(mine', at', x)) \in Nat
             /\ Cardinality(Owners(mine', at', x)) =
                  IF mine[r] /\ at[r] > x THEN Cardinality(Owners(mine, at, x)) - 1
                                          ELSE Cardinality(Owners(mine, at, x))
  <2>1. \A q \in Reqs \ {r} : at'[q] = at[q]
    BY <1>3, <1>6
  <2>2. QED
    BY <1>3, <1>6, <2>1, OwnersRelease
<1>8. CASE s = "BLOCKED"
  <2>1. CountInv'
    <3>1. ASSUME NEW x \in Int, x >= now - Window
          PROVE  /\ Cardinality(Owners(mine', at', x)) \in Nat
                 /\ Cardinality(Members(window', x)) \in Nat
                 /\ Cardinality(Owners(mine', at', x)) + Cardinality(Members(window, x))
                      <= Cardinality(Owners(mine, at, x)) + Cardinality(Members(window', x))
      <4> DEFINE o == Cardinality(Owners(mine, at, x))
                 o2 == Cardinality(Owners(mine', at', x))
      <4>1. o \in Nat /\ Cardinality(Members(window, x)) \in Nat
        BY <3>1, CountFacts
      <4>2. o2 \in Nat /\ o2 = IF mine[r] /\ at[r] > x THEN o - 1 ELSE o
        BY <1>7
      <4>3. Cardinality(Members(window', x)) = Cardinality(Members(window, x))
        BY <1>4, <1>8, <3>1
      <4> HIDE DEF o, o2
      <4>4. o2 <= o
        BY <4>1, <4>2
      <4>5. QED
        BY <4>1, <4>2, <4>3, <4>4 DEF o, o2
    <3>2. QED
      BY <1>2, <1>3, <1>8, <3>1, CountStepKept
  <2>2. HistoryInv' /\ RedisWindowBound'
    BY <1>2, <1>3, <1>8, BoundKept DEF RedisInv, HistoryInv
  <2>3. QED
    BY <1>4, <1>5, <2>1, <2>2 DEF RestInv
<1>9. CASE s # "BLOCKED"
  <2>1. CountInv'
    <3>1. ASSUME NEW x \in Int, x >= now - Window
          PROVE  /\ Cardinality(Owners(mine', at', x)) \in Nat
                 /\ Cardinality(Members(window', x)) \in Nat
                 /\ Cardinality(Later(grants'[Key], x + MaxDelay)) \in Nat
                 /\ Cardinality(Owners(mine', at', x)) <= Cardinality(Members(window', x))
                 /\ now > x + MaxDelay =>
                      Cardinality(Owners(mine', at', x)) + 1 + Cardinality(Members(window, x))
                           + Cardinality(Later(grants[Key], x + MaxDelay))
                        <= Cardinality(Owners(mine, at, x)) + Cardinality(Members(window', x))
                           + Cardinality(Later(grants'[Key], x + MaxDelay))
      <4> DEFINE o == Cardinality(Owners(mine, at, x))
                 m == Cardinality(Members(window, x))
                 l == Cardinality(Later(grants[Key], x + MaxDelay))
                 o2 == Cardinality(Owners(mine', at', x))
                 m2 == Cardinality(Members(window', x))
      <4>1. o \in Nat /\ m \in Nat /\ l \in Nat /\ o <= m
        BY <3>1, CountFacts
      <4>2. o2 \in Nat /\ o2 = IF mine[r] /\ at[r] > x THEN o - 1 ELSE o
        BY <1>7
      <4>3. m2 = IF ~mine[r] /\ at[r] > x THEN m + 1 ELSE m
        BY <1>4, <1>9, <3>1
      <4>4. now > x + MaxDelay => at[r] > x
        BY <1>6
      <4> HIDE DEF o, m, l, o2, m2
      <4>5. m2 \in Nat /\ o2 <= m2 /\ (now > x + MaxDelay => o2 + 1 + m + l <= o + m2 + l)
        BY <4>1, <4>2, <4>3, <4>4
      <4>6. QED
        BY <1>2, <4>1, <4>2, <4>5 DEF o, m, l, o2, m2
    <3>2. QED
      BY <1>2, <1>3, <1>9, <3>1, CountStepAdmit
  <2>2. HistoryInv'
    BY <1>2, <1>3, <1>9, AdmitHistory
  <2>3. RedisWindowBound'
    <3> DEFINE m == Cardinality(Members(window, now - Window))
               l == Cardinality(Later(grants[Key], (now - Window) + MaxDelay))
    <3>1. now - Window \in Int /\ now - Window >= now - Window
      BY <1>6
    <3>2. m \in Nat /\ l \in Nat /\ l <= Capacity
      BY <3>1, CardinalitiesAreNat DEF RedisInv
    <3>3. m < Capacity
      BY <1>4, <1>9
    <3>4. grants[Key] = <<>> => l = 0
      <4>1. grants[Key] = <<>> => Later(grants[Key], (now - Window) + MaxDelay) = {}
        BY DEF Later
      <4>2. QED
        BY <4>1, FS_EmptySet
    <3> HIDE DEF m, l
    <3>5. m + l \in Nat /\ m + l < 2 * Capacity /\ (grants[Key] = <<>> => m + l < Capacity)
      BY <3>2, <3>3, <3>4, CapacityType
    <3>6. QED
      BY <1>2, <1>3, <1>9, <3>5, AdmitBound DEF m, l
  <2>4. QED
    BY <1>4, <1>5, <2>1, <2>2, <2>3 DEF RestInv
<1>10. QED
  BY <1>8, <1>9

\* The script ran and is sent again: a new member has its owner.
LEMMA ResendStep ==
  ASSUME RedisInv, NEW r \in Reqs, Resend(r)
  PROVE  RestInv'
<1>1. PICK s \in Statuses :
         Script(r, s) /\ mine' = [mine EXCEPT ![r] = @ \/ s # "BLOCKED"]
  BY DEF Resend
<1>2. pc[r] = "script" /\ now' = now /\ grants' = grants /\ UNCHANGED <<pc, at, admitted>>
  BY DEF Resend, limiterVars
<1>3. /\ SetInv'
      /\ \A m \in window : m[1] > now - Window => m \in window'
      /\ s # "BLOCKED" => \E m \in window' : m[1] = at[r]
      /\ \A x \in Int : x >= now - Window =>
           Cardinality(Members(window', x)) =
             IF s # "BLOCKED" /\ ~mine[r] /\ at[r] > x
               THEN Cardinality(Members(window, x)) + 1
               ELSE Cardinality(Members(window, x))
  BY <1>1, <1>2, ScriptEffect
<1>4. /\ mine \in [Reqs -> BOOLEAN] /\ at \in [Reqs -> 0..MaxTime]
      /\ now \in 0..MaxTime /\ MaxTime \in Nat /\ Window \in Nat /\ MaxDelay \in 0..(Window - 1)
      /\ \A q \in Reqs :
         /\ pc[q] # "script" => ~mine[q]
         /\ pc[q] # "idle" => at[q] <= now /\ now <= at[q] + MaxDelay
         /\ mine[q] => \E m \in window : m[1] = at[q]
  BY LimiterAssumption, RedisAssumption DEF RedisInv, RequestInv, LimiterInv, LimiterTypeOK
<1>5. \/ mine' = [mine EXCEPT ![r] = TRUE] /\ ~mine[r] /\ s # "BLOCKED"
      \/ mine' = mine /\ (mine[r] \/ s = "BLOCKED")
  <2>1. CASE mine[r]
    BY <1>1, <1>4, <2>1
  <2>2. CASE ~mine[r] /\ s = "BLOCKED"
    BY <1>1, <1>4, <2>2
  <2>3. CASE ~mine[r] /\ s # "BLOCKED"
    BY <1>1, <1>4, <2>3
  <2>4. QED
    BY <2>1, <2>2, <2>3
<1>6. RequestInv'
  <2>1. mine' \in [Reqs -> BOOLEAN]
    BY <1>4, <1>5, Zenon
  <2>2. ASSUME NEW q \in Reqs, mine[q] PROVE \E m \in window' : m[1] = at[q]
    <3>1. PICK m \in window : m[1] = at[q]
      BY <1>4, <2>2
    <3>2. pc[q] # "idle" /\ at[q] \in 0..MaxTime
      BY <1>4, <2>2
    <3>3. m[1] > now - Window
      BY <1>4, <3>1, <3>2
    <3>4. QED
      BY <1>3, <3>1, <3>3
  <2>3. ASSUME NEW q \in Reqs
        PROVE  /\ pc[q] # "script" => ~mine'[q]
               /\ mine'[q] => \E m \in window' : m[1] = at[q]
    <3>1. CASE mine'[q] = mine[q]
      BY <1>4, <2>2, <3>1
    <3>2. CASE mine'[q] # mine[q]
      <4>1. q = r /\ s # "BLOCKED"
        BY <1>4, <1>5, <3>2
      <4>2. QED
        BY <1>2, <1>3, <4>1
    <3>3. QED
      BY <3>1, <3>2
  <2>4. QED
    BY <1>2, <1>4, <2>1, <2>3 DEF RequestInv
<1>7. CountInv'
  <2>1. ASSUME NEW x \in Int, x >= now - Window
        PROVE  /\ Cardinality(Owners(mine', at', x)) \in Nat
               /\ Cardinality(Members(window', x)) \in Nat
               /\ Cardinality(Owners(mine', at', x)) + Cardinality(Members(window, x))
                    <= Cardinality(Owners(mine, at, x)) + Cardinality(Members(window', x))
    <3> DEFINE o == Cardinality(Owners(mine, at, x))
               o2 == Cardinality(Owners(mine', at', x))
               m == Cardinality(Members(window, x))
               m2 == Cardinality(Members(window', x))
    <3>1. o \in Nat /\ m \in Nat
      BY <2>1, CountFacts
    <3>2. m2 = IF s # "BLOCKED" /\ ~mine[r] /\ at[r] > x THEN m + 1 ELSE m
      BY <1>3, <2>1
    <3>3. CASE mine' = mine /\ (mine[r] \/ s = "BLOCKED")
      <4>1. o2 = o
        BY <1>2, <3>3
      <4> HIDE DEF o, o2, m, m2
      <4>2. m2 = m
        BY <3>2, <3>3
      <4>3. QED
        BY <3>1, <4>1, <4>2 DEF o, o2, m, m2
    <3>4. CASE mine' = [mine EXCEPT ![r] = TRUE] /\ ~mine[r] /\ s # "BLOCKED"
      <4>1. o2 \in Nat /\ o2 = IF at[r] > x THEN o + 1 ELSE o
        BY <1>2, <1>4, <3>4, OwnersAcquire
      <4> HIDE DEF o, o2, m, m2
      <4>2. m2 \in Nat /\ o2 + m <= o + m2
        BY <3>1, <3>2, <3>4, <4>1
      <4>3. QED
        BY <4>1, <4>2 DEF o, o2, m, m2
    <3>5. QED
      BY <1>5, <3>3, <3>4
  <2>2. QED
    BY <1>2, <2>1, CountStepKept
<1>8. HistoryInv' /\ RedisWindowBound'
  BY <1>2, BoundKept DEF RedisInv, HistoryInv
<1>9. QED
  BY <1>3, <1>6, <1>7, <1>8 DEF RestInv

\* Redis is given up, whether or not the script ran: the member stays, without
\* an owner.
LEMMA GiveUpStep ==
  ASSUME RedisInv, FreezeInv', NEW r \in Reqs, LoseReply(r) \/ FailScript(r)
  PROVE  RestInv'
<1>1. /\ pc[r] = "script" /\ now' = now /\ grants' = grants
      /\ UNCHANGED <<at, admitted>>
      /\ pc' = [pc EXCEPT ![r] = "fallback"] /\ mine' = [mine EXCEPT ![r] = FALSE]
  BY DEF LoseReply, FailScript, limiterVars, Goto
<1>2. /\ SetInv'
      /\ \A m \in window : m[1] > now - Window => m \in window'
      /\ \A x \in Int : x >= now - Window =>
           Cardinality(Members(window', x)) \in
             {Cardinality(Members(window, x)), Cardinality(Members(window, x)) + 1}
  <2>1. CASE \E s \in Statuses : Script(r, s)
    BY <1>1, <2>1, ScriptEffect
  <2>2. CASE UNCHANGED <<window, ttl>>
    BY <1>1, <2>2 DEF RedisInv, SetInv, Capacity
  <2>3. QED
    BY <2>1, <2>2 DEF LoseReply, FailScript, redisVars
<1>3. RequestInv'
  BY <1>1, <1>2, RequestStep
<1>4. mine \in [Reqs -> BOOLEAN]
  BY DEF RedisInv, RequestInv
<1>5. CountInv'
  <2>1. ASSUME NEW x \in Int, x >= now - Window
        PROVE  /\ Cardinality(Owners(mine', at', x)) \in Nat
               /\ Cardinality(Members(window', x)) \in Nat
               /\ Cardinality(Owners(mine', at', x)) + Cardinality(Members(window, x))
                    <= Cardinality(Owners(mine, at, x)) + Cardinality(Members(window', x))
    <3> DEFINE o == Cardinality(Owners(mine, at, x))
               o2 == Cardinality(Owners(mine', at', x))
               m == Cardinality(Members(window, x))
               m2 == Cardinality(Members(window', x))
    <3>1. o \in Nat /\ m \in Nat
      BY <2>1, CountFacts
    <3>2. o2 \in Nat /\ o2 = IF mine[r] /\ at[r] > x THEN o - 1 ELSE o
      BY <1>1, <1>4, OwnersRelease
    <3>3. m2 \in {m, m + 1}
      BY <1>2, <2>1
    <3> HIDE DEF o, o2, m, m2
    <3>4. m2 \in Nat /\ o2 + m <= o + m2
      BY <3>1, <3>2, <3>3
    <3>5. QED
      BY <3>2, <3>4 DEF o, o2, m, m2
  <2>2. QED
    BY <1>1, <2>1, CountStepKept
<1>6. HistoryInv' /\ RedisWindowBound'
  BY <1>1, BoundKept DEF RedisInv, HistoryInv
<1>7. QED
  BY <1>2, <1>3, <1>5, <1>6 DEF RestInv

\* memFallback decides: a grant of its own covers the request it lets through.
LEMMA FallbackStep ==
  ASSUME RedisInv, FreezeInv', NEW r \in Reqs, Fallback(r)
  PROVE  RestInv'
<1>1. PICK ts \in Seq(0..MaxTime) :
         /\ IsSuffix(ts, grants[Key], now - Window)
         /\ AllLater(ts, now - Window)
         /\ CheckNormal(Key, ts) \/ CheckBurst(Key, ts) \/ CheckBlocked(Key, ts)
  BY CheckedSlice, RedisAssumption DEF Fallback, RedisInv
<1>2. /\ pc[r] = "fallback" /\ now' = now /\ UNCHANGED <<window, ttl>>
      /\ pc' = [pc EXCEPT ![r] = "idle"] /\ at' = [at EXCEPT ![r] = 0]
      /\ mine' = [mine EXCEPT ![r] = FALSE]
      /\ admitted' = IF status' = "BLOCKED" THEN admitted ELSE Recent(Append(admitted, now))
  BY DEF Fallback, Check, redisVars, Answer, Goto
<1>3. /\ grants \in [ApiKeys -> Seq(0..MaxTime)] /\ grants[Key] \in Seq(0..MaxTime)
      /\ Key \in ApiKeys /\ now \in 0..MaxTime /\ 0..MaxTime \subseteq Int /\ now \in Int
      /\ SoftLimit \in Nat /\ HardLimit \in Nat /\ Window \in Nat
      /\ MaxDelay \in Int /\ MaxDelay >= 0
  BY RedisAssumption, LimiterAssumption DEF RedisInv, LimiterInv, LimiterTypeOK
<1>4. Len(ts) \in Nat
  BY SeqFacts
<1>5. \/ status' = "BLOCKED" /\ grants' = grants
      \/ status' # "BLOCKED" /\ Len(ts) < Capacity
         /\ grants'[Key] = Append(grants[Key], now)
  <2>1. CASE CheckNormal(Key, ts)
    BY <1>3, <1>4, <2>1, CapacityType DEF CheckNormal, Grant
  <2>2. CASE CheckBurst(Key, ts)
    BY <1>3, <1>4, <2>2, CapacityType DEF CheckBurst, Grant
  <2>3. CASE CheckBlocked(Key, ts)
    BY <2>3 DEF CheckBlocked
  <2>4. QED
    BY <1>1, <2>1, <2>2, <2>3
<1>6. SetInv'
  BY <1>2 DEF RedisInv, SetInv, Capacity
<1>7. RequestInv'
  BY <1>2, RequestStep
<1>8. mine \in [Reqs -> BOOLEAN] /\ ~mine[r] /\ at \in [Reqs -> 0..MaxTime]
  BY <1>2 DEF RedisInv, RequestInv
<1>9. ASSUME NEW x \in Int
      PROVE  /\ Cardinality(Owners(mine', at', x)) \in Nat
             /\ Cardinality(Owners(mine', at', x)) = Cardinality(Owners(mine, at, x))
  <2>1. \A q \in Reqs \ {r} : at'[q] = at[q]
    BY <1>2, <1>8
  <2>2. QED
    BY <1>2, <1>8, <2>1, OwnersRelease
<1>10. CASE status' = "BLOCKED" /\ grants' = grants
  <2>1. CountInv'
    <3>1. ASSUME NEW x \in Int, x >= now - Window
          PROVE  /\ Cardinality(Owners(mine', at', x)) \in Nat
                 /\ Cardinality(Members(window', x)) \in Nat
                 /\ Cardinality(Owners(mine', at', x)) + Cardinality(Members(window, x))
                      <= Cardinality(Owners(mine, at, x)) + Cardinality(Members(window', x))
      <4> DEFINE o == Cardinality(Owners(mine, at, x))
                 m == Cardinality(Members(window, x))
                 o2 == Cardinality(Owners(mine', at', x))
                 m2 == Cardinality(Members(window', x))
      <4>1. o \in Nat /\ m \in Nat
        BY <3>1, CountFacts
      <4>2. o2 = o
        BY <1>9
      <4>3. m2 = m
        BY <1>2
      <4> HIDE DEF o, m, o2, m2
      <4>4. o2 \in Nat /\ m2 \in Nat /\ o2 + m <= o + m2
        BY <4>1, <4>2, <4>3
      <4>5. QED
        BY <4>4 DEF o, m, o2, m2
    <3>2. QED
      BY <1>2, <1>10, <3>1, CountStepKept
  <2>2. HistoryInv' /\ RedisWindowBound'
    BY <1>2, <1>10, BoundKept DEF RedisInv, HistoryInv
  <2>3. QED
    BY <1>6, <1>7, <2>1, <2>2 DEF RestInv
<1>11. CASE status' # "BLOCKED" /\ Len(ts) < Capacity
            /\ grants'[Key] = Append(grants[Key], now)
  <2>0. admitted' = Recent(Append(admitted, now))
    BY <1>2, <1>11
  <2>1. CountInv'
    <3>1. ASSUME NEW x \in Int, x >= now - Window
          PROVE  /\ Cardinality(Owners(mine', at', x)) \in Nat
                 /\ Cardinality(Members(window', x)) \in Nat
                 /\ Cardinality(Later(grants'[Key], x + MaxDelay)) \in Nat
                 /\ Cardinality(Owners(mine', at', x)) <= Cardinality(Members(window', x))
                 /\ now > x + MaxDelay =>
                      Cardinality(Owners(mine', at', x)) + 1 + Cardinality(Members(window, x))
                           + Cardinality(Later(grants[Key], x + MaxDelay))
                        <= Cardinality(Owners(mine, at, x)) + Cardinality(Members(window', x))
                           + Cardinality(Later(grants'[Key], x + MaxDelay))
      <4> DEFINE o == Cardinality(Owners(mine, at, x))
                 m == Cardinality(Members(window, x))
                 y == x + MaxDelay
                 l == Cardinality(Later(grants[Key], y))
                 o2 == Cardinality(Owners(mine', at', x))
                 l2 == Cardinality(Later(grants'[Key], y))
      <4>1. o \in Nat /\ m \in Nat /\ l \in Nat /\ o <= m /\ y \in Int
        BY <3>1, CountFacts
      <4>2. o2 = o
        BY <1>9
      <4>3. IsFiniteSet(Later(grants[Key], y))
        BY <3>1, CardinalitiesAreNat DEF RedisInv
      <4>4. /\ IsFiniteSet(Later(grants'[Key], y))
            /\ now > y => l2 = l + 1
        <5>1. y \in Int
          BY <4>1
        <5> HIDE DEF y
        <5>2. /\ IsFiniteSet(Later(Append(grants[Key], now), y))
              /\ now > y => Cardinality(Later(Append(grants[Key], now), y))
                              = Cardinality(Later(grants[Key], y)) + 1
          BY <1>3, <4>3, <5>1, LaterAppend
        <5>3. QED
          BY <1>11, <5>2
      <4>5. l2 \in Nat
        BY <4>4, FS_CardinalityType
      <4>6. Cardinality(Members(window', x)) = m
        BY <1>2
      <4> HIDE DEF o, m, l, o2, l2, y
      <4>7. o2 <= m /\ (now > y => o2 + 1 + m + l <= o + m + l2) /\ o2 \in Nat
        BY <4>1, <4>2, <4>4, <4>5
      <4>8. QED
        BY <4>1, <4>5, <4>6, <4>7 DEF o, m, l, o2, l2, y
    <3>2. QED
      BY <1>2, <2>0, <3>1, CountStepAdmit
  <2>2. HistoryInv'
    BY <1>2, <2>0, AdmitHistory
  <2>3. RedisWindowBound'
    <3> DEFINE m == Cardinality(Members(window, now - Window))
               l == Cardinality(Later(grants[Key], (now - Window) + MaxDelay))
    <3>1. /\ now - Window \in Int /\ now - Window >= now - Window
          /\ (now - Window) + MaxDelay \in Int /\ (now - Window) + MaxDelay >= now - Window
      BY <1>3
    <3>2. m \in Nat /\ m <= Capacity
      BY <3>1, CardinalitiesAreNat DEF RedisInv
    <3>3. l \in Nat /\ l <= Len(ts)
      BY <1>1, <1>3, <3>1, SuffixBounds
    <3>4. grants'[Key] # <<>>
      BY <1>3, <1>11
    <3> HIDE DEF m, l
    <3>5. m + l \in Nat /\ m + l < 2 * Capacity
      BY <1>4, <1>11, <3>2, <3>3, CapacityType
    <3>6. QED
      BY <1>2, <2>0, <3>4, <3>5, AdmitBound DEF m, l
  <2>4. QED
    BY <1>6, <1>7, <2>1, <2>2, <2>3 DEF RestInv
<1>12. QED
  BY <1>5, <1>10, <1>11

LEMMA BeginStep ==
  ASSUME RedisInv, NEW r \in Reqs, Begin(r)
  PROVE  RestInv'
<1>1. /\ pc[r] = "idle" /\ pc' = [pc EXCEPT ![r] = "script"]
      /\ at' = [at EXCEPT ![r] = now] /\ UNCHANGED <<window, ttl, mine, admitted>>
      /\ now' = now /\ grants' = grants
  BY DEF Begin, Goto, limiterVars, redisVars
<1>2. /\ mine \in [Reqs -> BOOLEAN] /\ at \in [Reqs -> 0..MaxTime]
      /\ now \in 0..MaxTime /\ MaxTime \in Nat /\ MaxDelay \in Nat
      /\ pc \in [Reqs -> {"idle", "script", "fallback"}]
      /\ \A q \in Reqs :
         /\ pc[q] # "script" => ~mine[q]
         /\ pc[q] # "idle" => at[q] <= now /\ now <= at[q] + MaxDelay
         /\ mine[q] => \E m \in window : m[1] = at[q]
  BY LimiterAssumption, RedisAssumption
  DEF RedisInv, RequestInv, LimiterInv, LimiterTypeOK, FreezeInv
<1>3. RequestInv'
  BY <1>1, <1>2 DEF RequestInv
<1>4. SetInv' /\ HistoryInv' /\ RedisWindowBound'
  BY <1>1, BoundKept DEF RedisInv, SetInv, HistoryInv, Capacity
<1>5. \A x : Owners(mine', at', x) = Owners(mine, at, x)
  BY <1>1, <1>2 DEF Owners
<1>6. CountInv'
  BY <1>1, <1>5 DEF RedisInv, CountInv, CountedSince
<1>7. QED
  BY <1>3, <1>4, <1>6 DEF RestInv

\* The clock: what has expired with the set has left the window.
LEMMA ElapseStep ==
  ASSUME RedisInv, Elapse
  PROVE  RestInv'
<1>1. /\ \A r \in Reqs : pc[r] # "idle" => now - at[r] < MaxDelay
      /\ now < MaxTime /\ now' = now + 1 /\ grants' = grants
      /\ ttl' = IF ttl > 0 THEN ttl - 1 ELSE 0
      /\ window' = IF ttl <= 1 THEN {} ELSE window
      /\ UNCHANGED <<pc, at, mine, admitted>>
  BY DEF Elapse, LimiterElapse, requestVars
<1>2. /\ mine \in [Reqs -> BOOLEAN] /\ at \in [Reqs -> 0..MaxTime]
      /\ now \in 0..MaxTime /\ MaxTime \in Nat /\ Window \in Nat \ {0}
      /\ MaxDelay \in 0..(Window - 1)
      /\ \A q \in Reqs :
         /\ pc[q] # "script" => ~mine[q]
         /\ pc[q] # "idle" => at[q] <= now /\ now <= at[q] + MaxDelay
         /\ mine[q] => \E m \in window : m[1] = at[q]
  BY LimiterAssumption, RedisAssumption
  DEF RedisInv, RequestInv, LimiterInv, LimiterTypeOK
<1>3. /\ window \subseteq (0..MaxTime) \X Nat /\ IsFiniteSet(window)
      /\ Cardinality(window) <= Capacity /\ ttl \in 0..Window
      /\ \A m \in window : m[1] \in 0..MaxTime /\ m[1] <= now /\ m[1] + Window <= now + ttl
  BY DEF RedisInv, SetInv
<1>4. SetInv'
  <2>1. ttl' \in 0..Window
    BY <1>1, <1>2, <1>3
  <2>2. CASE ttl <= 1
    <3>1. window' = {}
      BY <1>1, <2>2
    <3>2. QED
      BY <2>1, <3>1, FS_EmptySet, CapacityType DEF SetInv, Capacity
  <2>3. CASE ~(ttl <= 1)
    <3>1. window' = window /\ ttl' = ttl - 1
      BY <1>1, <1>2, <1>3, <2>3
    <3>2. \A m \in window' : m[1] <= now' /\ m[1] + Window <= now' + ttl'
      BY <1>1, <1>2, <1>3, <3>1
    <3>3. QED
      BY <1>3, <2>1, <3>1, <3>2 DEF SetInv, Capacity
  <2>4. QED
    BY <2>2, <2>3
<1>5. RequestInv'
  <2>1. ASSUME NEW q \in Reqs, mine[q] PROVE \E m \in window' : m[1] = at[q]
    <3>1. PICK m \in window : m[1] = at[q]
      BY <1>2, <2>1
    <3>2. at[q] \in 0..MaxTime /\ now - at[q] < MaxDelay
      BY <1>1, <1>2, <2>1
    <3>3. m[1] + Window <= now + ttl
      BY <1>3
    <3>4. ttl > 1
      BY <1>2, <1>3, <3>1, <3>2, <3>3
    <3>5. QED
      BY <1>1, <1>2, <1>3, <3>1, <3>4
  <2>2. ASSUME NEW q \in Reqs, pc[q] # "idle"
        PROVE  at[q] <= now' /\ now' <= at[q] + MaxDelay
    <3>1. at[q] \in 0..MaxTime /\ at[q] <= now /\ now - at[q] < MaxDelay
      BY <1>1, <1>2, <2>2
    <3>2. QED
      BY <1>1, <1>2, <3>1
  <2>3. QED
    BY <1>1, <1>2, <2>1, <2>2 DEF RequestInv
<1>6. HistoryInv'
  <2>1. admitted \in Seq(0..MaxTime) /\ NotAfter(admitted, now)
    BY DEF RedisInv, HistoryInv
  <2>2. \A i \in 1..Len(admitted) : admitted[i] \in 0..MaxTime /\ admitted[i] <= now
    BY <2>1, SeqFacts DEF NotAfter
  <2>3. \A i \in 1..Len(admitted) : admitted[i] <= now + 1
    BY <1>2, <2>2
  <2>4. QED
    BY <1>1, <2>1, <2>3 DEF HistoryInv, NotAfter
<1>7. RedisWindowBound'
  BY <1>1, BoundKept
<1>8. CountInv'
  <2> SUFFICES ASSUME NEW x \in Int, x >= now' - Window
               PROVE CountedSince(x)'
    BY DEF CountInv
  <2>1. x >= now - Window
    BY <1>1, <1>2
  <2>2. CountedSince(x)
    BY <2>1 DEF RedisInv, CountInv
  <2>3. Members(window', x) = Members(window, x)
    <3>1. CASE ttl <= 1
      <4>1. \A m \in window : ~(m[1] > x)
        <5> SUFFICES ASSUME NEW m \in window PROVE m[1] <= x
          BY <1>3
        <5>1. m[1] \in 0..MaxTime /\ m[1] + Window <= now + ttl
          BY <1>3
        <5>2. QED
          BY <1>1, <1>2, <1>3, <3>1, <5>1
      <4>2. QED
        BY <1>1, <3>1, <4>1 DEF Members
    <3>2. CASE ~(ttl <= 1)
      BY <1>1, <3>2
    <3>3. QED
      BY <3>1, <3>2
  <2>4. QED
    BY <1>1, <2>2, <2>3 DEF CountedSince
<1>9. QED
  BY <1>4, <1>5, <1>6, <1>7, <1>8 DEF RestInv

\* The freeze and steps of others.
LEMMA QuietStep ==
  ASSUME RedisInv, UNCHANGED <<now, pc, at, mine, window, ttl, admitted>>,
         grants' = grants
  PROVE  RestInv'
<1>1. RequestInv' /\ SetInv' /\ HistoryInv'
  BY DEF RedisInv, RequestInv, SetInv, HistoryInv, Capacity
<1>2. CountInv'
  BY DEF RedisInv, CountInv, CountedSince
<1>3. QED
  BY <1>1, <1>2, BoundKept DEF RestInv

LEMMA RedisInvInit == Init => RedisInv
<1> SUFFICES ASSUME Init PROVE RedisInv
  OBVIOUS
<1>1. LimiterInv /\ FreezeInv
  BY LimiterInvInit, FreezeInvInit DEF Init
<1>2. mine \in [Reqs -> BOOLEAN] /\ \A r \in Reqs : ~mine[r]
  BY Zenon DEF Init
<1>3. /\ at = [r \in Reqs |-> 0] /\ pc = [r \in Reqs |-> "idle"]
      /\ window = {} /\ ttl = 0 /\ admitted = <<>>
      /\ MaxTime \in Nat /\ Window \in Nat /\ Capacity \in Nat
  BY CapacityType, LimiterAssumption DEF Init
<1>4. RequestInv
  BY <1>2, <1>3 DEF RequestInv
<1>5. SetInv
  BY <1>3, FS_EmptySet DEF SetInv
<1>6. HistoryInv
  BY <1>3 DEF HistoryInv, NotAfter
<1>7. CountInv
  <2> SUFFICES ASSUME NEW x \in Int, x >= now - Window PROVE CountedSince(x)
    BY DEF CountInv
  <2>1. Owners(mine, at, x) = {} /\ Members(window, x) = {}
    BY <1>2, <1>3 DEF Owners, Members
  <2>2. Cardinality(Owners(mine, at, x)) = 0 /\ Cardinality(Members(window, x)) = 0
    BY <2>1, FS_EmptySet
  <2>3. QED
    BY <1>3, <2>2 DEF CountedSince, Ranked
<1>8. RedisWindowBound
  BY <1>3 DEF RedisWindowBound, Spread
<1>9. QED
  BY <1>1, <1>4, <1>5, <1>6, <1>7, <1>8 DEF RedisInv

LEMMA RedisInvStep == RedisInv /\ [Next]_vars => RedisInv'
<1> SUFFICES ASSUME RedisInv, [Next]_vars PROVE RedisInv'
  OBVIOUS
<1>1. LimiterInv' /\ FreezeInv'
  BY LimiterInvStep, RedisStepIsLimiterStep, FreezeInvStep DEF RedisInv
<1>2. RestInv'
  <2>1. CASE \E c \in Callers, value \in Freezes : FreezeStore(c, value)
    BY <2>1, QuietStep DEF FreezeStore, limiterVars, redisVars
  <2>2. CASE \E c \in Callers : FreezeStoreFallback(c)
    BY <2>2, QuietStep
    DEF FreezeStoreFallback, SetGlobalBurstFreeze, redisVars, requestVars
  <2>3. CASE \E r \in Reqs : Begin(r)
    BY <2>3, BeginStep
  <2>4. CASE \E r \in Reqs : RunScript(r)
    BY <1>1, <2>4, RunScriptStep
  <2>5. CASE \E r \in Reqs : Resend(r)
    BY <2>5, ResendStep
  <2>6. CASE \E r \in Reqs : LoseReply(r) \/ FailScript(r)
    BY <1>1, <2>6, GiveUpStep
  <2>7. CASE \E r \in Reqs : Fallback(r)
    BY <1>1, <2>7, FallbackStep
  <2>8. CASE Elapse
    BY <2>8, ElapseStep
  <2>9. CASE UNCHANGED vars
    BY <2>9, QuietStep DEF vars, limiterVars, redisVars, requestVars
  <2>10. QED
    BY <2>1, <2>2, <2>3, <2>4, <2>5, <2>6, <2>7, <2>8, <2>9 DEF Next
<1>3. QED
  BY <1>1, <1>2 DEF RedisInv, RestInv

LEMMA RedisInvariant == Spec => []RedisInv
  BY RedisInvInit, RedisInvStep, PTL DEF Spec

-----------------------------------------------------------------------------
\* Requests, sorted set and histories keep their types; the set never holds
\* more than max(softLimit, hardLimit) members, however many scripts run, and
\* the member of a request that is sent again is still there.
THEOREM RedisTypeCorrect == Spec => []TypeOK
<1>1. RedisInv => TypeOK
  BY DEF RedisInv, LimiterInv, FreezeInv, RequestInv, SetInv, HistoryInv, TypeOK
<1>2. QED
  BY <1>1, RedisInvariant, PTL

\* Up to the delay of a script, Redis lets no more than the capacity through in
\* a window, and Redis and memFallback together no more than twice that, for
\* any number of concurrent requests, lost replies and resends.
THEOREM RedisKeepsWindowBound == Spec => []RedisWindowBound
<1>1. RedisInv => RedisWindowBound
  BY DEF RedisInv
<1>2. QED
  BY <1>1, RedisInvariant, PTL

\* memFallback inside RedisLimiter behaves as the limiter by itself does: its
\* theorems, the sliding-window promise included, hold of every behaviour.
THEOREM RedisImplementsLimiter == Spec => LimiterSpec
<1>1. Init => LimiterInit
  BY DEF Init
<1>2. QED
  BY <1>1, RedisStepIsLimiterStep, PTL DEF Spec, LimiterSpec

\* So the fallback of the Redis limiter, which several handlers reach in any
\* order while Redis comes and goes, bounds what it lets through in a window
\* and decides every request as the abstract sliding window does.
THEOREM RedisFallbackPromises == Spec => []WindowBound /\ KeepsPromise
  BY RedisImplementsLimiter, LimiterWindowBound, LimiterKeepsPromise, PTL
=============================================================================
