---------------------------- MODULE BurstBilling ----------------------------
(***************************************************************************)
(* What happens to a burst after the limiter has let it through: step 6 of *)
(* serveInternal (src/internal/proxy/proxy.go), the BURST branches of the  *)
(* script and of InMemoryLimiter and GetOverageUnits                       *)
(* (src/internal/ratelimit), RecordBillingOverage of                       *)
(* src/internal/storage/postgres.go, with concurrent bursts, the turn of   *)
(* the month between two of the handler's calls, and a gateway that dies.  *)
(*                                                                         *)
(* A burst is counted, per key and month by the script or per key by the   *)
(* in-memory limiter; then its handler reads a count, publishes the        *)
(* revenue, writes the count to the billing row of the month and, without  *)
(* Redis, announces the burst, as the script does with Redis.  The month   *)
(* is read from the clock before each of the calls that names it.          *)
(***************************************************************************)
EXTENDS Naturals, Functions

CONSTANTS Reqs,       \* requests in flight at the same time
          ApiKeys,
          LastMonth,  \* bound: months are 1..LastMonth
          MaxBursts,  \* bound: bursts per key
          MaxLost,    \* bound: replies of the script that get lost
          Faults      \* whether calls to Redis and PostgreSQL may fail

ASSUME BillingAssumption ==
    /\ LastMonth \in Nat \ {0}
    /\ MaxBursts \in Nat
    /\ MaxLost \in Nat
    /\ Faults \in BOOLEAN

Months == 1..LastMonth

VARIABLES client,    \* RedisClient.Client: "redis", or "nil" if start-up did not reach it
          month,     \* time.Now().Format("2006-01")
          begun,     \* history: bursts of each key
          lost,      \* history: replies of the script that got lost
          units,     \* billing:overage:<month>:<key>, field units
          overages,  \* m.overages of the in-memory limiter
          rows,      \* billing_overages.units by key and month
          local,     \* history: rows that hold a count of the in-memory limiter
          revenue,   \* gauge monetized_burst_revenue_dollars, in credits
          events,    \* history: BURST_OVERAGE events of each key
          pc,        \* idle, script, memory, read, publish, write, announce:
                     \* the next call of each request
          key,       \* apiKey of each request
          mon,       \* the month each request names in its next call
          got        \* overageUnits of each request

counters == <<units, overages, rows, local, revenue, events>>
vars == <<client, month, begun, lost, counters, pc, key, mon, got>>

Goto(r, label) == pc' = [pc EXCEPT ![r] = label]
ReadClock(r) == mon' = [mon EXCEPT ![r] = month]

Init ==
    /\ client \in {"redis", "nil"}
    /\ month = 1
    /\ begun = [k \in ApiKeys |-> 0]
    /\ lost = 0
    /\ units = [k \in ApiKeys |-> [m \in Months |-> 0]]
    /\ overages = [k \in ApiKeys |-> 0]
    /\ rows = [k \in ApiKeys |-> [m \in Months |-> 0]]
    /\ local = {}
    /\ revenue = 0
    /\ events = [k \in ApiKeys |-> 0]
    /\ pc = [r \in Reqs |-> "idle"]
    /\ key \in [Reqs -> ApiKeys]
    /\ mon = [r \in Reqs |-> 1]
    /\ got = [r \in Reqs |-> 0]

-----------------------------------------------------------------------------
\* RedisLimiter.Check for a request that will be a burst: billingKey is built
\* for the script, or the in-memory limiter is asked.
Burst(r, k) ==
    /\ pc[r] = "idle"
    /\ begun[k] < MaxBursts
    /\ begun' = [begun EXCEPT ![k] = @ + 1]
    /\ key' = [key EXCEPT ![r] = k]
    /\ ReadClock(r)
    /\ Goto(r, IF client # "nil" THEN "script" ELSE "memory")
    /\ UNCHANGED <<client, month, lost, counters, got>>

\* HINCRBY and XADD of the script's BURST branch
Count(r) ==
    /\ pc[r] = "script"
    /\ units' = [units EXCEPT ![key[r]][mon[r]] = @ + 1]
    /\ events' = [events EXCEPT ![key[r]] = @ + 1]
    /\ UNCHANGED <<client, month, begun, overages, rows, local, revenue, key, got>>

\* The reply arrives and GetOverageUnits reads the clock ...
RunScript(r) ==
    /\ Count(r)
    /\ ReadClock(r)
    /\ Goto(r, "read")
    /\ UNCHANGED lost

\* ... or it is lost, and the client sends the script again or gives up ...
LoseReply(r) ==
    /\ Faults /\ lost < MaxLost
    /\ Count(r)
    /\ lost' = lost + 1
    /\ Goto(r, "script") \/ Goto(r, "memory")
    /\ UNCHANGED mon

\* ... or the script did not run.
FailScript(r) ==
    /\ Faults
    /\ pc[r] = "script"
    /\ Goto(r, "memory")
    /\ UNCHANGED <<client, month, begun, lost, counters, key, mon, got>>

\* m.overages[apiKey]++ of InMemoryLimiter.Check, which after a failure of the
\* script may also find the request normal or block it
MemoryCheck(r) ==
    /\ pc[r] = "memory"
    /\ \/ /\ overages' = [overages EXCEPT ![key[r]] = @ + 1]
          /\ ReadClock(r)
          /\ Goto(r, "read")
       \/ /\ client # "nil"
          /\ Goto(r, "idle")
          /\ UNCHANGED <<overages, mon>>
    /\ UNCHANGED <<client, month, begun, lost, units, rows, local, revenue, events, key, got>>

\* GetOverageUnits: HGET, of which the handler ignores the error, which comes
\* with the count 0; or the count of the in-memory limiter, which knows no
\* months.  Then serveInternal computes nowMonth.
ReadUnits(r) ==
    /\ pc[r] = "read"
    /\ \/ client # "nil" /\ got' = [got EXCEPT ![r] = units[key[r]][mon[r]]]
       \/ client # "nil" /\ Faults /\ got' = [got EXCEPT ![r] = 0]
       \/ client = "nil" /\ got' = [got EXCEPT ![r] = overages[key[r]]]
    /\ ReadClock(r)
    /\ Goto(r, "publish")
    /\ UNCHANGED <<client, month, begun, lost, counters, key>>

\* metrics.SetRevenue
Publish(r) ==
    /\ pc[r] = "publish"
    /\ revenue' = got[r]
    /\ Goto(r, "write")
    /\ UNCHANGED <<client, month, begun, lost, units, overages, rows, local, events, key, mon, got>>

\* ON CONFLICT DO UPDATE SET units = EXCLUDED.units
Write(r, n) ==
    /\ rows' = [rows EXCEPT ![key[r]][mon[r]] = n]
    /\ local' = IF client # "nil" THEN local \ {<<key[r], mon[r]>>} ELSE local \cup {<<key[r], mon[r]>>}

\* Slip: the row gets the units of the key's bursts in all months.
RecordBillingOverageTotal(r) ==
    /\ pc[r] = "write"
    /\ Write(r, SumFunction(units[key[r]]))
    /\ got' = [got EXCEPT ![r] = 0]
    /\ Goto(r, IF client # "nil" THEN "idle" ELSE "announce")
    /\ UNCHANGED <<client, month, begun, lost, units, overages, revenue, events, key, mon>>

\* Slip: the handler announces the burst with Redis, too.
RecordBillingOverageThenAnnounce(r) ==
    /\ pc[r] = "write"
    /\ Write(r, got[r])
    /\ got' = [got EXCEPT ![r] = 0]
    /\ Goto(r, "announce")
    /\ UNCHANGED <<client, month, begun, lost, units, overages, revenue, events, key, mon>>

\* RecordBillingOverage; the handler ignores its error.
RecordBillingOverage(r) ==
    /\ pc[r] = "write"
    /\ Write(r, got[r]) \/ (Faults /\ UNCHANGED <<rows, local>>)
    /\ got' = [got EXCEPT ![r] = 0]
    /\ Goto(r, IF client # "nil" THEN "idle" ELSE "announce")
    /\ UNCHANGED <<client, month, begun, lost, units, overages, revenue, events, key, mon>>

\* webhookEngine.Publish of the handler, without Redis
Announce(r) ==
    /\ pc[r] = "announce"
    /\ events' = [events EXCEPT ![key[r]] = @ + 1]
    /\ Goto(r, "idle")
    /\ UNCHANGED <<client, month, begun, lost, units, overages, rows, local, revenue, key, mon, got>>

\* A request answered NORMAL or BLOCKED skips step 6.
NotBurst(r) == pc[r] = "idle" /\ UNCHANGED vars

-----------------------------------------------------------------------------
MonthTurns ==
    /\ month < LastMonth
    /\ month' = month + 1
    /\ UNCHANGED <<client, begun, lost, counters, pc, key, mon, got>>

\* The gateway dies and starts again, and may find Redis now or miss it;
\* units and rows are elsewhere.
Restart ==
    /\ client' \in IF Faults THEN {"redis", "nil"} ELSE {client}
    /\ overages' = [k \in ApiKeys |-> 0]
    /\ revenue' = 0
    /\ pc' = [r \in Reqs |-> "idle"]
    /\ got' = [r \in Reqs |-> 0]
    /\ UNCHANGED <<month, begun, lost, units, rows, local, events, key, mon>>

Next ==
    \/ \E r \in Reqs :
         \/ \E k \in ApiKeys : Burst(r, k)
         \/ NotBurst(r)
         \/ RunScript(r)
         \/ LoseReply(r)
         \/ FailScript(r)
         \/ MemoryCheck(r)
         \/ ReadUnits(r)
         \/ Publish(r)
         \/ RecordBillingOverage(r)
         \/ Announce(r)
    \/ MonthTurns
    \/ Restart

Spec == Init /\ [][Next]_vars

-----------------------------------------------------------------------------
(* Properties *)

\* A customer is never billed in one month more units than Redis counted for
\* the key in that month or an earlier one, however late an older count
\* reaches the row (RecordBillingOverage overwrites without a version) and
\* even when the month turns inside the handler, in which case the first row
\* of the new month may carry the count of the old one.  A row from the
\* in-memory limiter, which counts across months, is bounded by the bursts.
NeverOverbilled ==
    \A k \in ApiKeys, m \in Months :
        IF <<k, m>> \in local
        THEN rows[k][m] <= begun[k]
        ELSE \E n \in 1..m : rows[k][m] <= units[k][n]

\* The handler and the script never both announce a burst: a customer is told
\* of no more bursts than there were, but for the runs of the script whose
\* reply was lost.
AnnouncedOnce == \A k \in ApiKeys : events[k] <= begun[k] + lost
=============================================================================
