---------------------------- MODULE ProxyForward ----------------------------
(***************************************************************************)
(* Steps 8 and 9 of GatewayProxy.serveInternal                             *)
(* (src/internal/proxy/proxy.go): concurrent requests that have passed     *)
(* authentication and the rate limiter ask the circuit breaker, are        *)
(* forwarded, report their result and fall back to the cache.  Composes    *)
(* CircuitBreaker and SmartCache, whose actions are the handlers' calls.   *)
(*                                                                         *)
(* A handler can be interrupted between any two of those calls; pc[r] is   *)
(* the next call of request r:                                             *)
(*   gate      AllowRequest's load of emergencyCutoff                      *)
(*   allow     AllowRequest under the lock                                 *)
(*   forward   reverseProxy.ServeHTTP                                      *)
(*   failed, slow     RecordFailure of a fast and of a slow failure        *)
(*   ok        RecordSuccess            store    smartCache.Set            *)
(*   lookup    smartCache.Get           other    rec.Flush of a 4xx        *)
(*   missed    no cached response: an error, or upstream's own 5xx or late *)
(***************************************************************************)
EXTENDS CircuitBreaker, SmartCache

CONSTANTS Reqs,      \* requests in flight at the same time
          Outcomes   \* results of a forward while upstream is not healthy

\* "failed": ProxyError, or a status >= 500; "slow": any result after
\* latencyThreshold; "ok": 2xx or 3xx; "other": 4xx or 1xx; "abort": the
\* reverse proxy panics with ErrAbortHandler while it copies the body.
ASSUME OutcomesAssumption ==
    Outcomes \subseteq {"failed", "slow", "ok", "other", "abort"}

VARIABLES pc,         \* the next call of each request
          uri,        \* cacheKey of each request
          healthy,    \* environment: upstream answers 2xx in time
          lifted,     \* history: the cutoff was off since request r arrived
          lastStored  \* history: past of the last response stored per key

requestVars == <<pc, uri, healthy, lifted, lastStored>>
vars == <<breakerVars, cacheVars, requestVars>>

Resting == {"idle", "missed"}

Forwarded(r) == pc[r] \in {"forward", "failed", "slow", "ok", "other"}

Goto(r, label) == pc' = [pc EXCEPT ![r] = label]

-----------------------------------------------------------------------------
Init ==
    /\ BreakerInit
    /\ CacheInit
    /\ pc = [r \in Reqs |-> "idle"]
    /\ uri \in [Reqs -> Keys]
    /\ healthy \in BOOLEAN
    /\ lifted = [r \in Reqs |-> FALSE]
    /\ lastStored = [k \in Keys |-> MaxPast]

\* main's server is still listening: server.Shutdown comes before Close.
Listening == ~stopped

Arrive(r) ==
    /\ Listening
    /\ pc[r] \in Resting
    /\ Goto(r, "gate")
    /\ \E k \in Keys : uri' = [uri EXCEPT ![r] = k]
    /\ lifted' = [lifted EXCEPT ![r] = ~emergencyCutoff]
    /\ UNCHANGED <<breakerVars, cacheVars, healthy, lastStored>>

\* Slip: the cutoff is left to the state machine.
GateIgnoresCutoff(r) ==
    /\ pc[r] = "gate"
    /\ Goto(r, "allow")
    /\ UNCHANGED <<breakerVars, cacheVars, uri, healthy, lifted, lastStored>>

Gate(r) ==
    /\ pc[r] = "gate"
    /\ Goto(r, IF CutoffLoad THEN "lookup" ELSE "allow")
    /\ UNCHANGED <<breakerVars, cacheVars, uri, healthy, lifted, lastStored>>

Allow(r) ==
    /\ pc[r] = "allow"
    /\ \/ AllowGranted /\ Goto(r, "forward")
       \/ AllowDenied /\ Goto(r, "lookup")
    /\ UNCHANGED <<cacheVars, uri, healthy, lifted, lastStored>>

\* reverseProxy.ServeHTTP and the branch on its result.  An abort unwinds the
\* handler, so nothing is recorded; a 4xx is flushed and recorded nowhere.
Forward(r) ==
    /\ pc[r] = "forward"
    /\ \E o \in IF healthy THEN {"ok"} ELSE Outcomes :
          Goto(r, IF o = "abort" THEN "idle" ELSE o)
    /\ UNCHANGED <<breakerVars, cacheVars, uri, healthy, lifted, lastStored>>

\* Slip: only slow results are reported to the breaker.
ReportFailureSlowOnly(r) ==
    /\ \/ pc[r] = "slow" /\ RecordFailure(TRUE)
       \/ pc[r] = "failed" /\ UNCHANGED breakerVars
    /\ Goto(r, "lookup")
    /\ UNCHANGED <<cacheVars, uri, healthy, lifted, lastStored>>

ReportFailure(r) ==
    /\ pc[r] \in {"failed", "slow"}
    /\ RecordFailure(pc[r] = "slow")
    /\ Goto(r, "lookup")
    /\ UNCHANGED <<cacheVars, uri, healthy, lifted, lastStored>>

ReportSuccess(r) ==
    /\ pc[r] = "ok"
    /\ RecordSuccess
    /\ Goto(r, "store")
    /\ UNCHANGED <<cacheVars, uri, healthy, lifted, lastStored>>

Store(r) ==
    /\ pc[r] = "store"
    /\ \E ttl \in TTLs, v \in Values :
          /\ Set(uri[r], v, ttl)
          /\ lastStored' = [lastStored EXCEPT ![uri[r]] = -ttl]
    /\ Goto(r, "idle")
    /\ UNCHANGED <<breakerVars, uri, healthy, lifted>>

FlushOther(r) ==
    /\ pc[r] = "other"
    /\ Goto(r, "idle")
    /\ UNCHANGED <<breakerVars, cacheVars, uri, healthy, lifted, lastStored>>

\* Slip: the fallback asks for live entries only.
LookupLive(r) ==
    /\ pc[r] = "lookup"
    /\ Goto(r, IF Live(uri[r]) THEN "idle" ELSE "missed")
    /\ UNCHANGED <<breakerVars, cacheVars, uri, healthy, lifted, lastStored>>

\* The fallback: a hit is served whether or not it has expired.
Lookup(r) ==
    /\ pc[r] = "lookup"
    /\ Goto(r, IF Cached(uri[r]) THEN "idle" ELSE "missed")
    /\ UNCHANGED <<breakerVars, cacheVars, uri, healthy, lifted, lastStored>>

\* handleAdminAPI, POST /panic/emergency-cutoff
Cutoff(enabled) ==
    /\ Listening
    /\ SetEmergencyCutoff(enabled)
    /\ lifted' = [r \in Reqs |-> lifted[r] \/ ~enabled]
    /\ UNCHANGED <<cacheVars, pc, uri, healthy, lastStored>>

Sweeper ==
    /\ Sweep \/ SweeperStops
    /\ UNCHANGED <<breakerVars, requestVars>>

\* main, when server.Shutdown has returned: requests that were not done in its
\* 5 seconds are still under way.
Shutdown ==
    /\ Close
    /\ UNCHANGED <<breakerVars, requestVars>>

Elapse ==
    /\ BreakerElapse
    /\ CacheElapse
    /\ lastStored' = [k \in Keys |->
                        IF lastStored[k] < MaxPast THEN lastStored[k] + 1
                                                   ELSE lastStored[k]]
    /\ UNCHANGED <<pc, uri, healthy, lifted>>

UpstreamChanges ==
    /\ healthy' = ~healthy
    /\ UNCHANGED <<breakerVars, cacheVars, pc, uri, lifted, lastStored>>

-----------------------------------------------------------------------------
Handler(r) ==
    \/ Gate(r)
    \/ Allow(r)
    \/ Forward(r)
    \/ ReportFailure(r)
    \/ ReportSuccess(r)
    \/ Store(r)
    \/ FlushOther(r)
    \/ Lookup(r)

Next ==
    \/ \E r \in Reqs : Arrive(r) \/ Handler(r)
    \/ \E enabled \in BOOLEAN : Cutoff(enabled)
    \/ Sweeper
    \/ Shutdown
    \/ Elapse
    \/ UpstreamChanges

Spec == Init /\ [][Next]_vars

\* The runtime schedules every handler goroutine and the sweeper, a forward
\* ends (upstream answers or the transport gives up), time passes and clients
\* keep sending requests.  The sweeper's select does not choose the tick over
\* the closed stopCh for ever: Go picks among ready cases at random.
Fairness ==
    /\ \A r \in Reqs : WF_vars(Handler(r)) /\ WF_vars(Arrive(r))
    /\ WF_vars(Sweeper)
    /\ WF_vars(SweeperStops /\ UNCHANGED <<breakerVars, requestVars>>)
    /\ WF_vars(Elapse)

FairSpec == Spec /\ Fairness

-----------------------------------------------------------------------------
(* Properties *)

\* Breaker, cache and requests stay in their ranges.
TypeOK ==
    /\ BreakerTypeOK
    /\ CacheTypeOK
    /\ pc \in [Reqs -> {"idle", "gate", "allow", "forward", "failed", "slow",
                        "ok", "store", "other", "lookup", "missed"}]
    /\ uri \in [Reqs -> Keys]
    /\ healthy \in BOOLEAN
    /\ lifted \in [Reqs -> BOOLEAN]
    /\ lastStored \in [Keys -> Int]

\* The emergency cutoff shields upstream: a request that arrives after it was
\* set reaches upstream only if the cutoff was lifted in the meantime, though
\* the flag is read once, outside the lock, and requests that passed the read
\* are still under way.
CutoffShields ==
    \A r \in Reqs : Forwarded(r) => lifted[r]

\* A taken probe slot belongs to a request that will give it back: otherwise
\* AllowRequest refuses every request of a HALF-OPEN breaker from then on.
ProbeSlotHasOwner ==
    halfOpenProbing =>
        \E r \in Reqs : pc[r] \in {"forward", "failed", "slow", "ok"}

\* "stale cache remains available during extended outages" (EvictExpired): a
\* request that is refused or fails gets no answer from the cache only when
\* the last response stored for its key has expired more than Grace ago (or
\* there was none), however stores, sweeps and lookups interleave.
FallbackAvailable ==
    [][\A r \in Reqs :
          (pc[r] = "lookup" /\ pc'[r] = "missed") => lastStored[uri[r]] > Grace]_vars

\* When upstream is healthy and the cutoff is off from some time on, the
\* breaker of a gateway that stays up ends up CLOSED for good, whatever state
\* (probe slot, counts, results still on their way) the outage left behind.
Recovers ==
    <>[](healthy /\ ~emergencyCutoff) /\ []Listening => <>[](state = "CLOSED")
=============================================================================
