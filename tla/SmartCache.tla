----------------------------- MODULE SmartCache -----------------------------
(***************************************************************************)
(* The L1 fallback cache, type SmartCache of src/internal/cache/cache.go:  *)
(* the map of responses, the sweeper goroutine (cleanupLoop) and Close.    *)
(* Every access to the map is under sc.mu, so each is one action.          *)
(*                                                                         *)
(* Time.  An entry's ExpiresAt is only used through now - ExpiresAt; the   *)
(* model keeps that difference, "past" (negative while the entry is live), *)
(* up to MaxPast.  ticker.C is a channel of capacity one; the goroutine    *)
(* answers a tick at most MaxLag after it was sent.                        *)
(***************************************************************************)
EXTENDS Integers

CONSTANTS Keys,      \* cache keys (method and URI)
          Values,    \* cached responses
          TTLs,      \* values of ttl that Set is called with
          Grace,     \* 2*time.Hour in EvictExpired
          Interval,  \* cleanupInterval
          MaxLag     \* bound: the time the sweeper takes to answer a tick

ASSUME CacheAssumption ==
    /\ TTLs \subseteq Nat
    /\ Grace \in Nat
    /\ Interval \in Nat \ {0}
    /\ MaxLag \in 0..(Interval - 1)

VARIABLES entries,  \* sc.entries, a map from some of Keys
          phase,    \* time since the ticker last sent a tick
          tick,     \* ticker.C holds a tick
          stopped,  \* sc.stopCh is closed
          sweeper   \* the cleanupLoop goroutine: "running" or "none"

cacheVars == <<entries, phase, tick, stopped, sweeper>>

\* Bound: past is not counted beyond this, which a running sweeper never
\* lets it reach.
MaxPast == Grace + 2 * Interval

Entry == [value : Values, past : Int]

Cached(key) == key \in DOMAIN entries

-----------------------------------------------------------------------------
\* NewSmartCache: no sweeper is started when cleanupInterval <= 0.
CacheInit ==
    /\ entries = [k \in {} |-> 0]
    /\ phase = 0
    /\ tick = FALSE
    /\ stopped = FALSE
    /\ sweeper \in {"running", "none"}

Set(key, value, ttl) ==
    /\ entries' = [k \in DOMAIN entries \cup {key} |->
                     IF k = key THEN [value |-> value, past |-> -ttl]
                                ELSE entries[k]]
    /\ UNCHANGED <<phase, tick, stopped, sweeper>>

\* Get, used for the fallback, returns expired entries as well.
Get(key) == entries[key].value

\* GetLive, via IsExpired, does not.
Live(key) == Cached(key) /\ entries[key].past <= 0

\* Slip: evict as soon as an entry has expired.
EvictExpiredAtOnce ==
    entries' = [k \in {j \in DOMAIN entries : entries[j].past <= 0} |-> entries[k]]

\* Slip: the operands of now.Sub(v.ExpiresAt) are swapped.
EvictExpiredSwapped ==
    entries' = [k \in {j \in DOMAIN entries : -entries[j].past <= Grace} |-> entries[k]]

EvictExpired ==
    entries' = [k \in {j \in DOMAIN entries : entries[j].past <= Grace} |-> entries[k]]

\* cleanupLoop, case <-ticker.C.  When stopCh is closed too, select may still
\* choose the tick.
Sweep ==
    /\ sweeper = "running"
    /\ tick
    /\ tick' = FALSE
    /\ EvictExpired
    /\ UNCHANGED <<phase, stopped, sweeper>>

\* Slip: the loop looks at stopCh only when a tick has arrived.
SweeperStopsOnTick ==
    /\ sweeper = "running"
    /\ stopped
    /\ tick
    /\ sweeper' = "none"
    /\ tick' = FALSE
    /\ UNCHANGED <<entries, phase, stopped>>

\* cleanupLoop, case <-sc.stopCh; the deferred ticker.Stop() ends the ticks.
SweeperStops ==
    /\ sweeper = "running"
    /\ stopped
    /\ sweeper' = "none"
    /\ tick' = FALSE
    /\ UNCHANGED <<entries, phase, stopped>>

\* Close; a second call does nothing.
Close ==
    /\ stopped' = TRUE
    /\ UNCHANGED <<entries, phase, tick, sweeper>>

\* Time passes: every entry ages, and the ticker sends a tick per Interval.
CacheElapse ==
    /\ tick => phase < MaxLag
    /\ entries' = [k \in DOMAIN entries |->
                     [entries[k] EXCEPT !.past = IF @ < MaxPast THEN @ + 1 ELSE @]]
    /\ IF sweeper = "running" /\ phase + 1 = Interval
         THEN phase' = 0 /\ tick' = TRUE
         ELSE /\ phase' = (IF sweeper = "running" THEN phase + 1 ELSE phase)
              /\ tick' = tick
    /\ UNCHANGED <<stopped, sweeper>>

-----------------------------------------------------------------------------
CacheNext ==
    \/ \E key \in Keys, value \in Values, ttl \in TTLs : Set(key, value, ttl)
    \/ Sweep
    \/ SweeperStops
    \/ Close
    \/ CacheElapse

\* The sweeper's goroutine is scheduled, and select does not choose the tick
\* over the closed stopCh for ever: Go picks among ready cases at random.
CacheFairness == WF_cacheVars(SweeperStops)

CacheSpec == CacheInit /\ [][CacheNext]_cacheVars /\ CacheFairness

-----------------------------------------------------------------------------
(* Properties *)

\* The map, the ticker and the sweeper stay in their ranges.
CacheTypeOK ==
    /\ DOMAIN entries \subseteq Keys
    /\ entries \in [DOMAIN entries -> Entry]
    /\ phase \in 0..(Interval - 1)
    /\ tick \in BOOLEAN
    /\ stopped \in BOOLEAN
    /\ sweeper \in {"running", "none"}

\* While the sweeper runs no response is kept (or served as a fallback) more
\* than 2 hours + one sweep interval + the sweeper's lag after it expired.
\* Ticks are sent by the clock, answered late and restarted by nothing, so
\* this is about the ticker, EvictExpired and Set together.
StalenessBounded ==
    sweeper = "running" =>
        \A k \in DOMAIN entries : entries[k].past <= Grace + Interval + MaxLag

\* "Only remove if expired more than 2 hours ago (so stale cache remains
\* available during extended outages)": no step of anyone, Close and the
\* sweeper's exit included, takes away a response that is still within its
\* grace period.
KeptThroughGrace ==
    [][\A k \in DOMAIN entries :
          k \notin DOMAIN entries' => entries[k].past > Grace]_cacheVars

\* Close ends the sweeper, even when ticks keep arriving.
CloseEndsSweeper == stopped ~> (sweeper = "none")
=============================================================================
