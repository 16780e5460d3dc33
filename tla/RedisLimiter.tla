---------------------------- MODULE RedisLimiter ----------------------------
(***************************************************************************)
(* The distributed limiter, type RedisLimiter of                           *)
(* src/internal/ratelimit/limiter.go with the Lua script of lua.go, and    *)
(* its fall back to InMemoryLimiter, for the requests of one API key at    *)
(* one gateway.                                                            *)
(*                                                                         *)
(* RedisLimiter.Check is not atomic: it reads the clock and the freeze     *)
(* flag, then sends the script; Redis runs the script atomically but up to *)
(* MaxDelay later, and the reply may be lost.  The client then sends the   *)
(* script again (MaxRetries: 3 in redis.go), with the same request id, or  *)
(* gives up, and the request is decided again by the in-memory limiter.    *)
(***************************************************************************)
EXTENDS InMemoryLimiter

CONSTANTS Reqs,     \* requests in flight at the same time
          Key,      \* their API key
          Callers,  \* calls of SetGlobalBurstFreeze in progress at the same time,
                    \* by admin handlers and the embedded cockpit
          Freezes,  \* values it is called with
          MaxDelay  \* bound: time between reading the clock and the script

ASSUME RedisAssumption ==
    /\ Key \in ApiKeys
    /\ Freezes \subseteq BOOLEAN
    /\ MaxDelay \in 0..(Window - 1)
    /\ IsFiniteSet(Reqs)

VARIABLES pc,        \* idle, script, fallback: where each request is
          at,        \* nowSec of each request
          flag,      \* burstFrozenFlag of each request
          frozen,    \* r.globalBurstFreeze
          setting,   \* what each call of SetGlobalBurstFreeze has yet to store
                     \* in memFallback, or "none"
          lastSet,   \* history: the value of the call that returned last
          window,    \* the sorted set ratelimit:<key>: members <<score, n>>,
                     \* where n tells ids of the same score apart
          ttl,       \* time left until the sorted set expires
          admitted,  \* history: times of the last requests let through
          mine,      \* whether the id of request r is in the sorted set
          thawed     \* history: the freeze was off since request r began;
                     \* FALSE when it is idle

redisVars == <<window, ttl>>
requestVars == <<pc, at, flag, mine, admitted, thawed>>
freezeVars == <<frozen, setting, lastSet>>
vars == <<limiterVars, redisVars, requestVars, freezeVars>>

Goto(r, label) == pc' = [pc EXCEPT ![r] = label]

\* As much of the history as the properties look at.
Recent(h) ==
    IF Len(h) <= 2 * Capacity + 1 THEN h ELSE SubSeq(h, 2, Len(h))

\* The gateway answers request r with status s.
Answer(r, s) ==
    /\ Goto(r, "idle")
    /\ at' = [at EXCEPT ![r] = 0]
    /\ flag' = [flag EXCEPT ![r] = FALSE]
    /\ mine' = [mine EXCEPT ![r] = FALSE]
    /\ thawed' = [thawed EXCEPT ![r] = FALSE]
    /\ admitted' = IF s = "BLOCKED" THEN admitted ELSE Recent(Append(admitted, now))

-----------------------------------------------------------------------------
\* NewLimiter
Init ==
    /\ LimiterInit
    /\ pc = [r \in Reqs |-> "idle"]
    /\ at = [r \in Reqs |-> 0]
    /\ flag = [r \in Reqs |-> FALSE]
    /\ mine = [r \in Reqs |-> FALSE]
    /\ frozen = FALSE
    /\ setting = [c \in Callers |-> "none"]
    /\ lastSet = FALSE
    /\ window = {}
    /\ ttl = 0
    /\ admitted = <<>>
    /\ thawed = [r \in Reqs |-> FALSE]

\* SetGlobalBurstFreeze: one store for this limiter, then one for memFallback,
\* and no lock around the two.
FreezeStore(c, value) ==
    /\ setting[c] = "none"
    /\ frozen' = value
    /\ setting' = [setting EXCEPT ![c] = IF value THEN "on" ELSE "off"]
    /\ thawed' = [r \in Reqs |-> thawed[r] \/ (~value /\ pc[r] # "idle")]
    /\ UNCHANGED <<limiterVars, redisVars, pc, at, flag, mine, admitted,
                   lastSet>>

FreezeStoreFallback(c) ==
    /\ setting[c] # "none"
    /\ SetGlobalBurstFreeze(setting[c] = "on")
    /\ setting' = [setting EXCEPT ![c] = "none"]
    /\ lastSet' = (setting[c] = "on")
    /\ UNCHANGED <<redisVars, requestVars, frozen>>

\* The limiter reports the freeze, the call that returned last set it, and no
\* call that lifts it is under way.
FreezeSettled ==
    frozen /\ lastSet /\ \A c \in Callers : setting[c] # "off"

\* Slip: the flag is sampled once, at start-up.
BeginWithoutFlag(r) ==
    /\ pc[r] = "idle"
    /\ Goto(r, "script")
    /\ at' = [at EXCEPT ![r] = now]
    /\ flag' = [flag EXCEPT ![r] = FALSE]
    /\ thawed' = [thawed EXCEPT ![r] = ~FreezeSettled]
    /\ UNCHANGED <<limiterVars, redisVars, freezeVars, mine, admitted>>

\* Check, up to luaScript.Run
Begin(r) ==
    /\ pc[r] = "idle"
    /\ Goto(r, "script")
    /\ at' = [at EXCEPT ![r] = now]
    /\ flag' = [flag EXCEPT ![r] = frozen]
    /\ thawed' = [thawed EXCEPT ![r] = ~FreezeSettled]
    /\ UNCHANGED <<limiterVars, redisVars, freezeVars, mine, admitted>>

\* ZREMRANGEBYSCORE ratelimit_key 0 (now - window)
Pruned(t) == {m \in window : m[1] > t - Window}

\* The member of a request that is not in the set yet: ids differ, so it is
\* none of those with the same score.
NewMember(score) ==
    <<score, CHOOSE n \in 0..Cardinality(window) : <<score, n>> \notin window>>

\* ZADD and EXPIRE; an id that is in the set keeps its one place.  HINCRBY and
\* XADD are in module BurstBilling.
Add(r) ==
    /\ window' = IF mine[r] THEN Pruned(at[r])
                            ELSE Pruned(at[r]) \cup {NewMember(at[r])}
    /\ ttl' = Window

\* Slip: the requests in the window are counted one too few.
ScriptOffByOne(r, s) ==
    LET count == Cardinality(Pruned(at[r])) IN
    \/ count < SoftLimit /\ s = "NORMAL" /\ Add(r)
    \/ count >= SoftLimit /\ count <= HardLimit /\ ~flag[r] /\ s = "BURST" /\ Add(r)
    \/ /\ count >= SoftLimit /\ (count > HardLimit \/ flag[r]) /\ s = "BLOCKED"
       /\ window' = Pruned(at[r]) /\ UNCHANGED ttl

\* Slip: the sorted set is deleted, not pruned, when its oldest member expires.
ScriptClears(r, s) ==
    LET kept == IF Pruned(at[r]) = window THEN window ELSE {}
        count == Cardinality(kept)
        added == kept \cup {NewMember(at[r])} IN
    \/ count < SoftLimit /\ s = "NORMAL" /\ window' = added /\ ttl' = Window
    \/ /\ count >= SoftLimit /\ count < HardLimit /\ ~flag[r] /\ s = "BURST"
       /\ window' = added /\ ttl' = Window
    \/ /\ count >= SoftLimit /\ (count >= HardLimit \/ flag[r]) /\ s = "BLOCKED"
       /\ window' = kept /\ UNCHANGED ttl

\* SlidingWindowLuaScript, run for request r and returning status s
Script(r, s) ==
    LET count == Cardinality(Pruned(at[r])) IN
    \/ count < SoftLimit /\ s = "NORMAL" /\ Add(r)
    \/ count >= SoftLimit /\ count < HardLimit /\ ~flag[r] /\ s = "BURST" /\ Add(r)
    \/ /\ count >= SoftLimit /\ (count >= HardLimit \/ flag[r]) /\ s = "BLOCKED"
       /\ window' = Pruned(at[r]) /\ UNCHANGED ttl

\* luaScript.Run returns a result ...
RunScript(r) ==
    /\ pc[r] = "script"
    /\ \E s \in Statuses : Script(r, s) /\ Answer(r, s)
    /\ UNCHANGED <<limiterVars, freezeVars>>

\* ... or the script ran, its reply was lost and the client sends it again ...
Resend(r) ==
    /\ pc[r] = "script"
    /\ \E s \in Statuses :
          /\ Script(r, s)
          /\ mine' = [mine EXCEPT ![r] = @ \/ s # "BLOCKED"]
    /\ UNCHANGED <<limiterVars, freezeVars, pc, at, flag, admitted, thawed>>

\* ... or gives up ...
LoseReply(r) ==
    /\ pc[r] = "script"
    /\ \E s \in Statuses : Script(r, s)
    /\ Goto(r, "fallback")
    /\ mine' = [mine EXCEPT ![r] = FALSE]
    /\ UNCHANGED <<limiterVars, freezeVars, at, flag, admitted, thawed>>

\* ... or Redis could not be reached.
FailScript(r) ==
    /\ pc[r] = "script"
    /\ Goto(r, "fallback")
    /\ mine' = [mine EXCEPT ![r] = FALSE]
    /\ UNCHANGED <<limiterVars, freezeVars, redisVars, at, flag, admitted, thawed>>

\* r.memFallback.Check
Fallback(r) ==
    /\ pc[r] = "fallback"
    /\ Check(Key)
    /\ Answer(r, status')
    /\ UNCHANGED <<redisVars, freezeVars>>

\* Time passes; a request does not wait longer than MaxDelay for Redis, and
\* an expired sorted set is gone.
Elapse ==
    /\ \A r \in Reqs : pc[r] # "idle" => now - at[r] < MaxDelay
    /\ LimiterElapse
    /\ ttl' = IF ttl > 0 THEN ttl - 1 ELSE 0
    /\ window' = IF ttl <= 1 THEN {} ELSE window
    /\ UNCHANGED <<freezeVars, requestVars>>

-----------------------------------------------------------------------------
Next ==
    \/ \E c \in Callers :
         (\E value \in Freezes : FreezeStore(c, value)) \/ FreezeStoreFallback(c)
    \/ \E r \in Reqs :
         \/ Begin(r)
         \/ RunScript(r)
         \/ Resend(r)
         \/ LoseReply(r)
         \/ FailScript(r)
         \/ Fallback(r)
    \/ Elapse

Spec == Init /\ [][Next]_vars

-----------------------------------------------------------------------------
(* Properties *)

\* The requests and the Redis structures stay in their ranges; the sorted set
\* never holds more than Capacity members, and the id of a request whose script
\* ran, and which may be sent again, has neither expired nor been pruned.
TypeOK ==
    /\ LimiterTypeOK
    /\ pc \in [Reqs -> {"idle", "script", "fallback"}]
    /\ at \in [Reqs -> 0..MaxTime]
    /\ flag \in [Reqs -> BOOLEAN]
    /\ frozen \in BOOLEAN
    /\ setting \in [Callers -> {"none", "on", "off"}]
    /\ lastSet \in BOOLEAN
    /\ window \subseteq (0..MaxTime) \X Nat
    /\ IsFiniteSet(window) /\ Cardinality(window) <= Capacity
    /\ ttl \in 0..Window
    /\ admitted \in Seq(0..MaxTime)
    /\ mine \in [Reqs -> BOOLEAN]
    /\ \A r \in Reqs : mine[r] => \E m \in window : m[1] = at[r]
    /\ thawed \in [Reqs -> BOOLEAN]

Spread(n, span) ==
    \A i \in 1..(Len(admitted) - n) : admitted[i + n] >= admitted[i] + span

\* Until the first fallback the limiter keeps its promise up to the delay of
\* the script: no more than Capacity requests in any window shorter than
\* Window by MaxDelay, although scripts of several requests reach Redis in
\* another order than they read the clock.  However Redis comes and goes after
\* that, and however often a reply is lost, the two limiters together let at
\* most twice the capacity through.
RedisWindowBound ==
    /\ grants[Key] = <<>> => Spread(Capacity, Window - MaxDelay)
    /\ Spread(2 * Capacity, Window - MaxDelay)

\* Request r is answered BURST, by the script or by the fallback.
AnsweredBurst(r) ==
    /\ pc'[r] = "idle"
    /\ \/ pc[r] = "script" /\ Script(r, "BURST")
       \/ pc[r] = "fallback" /\ status' = "BURST"

\* A request that begins under a settled burst freeze gets no burst capacity
\* from Redis or from the fallback unless a call lifts the freeze meanwhile,
\* however the stores of concurrent calls interleave.  That the call which
\* returned last has set the freeze cannot be left out: a call that lifts it
\* and stores first here and last in memFallback leaves a limiter that reports
\* the freeze (IsGlobalBurstFrozen) and a fallback that grants bursts, until
\* SetGlobalBurstFreeze is called again.
FreezeHonoured == [][\A r \in Reqs : AnsweredBurst(r) => thawed[r]]_vars
=============================================================================
