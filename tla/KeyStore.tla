------------------------------ MODULE KeyStore ------------------------------
(***************************************************************************)
(* One API key and the kill switch: GetAPIKey and FreezeAPIKey of          *)
(* src/internal/storage/postgres.go, the frozen markers of redis.go, the   *)
(* authentication step of serveInternal and the handler of POST            *)
(* /panic/kill (src/internal/proxy/proxy.go), over several gateways that   *)
(* share Redis and PostgreSQL.                                             *)
(*                                                                         *)
(* What is known of the key lives in three places: memKeys of each         *)
(* gateway (filled at start-up and on the first use of a key that is not   *)
(* there), the api_keys row, and the Redis marker, which expires.  Neither *)
(* a lookup nor a kill is atomic over the three.  RateFrozen and IsActive  *)
(* always change together, so one status stands for both.                  *)
(***************************************************************************)
EXTENDS Naturals

CONSTANTS Gateways,
          Reqs,      \* requests with the key, in flight at the same time
          Kills,     \* calls of POST /panic/kill, in flight at the same time
          HasRedis,  \* redisClient.Client # nil
          HasDB,     \* r.pool # nil
          Seeded,    \* the key is one of seedDefaultKeys
          ById,      \* the operator names the key by its id
          Faults,    \* whether a call to Redis or PostgreSQL may fail
          MarkerTTL  \* lifetime of the frozen marker (24 hours)

ASSUME KeyStoreAssumption ==
    /\ {HasRedis, HasDB, Seeded, ById, Faults} \subseteq BOOLEAN
    /\ Seeded \/ HasDB
    /\ MarkerTTL \in Nat \ {0}

VARIABLES mem,     \* memKeys of each gateway: absent, active or frozen
          db,      \* the row of api_keys
          marker,  \* time left to the marker of the key, 0 if there is none
          lapsed,  \* history: a marker expired, or could not be written
          writer,  \* gateways whose r.mu is held by FreezeAPIKey
          pc,      \* where each request is
          gw,      \* the gateway that serves it
          rec,     \* dbRec of each request
          late,    \* history: it began after a kill was answered "frozen",
                   \* and Redis answered its look-up of the marker
          step,    \* where each kill is
          at,      \* the gateway that handles it
          answered \* history: a kill was answered "frozen"

storeVars == <<mem, db, marker, lapsed, writer>>
requestVars == <<pc, gw, rec, late>>
killVars == <<step, at, answered>>
vars == <<storeVars, requestVars, killVars>>

Decided == {"granted", "refused"}
Goto(r, label) == pc' = [pc EXCEPT ![r] = label]
KillGoto(k, label) == step' = [step EXCEPT ![k] = label]

\* FreezeAPIKey of kill k is under way at gateway g.
Freezing(k, g) == at[k] = g /\ step[k] \in {"mark", "mem", "db"}

-----------------------------------------------------------------------------
\* seedDefaultKeys, without syncFromDB
SeededStatus == IF Seeded THEN "active" ELSE "absent"

Init ==
    /\ mem = [g \in Gateways |-> SeededStatus]
    /\ db = IF HasDB THEN "active" ELSE "absent"
    /\ marker = 0
    /\ lapsed = FALSE
    /\ writer = {}
    /\ pc = [r \in Reqs |-> "idle"]
    /\ gw \in [Reqs -> Gateways]
    /\ rec = [r \in Reqs |-> "absent"]
    /\ late = [r \in Reqs |-> FALSE]
    /\ step = [k \in Kills |-> "none"]
    /\ at \in [Kills -> Gateways]
    /\ answered = FALSE

\* A request with the key arrives at gateway g.
Arrive(r, g) ==
    /\ pc[r] \in {"idle"} \cup Decided
    /\ Goto(r, "marker")
    /\ gw' = [gw EXCEPT ![r] = g]
    /\ late' = [late EXCEPT ![r] = answered]
    /\ UNCHANGED <<storeVars, rec, killVars>>

\* Slip: the marker is looked up only for keys that are not in memory.
CheckMarkerAbsentOnly(r) ==
    /\ pc[r] = "marker"
    /\ \/ HasRedis /\ marker > 0 /\ mem[gw[r]] = "absent" /\ Goto(r, "refused")
       \/ (marker = 0 \/ mem[gw[r]] # "absent") /\ Goto(r, "mem")
    /\ UNCHANGED <<storeVars, gw, rec, late, killVars>>

\* IsKeyFrozen, in serveInternal and again in GetAPIKey: an error of Redis
\* means "not frozen".
CheckMarker(r) ==
    /\ pc[r] = "marker"
    /\ \/ HasRedis /\ marker > 0 /\ Goto(r, "refused") /\ UNCHANGED late
       \/ (~HasRedis \/ marker = 0) /\ Goto(r, "mem") /\ UNCHANGED late
       \/ HasRedis /\ Faults /\ Goto(r, "mem") /\ late' = [late EXCEPT ![r] = FALSE]
    /\ UNCHANGED <<storeVars, gw, rec, killVars>>

\* The lookup in memKeys, under r.mu.RLock
ReadMem(r) ==
    /\ pc[r] = "mem"
    /\ gw[r] \notin writer
    /\ \/ mem[gw[r]] = "active" /\ Goto(r, "granted")
       \/ mem[gw[r]] = "frozen" /\ Goto(r, "refused")
       \/ mem[gw[r]] = "absent" /\ Goto(r, IF HasDB THEN "db" ELSE "refused")
    /\ UNCHANGED <<storeVars, gw, rec, late, killVars>>

\* SELECT ... FROM api_keys; an error reads as ErrKeyNotFound.
ReadDB(r) ==
    /\ pc[r] = "db"
    /\ \/ rec' = [rec EXCEPT ![r] = db] /\ Goto(r, "store")
       \/ Faults /\ Goto(r, "refused") /\ UNCHANGED rec
    /\ UNCHANGED <<storeVars, gw, late, killVars>>

\* memKeys[keyHash] = &dbRec, under r.mu.Lock, and the decision on dbRec
StoreMem(r) ==
    /\ pc[r] = "store"
    /\ gw[r] \notin writer
    /\ mem' = [mem EXCEPT ![gw[r]] = rec[r]]
    /\ Goto(r, IF rec[r] = "active" THEN "granted" ELSE "refused")
    /\ rec' = [rec EXCEPT ![r] = "absent"]
    /\ UNCHANGED <<db, marker, lapsed, writer, gw, late, killVars>>

-----------------------------------------------------------------------------
\* RedisClient.FreezeKey of a name that requests with the key look up; its
\* error is ignored.
FreezeKey ==
    \/ HasRedis /\ marker' = MarkerTTL /\ UNCHANGED lapsed
    \/ (~HasRedis \/ Faults) /\ lapsed' = TRUE /\ UNCHANGED marker

\* POST /panic/kill reaches gateway g and FreezeAPIKey takes r.mu.
KillBegin(k, g) ==
    /\ step[k] = "none"
    /\ g \notin writer
    /\ KillGoto(k, "mark")
    /\ at' = [at EXCEPT ![k] = g]
    /\ writer' = writer \cup {g}
    /\ UNCHANGED <<mem, db, marker, lapsed, requestVars, answered>>

\* FreezeKey of what the operator gave and of its hash
KillMark(k) ==
    /\ step[k] = "mark"
    /\ IF ById THEN UNCHANGED <<marker, lapsed>> ELSE FreezeKey
    /\ KillGoto(k, "mem")
    /\ UNCHANGED <<mem, db, writer, requestVars, at, answered>>

\* The loop over memKeys, which marks the key's own id and hash
KillMem(k) ==
    /\ step[k] = "mem"
    /\ \/ /\ mem[at[k]] # "absent"
          /\ mem' = [mem EXCEPT ![at[k]] = "frozen"]
          /\ FreezeKey
       \/ mem[at[k]] = "absent" /\ UNCHANGED <<mem, marker, lapsed>>
    /\ KillGoto(k, "db")
    /\ UNCHANGED <<db, writer, requestVars, at, answered>>

\* Slip: an error of the UPDATE returns without unlocking.
KillDBKeepsLock(k) ==
    /\ step[k] = "db"
    /\ \/ HasDB /\ db' = "frozen" /\ writer' = writer \ {at[k]}
       \/ (~HasDB \/ Faults) /\ UNCHANGED <<db, writer>>
    /\ KillGoto(k, "again")
    /\ UNCHANGED <<mem, marker, lapsed, requestVars, at, answered>>

\* UPDATE api_keys; its error is logged.  FreezeAPIKey returns and unlocks.
KillDB(k) ==
    /\ step[k] = "db"
    /\ \/ HasDB /\ db' = "frozen"
       \/ (~HasDB \/ Faults) /\ UNCHANGED db
    /\ writer' = writer \ {at[k]}
    /\ KillGoto(k, "again")
    /\ UNCHANGED <<mem, marker, lapsed, requestVars, at, answered>>

\* The handler ignores what FreezeAPIKey returned, marks what the operator
\* gave once more and answers "frozen".
KillAnswer(k) ==
    /\ step[k] = "again"
    /\ IF ById THEN UNCHANGED <<marker, lapsed>> ELSE FreezeKey
    /\ KillGoto(k, "none")
    /\ answered' = TRUE
    /\ UNCHANGED <<mem, db, writer, requestVars, at>>

-----------------------------------------------------------------------------
\* Gateway g stops at any point and starts again: NewPostgresRepo seeds the
\* default keys, then syncFromDB loads every row unless the database fails.
\* Its requests and the kills in progress there end with the process.
Restart(g) ==
    /\ \/ mem' = [mem EXCEPT ![g] = IF HasDB THEN db ELSE SeededStatus]
       \/ Faults /\ mem' = [mem EXCEPT ![g] = SeededStatus]
    /\ pc' = [r \in Reqs |-> IF gw[r] = g THEN "idle" ELSE pc[r]]
    /\ rec' = [r \in Reqs |-> IF gw[r] = g THEN "absent" ELSE rec[r]]
    /\ step' = [k \in Kills |-> IF at[k] = g THEN "none" ELSE step[k]]
    /\ writer' = writer \ {g}
    /\ UNCHANGED <<db, marker, lapsed, gw, late, at, answered>>

\* The marker's TTL runs.
MarkerElapse ==
    /\ marker > 0
    /\ marker' = marker - 1
    /\ lapsed' = (lapsed \/ marker = 1)
    /\ UNCHANGED <<mem, db, writer, requestVars, killVars>>

Lookup(r) == CheckMarker(r) \/ ReadMem(r) \/ ReadDB(r) \/ StoreMem(r)
Killing(k) == KillMark(k) \/ KillMem(k) \/ KillDB(k) \/ KillAnswer(k)

Next ==
    \/ \E r \in Reqs : (\E g \in Gateways : Arrive(r, g)) \/ Lookup(r)
    \/ \E k \in Kills : (\E g \in Gateways : KillBegin(k, g)) \/ Killing(k)
    \/ \E g \in Gateways : Restart(g)
    \/ MarkerElapse

Spec == Init /\ [][Next]_vars

\* Handlers run on; sync.RWMutex lets a waiting reader or writer in before the
\* next writer, so one that finds the lock free again and again gets it.
FairSpec ==
    /\ Spec
    /\ \A k \in Kills : WF_vars(Killing(k))
    /\ \A r \in Reqs : WF_vars(CheckMarker(r) \/ ReadDB(r)) /\ SF_vars(ReadMem(r) \/ StoreMem(r))

-----------------------------------------------------------------------------
(* Properties *)

\* The three places hold statuses, FreezeAPIKey holds the lock of its own
\* gateway exactly from its first to its last step, one call at a time, and
\* only the request between SELECT and store carries a record.
TypeOK ==
    /\ mem \in [Gateways -> {"absent", "active", "frozen"}]
    /\ db \in {"absent", "active", "frozen"}
    /\ marker \in 0..MarkerTTL
    /\ lapsed \in BOOLEAN
    /\ pc \in [Reqs -> {"idle", "marker", "mem", "db", "store"} \cup Decided]
    /\ gw \in [Reqs -> Gateways]
    /\ rec \in [Reqs -> {"absent", "active", "frozen"}]
    /\ late \in [Reqs -> BOOLEAN]
    /\ step \in [Kills -> {"none", "mark", "mem", "db", "again"}]
    /\ at \in [Kills -> Gateways]
    /\ answered \in BOOLEAN
    /\ writer = {g \in Gateways : \E k \in Kills : Freezing(k, g)}
    /\ \A g \in Gateways, k, l \in Kills : Freezing(k, g) /\ Freezing(l, g) => k = l
    /\ \A r \in Reqs : rec[r] # "absent" => pc[r] = "store"

\* Once the handler answered "frozen", no request that begins afterwards and
\* whose look-up Redis answers, at whichever gateway, is granted as long as
\* every marker was written and none has expired: neither a stale memory of
\* another gateway, nor a restart, nor an error of PostgreSQL, nor a lookup
\* that was on its way when the key was killed can bring the key back.
KillHolds ==
    \A r \in Reqs : late[r] /\ ~lapsed => pc[r] # "granted"

\* Every lookup ends, though FreezeAPIKey keeps r.mu locked over its calls to
\* Redis and PostgreSQL and kills may follow each other.
LookupsEnd ==
    \A r \in Reqs : pc[r] = "marker" ~> pc[r] \in {"idle"} \cup Decided
=============================================================================
