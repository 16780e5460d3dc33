--------------------------- MODULE KeyStoreProofs ---------------------------
(***************************************************************************)
(* The three places that know a key stay consistent with the steps of the  *)
(* lookups and of the kill, for any gateways, requests and stores; the     *)
(* kill switch holds, with or without PostgreSQL and whatever calls fail,  *)
(* when there is a Redis and the kill marks a name that requests look up;  *)
(* and what a kill leaves behind without Redis.                            *)
(* KillHolds is not inductive: a step that grants a request looks at the   *)
(* gateway's memory, not at the marker.  What carries the proof is that an *)
(* answered kill leaves a live marker behind until one lapses, and that a  *)
(* late request never gets past the marker.                                *)
(***************************************************************************)
EXTENDS KeyStore, TLAPS

Statuses == {"absent", "active", "frozen"}
Places == {"idle", "marker", "mem", "db", "store", "granted", "refused"}

-----------------------------------------------------------------------------
(* Types, with the lock and the records in flight: TypeOK is inductive.    *)

StoreShape ==
    /\ mem \in [Gateways -> Statuses]
    /\ db \in Statuses
    /\ marker \in 0..MarkerTTL
    /\ lapsed \in BOOLEAN

RequestShape ==
    /\ pc \in [Reqs -> Places]
    /\ gw \in [Reqs -> Gateways]
    /\ rec \in [Reqs -> Statuses]
    /\ late \in [Reqs -> BOOLEAN]
    /\ \A r \in Reqs : rec[r] # "absent" => pc[r] = "store"

KillShape ==
    /\ step \in [Kills -> {"none", "mark", "mem", "db", "again"}]
    /\ at \in [Kills -> Gateways]
    /\ answered \in BOOLEAN

\* r.mu of a gateway is held by the one FreezeAPIKey that runs there.
LockHeld ==
    /\ writer = {g \in Gateways : \E k \in Kills : Freezing(k, g)}
    /\ \A g \in Gateways, k, l \in Kills : Freezing(k, g) /\ Freezing(l, g) => k = l

LEMMA TypeParts == TypeOK <=> StoreShape /\ RequestShape /\ KillShape /\ LockHeld
BY DEF TypeOK, StoreShape, RequestShape, KillShape, LockHeld, Statuses, Places, Decided

LEMMA TypeInitially == Init => TypeOK
<1> SUFFICES ASSUME Init PROVE StoreShape /\ RequestShape /\ KillShape /\ LockHeld
  BY TypeParts
<1>1. mem \in [Gateways -> Statuses] /\ db \in Statuses /\ marker \in 0..MarkerTTL
  BY KeyStoreAssumption DEF Init, SeededStatus, Statuses
<1>2. lapsed \in BOOLEAN /\ late \in [Reqs -> BOOLEAN]
  BY Zenon DEF Init
<1>3. pc \in [Reqs -> Places] /\ gw \in [Reqs -> Gateways] /\ rec \in [Reqs -> Statuses]
      /\ \A r \in Reqs : rec[r] = "absent"
  BY DEF Init, Places, Statuses
<1>4. step \in [Kills -> {"none", "mark", "mem", "db", "again"}]
      /\ at \in [Kills -> Gateways] /\ \A k \in Kills : step[k] = "none"
  BY DEF Init
<1>5. answered \in BOOLEAN
  BY Zenon DEF Init
<1>6. LockHeld
  BY <1>4 DEF Init, LockHeld, Freezing
<1> QED
  BY <1>1, <1>2, <1>3, <1>4, <1>5, <1>6 DEF StoreShape, RequestShape, KillShape

\* FreezeKey of redis.go, whether it succeeds or fails
LEMMA FreezeKeyType ==
    ASSUME StoreShape, FreezeKey \/ UNCHANGED <<marker, lapsed>>
    PROVE  marker' \in 0..MarkerTTL /\ lapsed' \in BOOLEAN
<1>1. marker' \in 0..MarkerTTL
  BY KeyStoreAssumption DEF StoreShape, FreezeKey
<1>2. lapsed' \in BOOLEAN
  BY DEF StoreShape, FreezeKey
<1> QED
  BY <1>1, <1>2

LEMMA TypeStepwise ==
    ASSUME TypeOK, [Next]_vars
    PROVE  TypeOK'
<1>0. StoreShape /\ RequestShape /\ KillShape /\ LockHeld
  BY TypeParts
<1> SUFFICES StoreShape' /\ RequestShape' /\ KillShape' /\ LockHeld'
  BY DEF TypeOK, StoreShape, RequestShape, KillShape, LockHeld, Statuses, Places, Decided
<1>1. ASSUME NEW r \in Reqs, NEW g \in Gateways, Arrive(r, g)
      PROVE  StoreShape' /\ RequestShape' /\ KillShape' /\ LockHeld'
  <2>1. StoreShape' /\ KillShape' /\ LockHeld'
    BY <1>0, <1>1 DEF Arrive, storeVars, killVars, StoreShape, KillShape, LockHeld, Freezing
  <2>2. pc' \in [Reqs -> Places] /\ gw' \in [Reqs -> Gateways] /\ rec' = rec
        /\ \A q \in Reqs : rec[q] # "absent" => pc'[q] = "store"
    BY <1>0, <1>1 DEF Arrive, Goto, RequestShape, Places, Decided
  <2>3. late' \in [Reqs -> BOOLEAN]
    BY <1>0, <1>1 DEF Arrive, RequestShape, KillShape
  <2> QED
    BY <1>0, <2>1, <2>2, <2>3 DEF RequestShape
<1>2. ASSUME NEW r \in Reqs, CheckMarker(r)
      PROVE  StoreShape' /\ RequestShape' /\ KillShape' /\ LockHeld'
  <2>1. StoreShape' /\ KillShape' /\ LockHeld'
    BY <1>0, <1>2 DEF CheckMarker, storeVars, killVars, StoreShape, KillShape, LockHeld, Freezing
  <2>2. pc' \in [Reqs -> Places] /\ UNCHANGED <<gw, rec>>
        /\ \A q \in Reqs : rec[q] # "absent" => pc'[q] = "store"
    BY <1>0, <1>2 DEF CheckMarker, Goto, RequestShape, Places
  <2>3. late' \in [Reqs -> BOOLEAN]
    <3>1. late' = late \/ late' = [late EXCEPT ![r] = FALSE]
      BY <1>2 DEF CheckMarker
    <3> QED
      BY <1>0, <3>1, Zenon DEF RequestShape
  <2> QED
    BY <1>0, <2>1, <2>2, <2>3 DEF RequestShape
<1>3. ASSUME NEW r \in Reqs, ReadMem(r)
      PROVE  StoreShape' /\ RequestShape' /\ KillShape' /\ LockHeld'
  <2>1. StoreShape' /\ KillShape' /\ LockHeld'
    BY <1>0, <1>3 DEF ReadMem, storeVars, killVars, StoreShape, KillShape, LockHeld, Freezing
  <2>2. RequestShape'
    BY <1>0, <1>3 DEF ReadMem, Goto, RequestShape, Places
  <2> QED
    BY <2>1, <2>2
<1>4. ASSUME NEW r \in Reqs, ReadDB(r)
      PROVE  StoreShape' /\ RequestShape' /\ KillShape' /\ LockHeld'
  <2>1. StoreShape' /\ KillShape' /\ LockHeld'
    BY <1>0, <1>4 DEF ReadDB, storeVars, killVars, StoreShape, KillShape, LockHeld, Freezing
  <2>2. RequestShape'
    BY <1>0, <1>4 DEF ReadDB, Goto, RequestShape, StoreShape, Places
  <2> QED
    BY <2>1, <2>2
<1>5. ASSUME NEW r \in Reqs, StoreMem(r)
      PROVE  StoreShape' /\ RequestShape' /\ KillShape' /\ LockHeld'
  <2>1. KillShape' /\ LockHeld'
    BY <1>0, <1>5 DEF StoreMem, killVars, KillShape, LockHeld, Freezing
  <2>2. RequestShape'
    BY <1>0, <1>5 DEF StoreMem, Goto, RequestShape, Places, Statuses
  <2>3. StoreShape'
    BY <1>0, <1>5 DEF StoreMem, StoreShape, RequestShape
  <2> QED
    BY <2>1, <2>2, <2>3
<1>6. ASSUME NEW k \in Kills, NEW g \in Gateways, KillBegin(k, g)
      PROVE  StoreShape' /\ RequestShape' /\ KillShape' /\ LockHeld'
  <2>1. StoreShape' /\ RequestShape'
    BY <1>0, <1>6 DEF KillBegin, requestVars, StoreShape, RequestShape
  <2>2. KillShape'
    BY <1>0, <1>6 DEF KillBegin, KillGoto, KillShape
  <2>3. /\ \A h \in Gateways : Freezing(k, h)' <=> h = g
        /\ \A l \in Kills, h \in Gateways : l # k => (Freezing(l, h)' <=> Freezing(l, h))
        /\ \A h \in Gateways : ~Freezing(k, h)
    BY <1>0, <1>6 DEF KillBegin, KillGoto, KillShape, Freezing
  <2>4. LockHeld'
    BY <1>0, <1>6, <2>3 DEF KillBegin, LockHeld
  <2> QED
    BY <2>1, <2>2, <2>4
<1>7. ASSUME NEW g \in Gateways, Restart(g)
      PROVE  StoreShape' /\ RequestShape' /\ KillShape' /\ LockHeld'
  <2>1. StoreShape'
    BY <1>0, <1>7 DEF Restart, StoreShape, SeededStatus, Statuses
  <2>2. RequestShape'
    BY <1>0, <1>7 DEF Restart, RequestShape, Places, Statuses
  <2>3. KillShape'
    BY <1>0, <1>7 DEF Restart, KillShape
  <2>4. \A l \in Kills, h \in Gateways : Freezing(l, h)' <=> h # g /\ Freezing(l, h)
    BY <1>0, <1>7 DEF Restart, KillShape, Freezing
  <2>5. LockHeld'
    BY <1>0, <1>7, <2>4 DEF Restart, LockHeld
  <2> QED
    BY <2>1, <2>2, <2>3, <2>5
<1>8. ASSUME NEW k \in Kills, Killing(k)
      PROVE  StoreShape' /\ RequestShape' /\ KillShape' /\ LockHeld'
  <2>1. RequestShape'
    BY <1>0, <1>8 DEF Killing, KillMark, KillMem, KillDB, KillAnswer, requestVars, RequestShape
  <2>2. FreezeKey \/ UNCHANGED <<marker, lapsed>>
    BY <1>8 DEF Killing, KillMark, KillMem, KillDB, KillAnswer
  <2>3. mem' \in [Gateways -> Statuses] /\ db' \in Statuses
    BY <1>0, <1>8 DEF Killing, KillMark, KillMem, KillDB, KillAnswer, StoreShape, KillShape, Statuses
  <2>4. StoreShape'
    BY <1>0, <2>2, <2>3, FreezeKeyType DEF StoreShape
  <2>5. step' \in [Kills -> {"none", "mark", "mem", "db", "again"}] /\ at' = at
        /\ \A l \in Kills : l # k => step'[l] = step[l]
    BY <1>0, <1>8 DEF Killing, KillMark, KillMem, KillDB, KillAnswer, KillGoto, KillShape
  <2>6. answered' \in BOOLEAN
    <3>1. answered' = answered \/ answered' = TRUE
      BY <1>8 DEF Killing, KillMark, KillMem, KillDB, KillAnswer
    <3> QED
      BY <1>0, <3>1, Zenon DEF KillShape
  <2>7. LockHeld'
    <3>1. CASE KillMark(k) \/ KillMem(k) \/ KillAnswer(k)
      <4>1. writer' = writer /\ \A l \in Kills, h \in Gateways : Freezing(l, h)' <=> Freezing(l, h)
        BY <1>0, <2>5, <3>1 DEF KillMark, KillMem, KillAnswer, KillGoto, KillShape, Freezing
      <4> QED
        BY <1>0, <4>1 DEF LockHeld
    <3>2. CASE KillDB(k)
      <4>1. /\ writer' = writer \ {at[k]} /\ at[k] \in Gateways /\ Freezing(k, at[k])
            /\ \A h \in Gateways : ~Freezing(k, h)' /\ (Freezing(k, h) => h = at[k])
            /\ \A l \in Kills, h \in Gateways : l # k => (Freezing(l, h)' <=> Freezing(l, h))
        BY <1>0, <2>5, <3>2 DEF KillDB, KillGoto, KillShape, Freezing
      <4> QED
        BY <1>0, <4>1 DEF LockHeld
    <3> QED
      BY <1>8, <3>1, <3>2 DEF Killing
  <2> QED
    BY <1>0, <2>1, <2>4, <2>5, <2>6, <2>7 DEF KillShape
<1>9. CASE MarkerElapse
  <2>1. marker' \in 0..MarkerTTL
    BY <1>0, <1>9, KeyStoreAssumption DEF MarkerElapse, StoreShape
  <2>2. lapsed' \in BOOLEAN
    BY <1>9, Zenon DEF MarkerElapse
  <2> QED
    BY <1>0, <1>9, <2>1, <2>2
       DEF MarkerElapse, requestVars, killVars, StoreShape, RequestShape, KillShape,
           LockHeld, Freezing
<1>10. CASE UNCHANGED vars
  BY <1>0, <1>10 DEF vars, storeVars, requestVars, killVars, StoreShape, RequestShape,
                      KillShape, LockHeld, Freezing
<1> QED
  BY <1>1, <1>2, <1>3, <1>4, <1>5, <1>6, <1>7, <1>8, <1>9, <1>10 DEF Next, Lookup

\* Key store (GetAPIKey, FreezeAPIKey, POST /panic/kill): a gateway's write
\* lock is held exactly while its own FreezeAPIKey is under way, whatever
\* fails or restarts, and only a lookup between its SELECT and its store
\* carries a record.
THEOREM KeyTypeCorrect == Spec => []TypeOK
<1>1. Init => TypeOK
  BY TypeInitially
<1>2. TypeOK /\ [Next]_vars => TypeOK'
  BY TypeStepwise
<1> QED
  BY <1>1, <1>2, PTL DEF Spec

-----------------------------------------------------------------------------
(* A key of seedDefaultKeys is known from the start.                       *)

\* Every gateway has a seeded key in memory, whatever fails or restarts, so no
\* lookup of it gets as far as PostgreSQL.
KnownInv ==
    /\ HasDB => db # "absent"
    /\ \A g \in Gateways : mem[g] # "absent"
    /\ \A r \in Reqs : pc[r] \notin {"db", "store"}

LEMMA KnownInitially ==
    ASSUME Seeded, Init
    PROVE  KnownInv
  BY DEF Init, SeededStatus, KnownInv

LEMMA KnownStepwise ==
    ASSUME Seeded, TypeOK, KnownInv, [Next]_vars
    PROVE  KnownInv'
<1> USE DEF KnownInv
<1>0. StoreShape /\ RequestShape /\ KillShape
  BY TypeParts
<1>1. ASSUME NEW r \in Reqs, NEW g \in Gateways, Arrive(r, g)
      PROVE  KnownInv'
  BY <1>0, <1>1 DEF Arrive, Goto, storeVars, RequestShape
<1>2. ASSUME NEW r \in Reqs, CheckMarker(r)
      PROVE  KnownInv'
  BY <1>0, <1>2 DEF CheckMarker, Goto, storeVars, RequestShape
<1>3. ASSUME NEW r \in Reqs, ReadMem(r)
      PROVE  KnownInv'
  BY <1>0, <1>3 DEF ReadMem, Goto, storeVars, RequestShape
<1>4. ASSUME NEW r \in Reqs, ReadDB(r) \/ StoreMem(r)
      PROVE  FALSE
  BY <1>4 DEF ReadDB, StoreMem
<1>5. ASSUME NEW k \in Kills, NEW g \in Gateways, KillBegin(k, g)
      PROVE  KnownInv'
  BY <1>5 DEF KillBegin, requestVars
<1>6. ASSUME NEW g \in Gateways, Restart(g)
      PROVE  KnownInv'
  <2>1. \A h \in Gateways : mem'[h] # "absent"
    BY <1>0, <1>6 DEF Restart, StoreShape, SeededStatus
  <2> QED
    BY <1>0, <1>6, <2>1 DEF Restart, RequestShape
<1>7. ASSUME NEW k \in Kills, Killing(k)
      PROVE  KnownInv'
  <2>1. pc' = pc
    BY <1>7 DEF Killing, KillMark, KillMem, KillDB, KillAnswer, requestVars
  <2>2. db' = db \/ db' = "frozen"
    BY <1>7 DEF Killing, KillMark, KillMem, KillDB, KillAnswer
  <2>3. mem' = mem \/ mem' = [mem EXCEPT ![at[k]] = "frozen"]
    BY <1>7 DEF Killing, KillMark, KillMem, KillDB, KillAnswer
  <2> QED
    BY <1>0, <2>1, <2>2, <2>3 DEF StoreShape
<1>8. CASE MarkerElapse \/ UNCHANGED vars
  BY <1>8 DEF MarkerElapse, vars, storeVars, requestVars
<1> QED
  BY <1>1, <1>2, <1>3, <1>4, <1>5, <1>6, <1>7, <1>8 DEF Next, Lookup

-----------------------------------------------------------------------------
(* The kill switch                                                         *)

\* An answered kill left a live marker behind, and so did, if the operator
\* gave the id, a kill that has been through memKeys.
MarkerAlive ==
    /\ answered /\ ~lapsed => marker > 0
    /\ \A k \in Kills :
          ById /\ step[k] \in {"db", "again"} /\ ~lapsed => marker > 0

\* A late request stops at the marker.
Stopped(r) == late[r] /\ ~lapsed => answered /\ pc[r] \in {"idle", "marker", "refused"}

KillInv ==
    /\ TypeOK
    /\ Seeded => KnownInv
    /\ MarkerAlive
    /\ \A r \in Reqs : Stopped(r)

LEMMA KillInitially == Init => KillInv
<1> SUFFICES ASSUME Init PROVE KillInv
  OBVIOUS
<1>1. TypeOK
  BY TypeInitially
<1>2. Seeded => KnownInv
  BY KnownInitially
<1>3. ~answered /\ \A k \in Kills : step[k] = "none"
  BY Zenon DEF Init
<1>4. \A r \in Reqs : ~late[r]
  BY Zenon DEF Init
<1> QED
  BY <1>1, <1>2, <1>3, <1>4 DEF KillInv, MarkerAlive, Stopped

\* What the steps of a kill may do to the marker.
KillMarks ==
    /\ UNCHANGED <<pc, late>>
    /\ \/ marker' = MarkerTTL /\ lapsed' = lapsed
       \/ marker' = marker /\ lapsed' = lapsed
       \/ marker' = marker /\ lapsed' = TRUE

\* Every step of a gateway that works with Redis keeps the marker of an
\* answered kill alive and late requests away, if the kill marks a name that
\* requests look up: the key itself, or the hash that memKeys has of it.
LEMMA KillStepwise ==
    ASSUME HasRedis, ~ById \/ Seeded, KillInv, [Next]_vars
    PROVE  KillInv'
<1> USE KeyStoreAssumption DEF MarkerAlive, Stopped
<1>0. /\ MarkerAlive /\ \A r \in Reqs : Stopped(r)
      /\ marker \in 0..MarkerTTL /\ lapsed \in BOOLEAN
      /\ pc \in [Reqs -> Places] /\ late \in [Reqs -> BOOLEAN]
      /\ step \in [Kills -> {"none", "mark", "mem", "db", "again"}]
      /\ at \in [Kills -> Gateways] /\ answered \in BOOLEAN
  BY TypeParts DEF KillInv, StoreShape, RequestShape, KillShape
<1>a. TypeOK' /\ (Seeded => KnownInv')
  BY TypeStepwise, KnownStepwise DEF KillInv
<1> DEFINE Goal == MarkerAlive' /\ \A r \in Reqs : Stopped(r)'
<1> SUFFICES Goal
  BY <1>a DEF KillInv
<1>1. ASSUME NEW r \in Reqs, NEW g \in Gateways, Arrive(r, g)
      PROVE  Goal
  BY <1>0, <1>1 DEF Arrive, Goto, Decided, storeVars, killVars, Places
<1>2. ASSUME NEW r \in Reqs, CheckMarker(r)
      PROVE  Goal
  <2>1. CASE pc' = [pc EXCEPT ![r] = "refused"] /\ UNCHANGED late
    BY <1>0, <1>2, <2>1 DEF CheckMarker, storeVars, killVars
  <2>2. CASE marker = 0 /\ pc' = [pc EXCEPT ![r] = "mem"] /\ UNCHANGED late
    BY <1>0, <1>2, <2>2 DEF CheckMarker, storeVars, killVars
  <2>3. CASE pc' = [pc EXCEPT ![r] = "mem"] /\ late' = [late EXCEPT ![r] = FALSE]
    <3>1. late' \in [Reqs -> BOOLEAN] /\ ~late'[r]
      BY <1>0, <2>3, Zenon
    <3>2. \A q \in Reqs : q # r => late'[q] = late[q]
      BY <1>0, <2>3
    <3> QED
      BY <1>0, <1>2, <2>3, <3>1, <3>2 DEF CheckMarker, storeVars, killVars
  <2> QED
    BY <1>2, <2>1, <2>2, <2>3 DEF CheckMarker, Goto
<1>3. ASSUME NEW r \in Reqs, ReadMem(r)
      PROVE  Goal
  BY <1>0, <1>3 DEF ReadMem, Goto, storeVars, killVars, Places
<1>4. ASSUME NEW r \in Reqs, ReadDB(r)
      PROVE  Goal
  BY <1>0, <1>4 DEF ReadDB, Goto, storeVars, killVars, Places
<1>5. ASSUME NEW r \in Reqs, StoreMem(r)
      PROVE  Goal
  BY <1>0, <1>5 DEF StoreMem, Goto, killVars, Places
<1>6. ASSUME NEW k \in Kills, NEW g \in Gateways, KillBegin(k, g)
      PROVE  Goal
  BY <1>0, <1>6 DEF KillBegin, KillGoto, requestVars
<1>7. ASSUME NEW g \in Gateways, Restart(g)
      PROVE  Goal
  BY <1>0, <1>7 DEF Restart, Places
<1>8. ASSUME NEW k \in Kills, NEW label \in {"none", "mem", "db", "again"},
             KillMarks, KillGoto(k, label), answered' = answered,
             (ById /\ label = "db") => marker' = MarkerTTL \/ lapsed',
             label = "again" => step[k] = "db"
      PROVE  Goal
  <2>0. \A l \in Kills : step'[l] = IF l = k THEN label ELSE step[l]
    BY <1>0, <1>8 DEF KillGoto
  <2>1. CASE marker' = MarkerTTL /\ lapsed' = lapsed
    BY <1>0, <1>8, <2>0, <2>1 DEF KillMarks
  <2>2. CASE marker' = marker /\ lapsed' = lapsed
    BY <1>0, <1>8, <2>0, <2>2 DEF KillMarks
  <2>3. CASE marker' = marker /\ lapsed' = TRUE
    <3>1. lapsed'
      BY <2>3, Zenon
    <3> QED
      BY <1>0, <1>8, <2>0, <3>1 DEF KillMarks
  <2> QED
    BY <1>8, <2>1, <2>2, <2>3 DEF KillMarks
<1>9. ASSUME NEW k \in Kills, KillMark(k)
      PROVE  Goal
  <2>1. KillMarks /\ KillGoto(k, "mem") /\ answered' = answered
    BY <1>9 DEF KillMark, FreezeKey, requestVars, KillMarks
  <2> QED
    BY <1>8, <2>1
<1>10. ASSUME NEW k \in Kills, KillMem(k)
      PROVE  Goal
  <2>1. KillMarks /\ KillGoto(k, "db") /\ answered' = answered
    BY <1>10 DEF KillMem, FreezeKey, requestVars, KillMarks
  <2>2. ById => marker' = MarkerTTL \/ lapsed'
    <3>1. ASSUME ById PROVE FreezeKey
      <4>1. mem[at[k]] # "absent"
        BY <1>0, <3>1 DEF KillInv, KnownInv
      <4> QED
        BY <1>10, <4>1 DEF KillMem
    <3>2. FreezeKey => marker' = MarkerTTL \/ lapsed'
      BY Zenon DEF FreezeKey
    <3> QED
      BY <3>1, <3>2
  <2> QED
    BY <1>8, <2>1, <2>2
<1>11. ASSUME NEW k \in Kills, KillDB(k)
      PROVE  Goal
  <2>1. KillMarks /\ KillGoto(k, "again") /\ answered' = answered /\ step[k] = "db"
    BY <1>11 DEF KillDB, requestVars, KillMarks
  <2> QED
    BY <1>8, <2>1
<1>12. ASSUME NEW k \in Kills, KillAnswer(k)
      PROVE  Goal
  <2>1. /\ answered' /\ step'[k] = "none"
        /\ \A l \in Kills : l # k => step'[l] = step[l]
    BY <1>0, <1>12 DEF KillAnswer, KillGoto
  <2>2. UNCHANGED <<pc, late>>
    BY <1>12 DEF KillAnswer, requestVars
  <2>3. CASE marker' = MarkerTTL /\ lapsed' = lapsed
    BY <1>0, <2>1, <2>2, <2>3
  <2>4. CASE marker' = marker /\ lapsed' = TRUE
    <3>1. lapsed'
      BY <2>4, Zenon
    <3> QED
      BY <1>0, <2>1, <2>2, <3>1
  <2>5. CASE ById /\ UNCHANGED <<marker, lapsed>>
    BY <1>0, <1>12, <2>1, <2>2, <2>5 DEF KillAnswer
  <2> QED
    BY <1>12, <2>3, <2>4, <2>5 DEF KillAnswer, FreezeKey
<1>13. CASE MarkerElapse
  BY <1>0, <1>13 DEF MarkerElapse, requestVars, killVars
<1>14. CASE UNCHANGED vars
  BY <1>0, <1>14 DEF vars, storeVars, requestVars, killVars
<1> QED
  BY <1>1, <1>2, <1>3, <1>4, <1>5, <1>6, <1>7, <1>9, <1>10, <1>11, <1>12, <1>13,
     <1>14 DEF Next, Lookup, Killing

\* The kill switch (handleAdminAPI, FreezeAPIKey): no request that begins
\* after the answer "frozen" is granted at any gateway on an answer of Redis
\* before a marker lapses.  The operator may give the id of a seeded key: the
\* gateway finds its record in memory and marks the key's own hash.  For other
\* keys a kill by id marks nothing that requests look up unless the gateway
\* happens to have the record.
THEOREM KeyKillHolds ==
    ASSUME HasRedis, ~ById \/ Seeded
    PROVE  Spec => []KillHolds
<1>1. Init => KillInv
  BY KillInitially
<1>2. KillInv /\ [Next]_vars => KillInv'
  BY KillStepwise
<1>3. KillInv => KillHolds
  BY DEF KillInv, Stopped, KillHolds
<1> QED
  BY <1>1, <1>2, <1>3, PTL DEF Spec

-----------------------------------------------------------------------------
(* What is left without Redis                                              *)

\* FreezeAPIKey has frozen the record of gateway g and not yet the row.
UpdatePending(g) == \E k \in Kills : step[k] = "db" /\ at[k] = g

\* A gateway that has frozen a key keeps it frozen, through restarts too,
\* unless it stops between the two writes of FreezeAPIKey.
FrozenStays ==
    [][\A g \in Gateways :
         mem[g] = "frozen" /\ ~UpdatePending(g) => mem'[g] = "frozen"]_vars

\* Memory is not ahead of the row but for the kill in progress.
FrozenInv ==
    /\ TypeOK
    /\ KnownInv
    /\ \A g \in Gateways : mem[g] = "frozen" => db = "frozen" \/ UpdatePending(g)

LEMMA FrozenStepwise ==
    ASSUME Seeded, HasDB, ~Faults, FrozenInv, [Next]_vars
    PROVE  /\ FrozenInv'
           /\ \A g \in Gateways :
                 mem[g] = "frozen" /\ ~UpdatePending(g) => mem'[g] = "frozen"
<1> DEFINE Goal ==
       /\ \A g \in Gateways : mem'[g] = "frozen" => db' = "frozen" \/ UpdatePending(g)'
       /\ \A g \in Gateways :
             mem[g] = "frozen" /\ ~UpdatePending(g) => mem'[g] = "frozen"
<1>0. /\ TypeOK /\ KnownInv
      /\ \A g \in Gateways : mem[g] = "frozen" => db = "frozen" \/ UpdatePending(g)
  BY DEF FrozenInv
<1>a. StoreShape /\ RequestShape /\ KillShape
  BY <1>0, TypeParts
<1>b. TypeOK' /\ KnownInv'
  BY <1>0, TypeStepwise, KnownStepwise
<1> SUFFICES Goal
  BY <1>b DEF FrozenInv
<1> USE DEF UpdatePending
<1>1. CASE UNCHANGED <<mem, db, step, at>>
  BY <1>0, <1>1
<1>2. ASSUME NEW r \in Reqs, ReadDB(r) \/ StoreMem(r)
      PROVE  FALSE
  BY <1>0, <1>2 DEF ReadDB, StoreMem, KnownInv
<1>3. ASSUME NEW k \in Kills, NEW g \in Gateways, KillBegin(k, g)
      PROVE  Goal
  <2>1. /\ UNCHANGED <<mem, db>> /\ step[k] = "none"
        /\ \A l \in Kills : l # k => step'[l] = step[l] /\ at'[l] = at[l]
    BY <1>a, <1>3 DEF KillBegin, KillGoto, KillShape
  <2> QED
    BY <1>0, <2>1
<1>4. ASSUME NEW g \in Gateways, Restart(g)
      PROVE  Goal
  <2>1. mem' = [mem EXCEPT ![g] = db] /\ db' = db
    BY <1>4 DEF Restart
  <2>2. \A h \in Gateways : h # g => (UpdatePending(h) => UpdatePending(h)')
    BY <1>a, <1>4 DEF Restart, KillShape
  <2> QED
    BY <1>0, <1>a, <2>1, <2>2 DEF StoreShape
<1>5. ASSUME NEW k \in Kills, KillMark(k) \/ KillAnswer(k)
      PROVE  Goal
  <2>1. /\ UNCHANGED <<mem, db, at>> /\ step[k] # "db"
        /\ \A l \in Kills : l # k => step'[l] = step[l]
    BY <1>a, <1>5 DEF KillMark, KillAnswer, KillGoto, KillShape
  <2> QED
    BY <1>0, <2>1
<1>6. ASSUME NEW k \in Kills, KillMem(k)
      PROVE  Goal
  <2>1. /\ mem' = [mem EXCEPT ![at[k]] = "frozen"] /\ db' = db
        /\ at[k] \in Gateways /\ at' = at /\ step[k] = "mem" /\ step'[k] = "db"
        /\ \A l \in Kills : l # k => step'[l] = step[l]
    BY <1>0, <1>a, <1>6 DEF KillMem, KillGoto, KillShape, KnownInv
  <2> QED
    BY <1>0, <1>a, <2>1 DEF StoreShape
<1>7. ASSUME NEW k \in Kills, KillDB(k)
      PROVE  Goal
  BY <1>0, <1>7 DEF KillDB
<1> QED
  BY <1>1, <1>2, <1>3, <1>4, <1>5, <1>6, <1>7
  DEF Next, Lookup, Killing, Arrive, CheckMarker, ReadMem, MarkerElapse, vars,
      storeVars, killVars

\* With a database that answers, whether or not there is a Redis: a seeded key
\* that a gateway has frozen stays frozen there, because NewPostgresRepo reads
\* what FreezeAPIKey wrote.  (Other gateways learn of it from Redis alone.)
THEOREM KeyFrozenStays ==
    ASSUME Seeded, HasDB, ~Faults
    PROVE  Spec => FrozenStays
<1>1. Init => FrozenInv
  BY TypeInitially, KnownInitially DEF Init, SeededStatus, FrozenInv
<1>2. FrozenInv /\ [Next]_vars => FrozenInv'
  BY FrozenStepwise
<1>3. FrozenInv /\ [Next]_vars
        => [\A g \in Gateways :
              mem[g] = "frozen" /\ ~UpdatePending(g) => mem'[g] = "frozen"]_vars
  BY FrozenStepwise
<1> QED
  BY <1>1, <1>2, <1>3, PTL DEF Spec, FrozenStays
=============================================================================
