------------------------------ MODULE Admission ------------------------------
(***************************************************************************)
(* How ServeHTTP of src/internal/proxy/proxy.go admits a request: the CORS *)
(* middleware, steps 1 to 5 and 7 of serveInternal and the director of the *)
(* reverse proxy, while ConfigManager reloads the configuration.           *)
(*                                                                         *)
(* A handler reads the configuration four times: its tier (step 4), the    *)
(* jitter switch and the jitter (step 7) and the upstream (director).  The *)
(* key lookup and the limiter are modules of their own (KeyStore,          *)
(* RedisLimiter, BurstBilling); here they return any answer.  Handlers     *)
(* share nothing else in these steps, so the module follows one of them.   *)
(***************************************************************************)
EXTENDS ConfigManager, Signature

CONSTANTS Tier,      \* the key's tier in each configuration that has it
          Jitter,    \* Upstream.Jitter of each configuration
          Target,    \* Upstream.TargetURL of each configuration that has one
          DefaultReplay,  \* replay window without a tier (60 in the code)
          StartNow,  \* clock at the start
          MaxNow     \* bound: clock at the end

ASSUME AdmissionAssumption ==
    /\ DOMAIN Tier \subseteq Contents \cup {"default"}
    /\ \A c \in DOMAIN Tier : Tier[c].replay \in 0..(Half - 1)
    /\ DOMAIN Jitter = Contents \cup {"default", "empty"}
    /\ DOMAIN Target \subseteq Contents \cup {"default"}
    /\ DefaultReplay \in 0..(Half - 1)
    /\ MaxNow \in Nat /\ StartNow \in 0..MaxNow
    /\ MaxNow < Half - Skew

VARIABLES now,       \* time.Now().Unix()
          env,       \* UPSTREAM_URL is set
          startup,   \* cfg when the proxy was made: the default director's
          pc,        \* step of the handler; idle, forwarded and panicked too
          tier,      \* tierCfg
          verified,  \* timestamp of an accepted signature, and when
          limited,   \* the tier whose limits went to the limiter
          target,    \* where the request is forwarded to
          active     \* history: configurations active since the request began

requestVars == <<pc, tier, verified, limited, target>>
vars == <<configVars, now, env, startup, requestVars, active>>

DefaultTier == [limits |-> "20/25", replay |-> DefaultReplay]
TierOf(c) == IF c \in DOMAIN Tier THEN Tier[c] ELSE DefaultTier
TargetOf(c) == IF c \in DOMAIN Target THEN Target[c] ELSE ""

\* No signature: nothing was verified.
Unsigned == [ts |-> 0, at |-> 0]

Init ==
    /\ ConfigInit
    /\ now = StartNow
    /\ env \in BOOLEAN
    /\ startup = cfg
    /\ pc = "idle"
    /\ tier = DefaultTier
    /\ verified = Unsigned
    /\ limited = DefaultTier
    /\ target = "none"
    /\ active = {}

-----------------------------------------------------------------------------
Keep == UNCHANGED <<configVars, now, env, startup>>

\* The handler answers and returns.
Finish ==
    /\ pc' = "idle"
    /\ tier' = DefaultTier
    /\ verified' = Unsigned
    /\ limited' = DefaultTier
    /\ target' = "none"
    /\ active' = {}

Continue(step) == pc' = step /\ UNCHANGED active

\* A request arrives that is for the pipeline.  OPTIONS is answered by the
\* middleware; health, metrics, demo, docs and admin paths by their own
\* handlers; a request without a key with 401.
Arrive ==
    /\ pc = "idle"
    /\ pc' = "auth"
    /\ active' = {cfg}
    /\ UNCHANGED <<tier, verified, limited, target>>
    /\ Keep

\* IsKeyFrozen and GetAPIKey: 401 and 403 end the request.
Authenticate ==
    /\ pc = "auth"
    /\ Finish \/ (Continue("tier") /\ UNCHANGED <<tier, verified, limited, target>>)
    /\ Keep

\* GetTier; the limits of the free tier if the configuration lacks the tier.
GetTier ==
    /\ pc = "tier"
    /\ tier' = TierOf(cfg)
    /\ Continue("verify")
    /\ UNCHANGED <<verified, limited, target>>
    /\ Keep

\* Step 5.  Without the header nothing is verified; a body that cannot be
\* read, a malformed header, a timestamp outside the window and another MAC
\* end the request.
Verify ==
    /\ pc = "verify"
    /\ \/ Continue("limit") /\ UNCHANGED <<tier, verified, limited, target>>
       \/ Finish
       \/ \E ts \in Int64 :
            /\ InTime(ts, tier.replay, now)
            /\ verified' = [ts |-> ts, at |-> now]
            /\ Continue("limit")
            /\ UNCHANGED <<tier, limited, target>>
    /\ Keep

\* Slip: the limits are looked up again for the limiter.
CheckRereadsTier ==
    /\ pc = "limit"
    /\ \/ Finish
       \/ /\ limited' = [limits |-> TierOf(cfg).limits, replay |-> tier.replay]
          /\ verified' = Unsigned
          /\ Continue("jitter")
          /\ UNCHANGED <<tier, target>>
    /\ Keep

\* Step 6, as far as it is about this request: BLOCKED is answered with 429.
Check ==
    /\ pc = "limit"
    /\ \/ Finish
       \/ /\ limited' = tier
          /\ verified' = Unsigned
          /\ Continue("jitter")
          /\ UNCHANGED <<tier, target>>
    /\ Keep

\* Step 7: the switch, which is the override of a cockpit (module Cockpit) or
\* the configuration, ...
ReadSwitch ==
    /\ pc = "jitter"
    /\ Continue("delay") \/ Continue("direct")
    /\ UNCHANGED <<tier, verified, limited, target>>
    /\ Keep

\* ... and the range of the delay, in units of 100 ms.
MinDelay(j) == IF j.min <= 0 THEN 2 ELSE j.min

MaxDelay(j) == IF j.max < MinDelay(j) THEN 5 ELSE j.max

\* rand.Intn panics unless the range has a value.
Delay ==
    /\ pc = "delay"
    /\ LET j == Jitter[cfg] IN
         \/ Continue("direct")
         \/ MaxDelay(j) - MinDelay(j) + 1 <= 0 /\ Continue("panicked")
    /\ UNCHANGED <<tier, verified, limited, target>>
    /\ Keep

\* Step 9: the director asks for the upstream of the configuration, and keeps
\* the one of the start if there is none.
Direct ==
    /\ pc = "direct"
    /\ target' = IF env /\ overridden THEN "env"
                 ELSE IF cfg \in DOMAIN Target THEN Target[cfg]
                 ELSE IF env THEN "env" ELSE TargetOf(startup)
    /\ Continue("forwarded")
    /\ UNCHANGED <<tier, verified, limited>>
    /\ Keep

\* The handler ends after step 9 (module ProxyForward) or its panic.
Return == pc \in {"forwarded", "panicked"} /\ Finish /\ Keep

Tick ==
    /\ now < MaxNow
    /\ now' = now + 1
    /\ UNCHANGED <<configVars, env, startup, requestVars, active>>

\* The configuration changes under the request.
Configure ==
    /\ ConfigNext
    /\ active' = IF pc = "idle" THEN {} ELSE active \cup {cfg'}
    /\ UNCHANGED <<now, env, startup, requestVars>>

Handle ==
    \/ Authenticate \/ GetTier \/ Verify \/ Check \/ ReadSwitch \/ Delay \/ Direct
    \/ Return

Next == Configure \/ Arrive \/ Handle \/ Tick

\* The watcher goroutine is scheduled, a writer finishes, time passes.
Fairness ==
    /\ WF_configVars(HandleEvent \/ LoadFromFile)
    /\ WF_configVars(WriteRest)
    /\ WF_configVars(Elapse)

Spec == Init /\ [][Next]_vars /\ Fairness

-----------------------------------------------------------------------------
(* Properties *)

\* Configuration and request are well typed; in particular a file that cannot
\* be read is never the active configuration (ConfigTypeOK).
TypeOK ==
    /\ ConfigTypeOK
    /\ now \in StartNow..MaxNow
    /\ env \in BOOLEAN
    /\ pc \in {"idle", "auth", "tier", "verify", "limit", "jitter", "delay", "direct",
               "forwarded", "panicked"}
    /\ tier \in {TierOf(c) : c \in Contents \cup {"default", "empty"}}
    /\ active \subseteq Contents \cup {"default", "empty"}

\* A signature is accepted only if it is at most the tier's replay window old
\* and at most Skew ahead when it is checked, over all timestamps that fit the
\* word, but for the one at which both differences wrap.
SignatureFresh ==
    verified # Unsigned =>
        \/ Fresh(verified.ts, tier.replay, verified.at)
        \/ WrapsTwice(verified.ts, verified.at)

\* A request is judged by one configuration: replay window and limits are of
\* the same tier entry, one that was active while the request was handled,
\* however the file is rewritten between the steps.
OneTier ==
    pc \in {"jitter", "delay", "direct"} => limited \in {TierOf(c) : c \in active}

\* A forwarded request goes to the upstream of the environment, if that names
\* one, or of a configuration that was active while it was handled, or to the
\* one the gateway started with: also while the file is empty.
TargetKnown ==
    pc = "forwarded" =>
        target \in IF env THEN {"env"}
                   ELSE {Target[c] : c \in active \cap DOMAIN Target} \cup {TargetOf(startup)}
=============================================================================
