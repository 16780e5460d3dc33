--------------------------- MODULE AdmissionProofs ---------------------------
(***************************************************************************)
(* What a request is admitted by, for every set of configurations, every   *)
(* way of rewriting the file and words of every width.                     *)
(*                                                                         *)
(* SignatureFresh, OneTier and TargetKnown look at one step of the handler *)
(* each.  They follow once it is known that the active configuration is    *)
(* among those of the request, that the tier it works with came from one   *)
(* of them, and that a reload never loses the values of the environment.   *)
(* TypeOK, which says that only what parses becomes active, is inductive.  *)
(***************************************************************************)
EXTENDS Admission, TLAPS

\* The clock and the windows are in the range the arithmetic is right for.
Ranges == now \in 0..MaxNow /\ tier.replay \in 0..(Half - 1)

\* The request works with configurations that were active since it began.
Current ==
    /\ overridden = TRUE
    /\ pc # "idle" => cfg \in active
    /\ pc \in {"verify", "limit"} => \E c \in active : tier = TierOf(c)
    /\ pc \in {"jitter", "delay", "direct"} => \E c \in active : limited = TierOf(c)

\* A signature is on record only between its check and the limiter.
Signed ==
    verified # Unsigned =>
        /\ pc = "limit"
        /\ \/ Fresh(verified.ts, tier.replay, verified.at)
           \/ WrapsTwice(verified.ts, verified.at)

AdmissionInv == Ranges /\ Current /\ Signed /\ TargetKnown

\* The two checks of VerifySignature, made with differences that wrap, leave
\* one timestamp beside those in the window.
LEMMA ChecksSuffice ==
    ASSUME NEW ts \in Int64, NEW tolerance \in 0..(Half - 1), NEW t \in 0..MaxNow,
           InTime(ts, tolerance, t)
    PROVE  Fresh(ts, tolerance, t) \/ WrapsTwice(ts, t)
BY SignatureAssumption, AdmissionAssumption DEF Int64, InTime, Wrap, Fresh, WrapsTwice

LEMMA TierFacts ==
    /\ \A c : TierOf(c).replay \in 0..(Half - 1)
    /\ DefaultTier.replay \in 0..(Half - 1)
<1>1. DefaultTier.replay \in 0..(Half - 1)
  BY AdmissionAssumption DEF DefaultTier
<1>2. ASSUME NEW c PROVE TierOf(c).replay \in 0..(Half - 1)
  <2>1. CASE c \in DOMAIN Tier
    BY <2>1, AdmissionAssumption DEF TierOf
  <2>2. CASE c \notin DOMAIN Tier
    BY <1>1, <2>2, Zenon DEF TierOf
  <2> QED
    BY <2>1, <2>2
<1> QED
  BY <1>1, <1>2

LEMMA AdmissionInitially == Init => AdmissionInv
<1> SUFFICES ASSUME Init PROVE AdmissionInv
  OBVIOUS
<1>1. now \in 0..MaxNow
  BY AdmissionAssumption DEF Init
<1>2. tier.replay \in 0..(Half - 1)
  BY TierFacts DEF Init
<1>3. pc = "idle" /\ verified = Unsigned
  BY DEF Init
<1>4. overridden = TRUE
  BY Zenon DEF Init, ConfigInit
<1>5. Ranges
  BY <1>1, <1>2 DEF Ranges
<1>6. Current
  BY <1>3, <1>4 DEF Current
<1>7. Signed /\ TargetKnown
  BY <1>3 DEF Signed, TargetKnown
<1> QED
  BY <1>5, <1>6, <1>7 DEF AdmissionInv

\* No step of the watcher or of an editor takes the environment's values away.
LEMMA ConfigKeepsEnv ==
    ASSUME ConfigNext, overridden = TRUE
    PROVE  overridden' = TRUE
<1>1. ASSUME NEW v \in Texts, Write(v) \/ Truncate(v) \/ MoveAway(v) \/ Replace(v)
      PROVE  overridden' = TRUE
  BY <1>1, Zenon DEF Write, Truncate, MoveAway, Replace
<1>2. ASSUME WriteRest \/ HandleEvent \/ LoadFromFile \/ Elapse
      PROVE  overridden' = TRUE
  BY <1>2, Zenon DEF WriteRest, HandleEvent, LoadFromFile, Elapse
<1> QED
  BY <1>1, <1>2, Zenon DEF ConfigNext

\* A handler that returns leaves nothing behind.
LEMMA FinishKeeps ==
    ASSUME AdmissionInv, Finish, Keep
    PROVE  AdmissionInv'
<1>1. UNCHANGED <<now, overridden, cfg, env, startup>>
  BY Zenon DEF Keep, configVars
<1>2. pc' = "idle" /\ verified' = Unsigned /\ tier' = DefaultTier
  BY DEF Finish
<1>3. Ranges'
  BY <1>1, <1>2, TierFacts DEF AdmissionInv, Ranges
<1>4. overridden' = TRUE
  BY <1>1, Zenon DEF AdmissionInv, Current
<1>5. Current'
  BY <1>2, <1>4 DEF Current
<1>6. Signed' /\ TargetKnown'
  BY <1>2 DEF Signed, TargetKnown, Unsigned
<1> QED
  BY <1>3, <1>5, <1>6 DEF AdmissionInv

LEMMA AdmissionStepwise == AdmissionInv /\ [Next]_vars => AdmissionInv'
<1> SUFFICES ASSUME AdmissionInv, [Next]_vars PROVE AdmissionInv'
  OBVIOUS
<1>0. Ranges /\ Current /\ Signed /\ TargetKnown
  BY DEF AdmissionInv
<1>a. ASSUME Keep
      PROVE  /\ UNCHANGED <<now, cfg, env, startup>>
             /\ overridden' = TRUE
  <2>1. UNCHANGED <<now, overridden, cfg, env, startup>>
    BY <1>a, Zenon DEF Keep, configVars
  <2> QED
    BY <1>0, <2>1, Zenon DEF Current
<1>1. CASE Arrive
  <2>1. /\ pc = "idle" /\ pc' = "auth" /\ active' = {cfg}
        /\ UNCHANGED <<tier, verified, limited, target, now, cfg, env, startup>>
        /\ overridden' = TRUE
    BY <1>1, <1>a, Zenon DEF Arrive
  <2>2. verified = Unsigned
    BY <1>0, <2>1 DEF Signed
  <2>3. Ranges' /\ Signed' /\ TargetKnown'
    BY <1>0, <2>1, <2>2 DEF Ranges, Signed, TargetKnown, Unsigned
  <2>4. Current'
    BY <2>1 DEF Current
  <2> QED
    BY <2>3, <2>4 DEF AdmissionInv
<1>2. CASE Authenticate
  <2>1. CASE Finish
    BY <1>2, <2>1, FinishKeeps DEF Authenticate
  <2>2. CASE Continue("tier") /\ UNCHANGED <<tier, verified, limited, target>>
    <3>1. /\ pc = "auth" /\ pc' = "tier" /\ active' = active
          /\ UNCHANGED <<tier, verified, limited, target, now, cfg, env, startup>>
          /\ overridden' = TRUE
      BY <1>2, <1>a, <2>2, Zenon DEF Authenticate, Continue
    <3>2. verified = Unsigned
      BY <1>0, <3>1 DEF Signed
    <3>3. Ranges' /\ Signed' /\ TargetKnown'
      BY <1>0, <3>1, <3>2 DEF Ranges, Signed, TargetKnown, Unsigned
    <3>4. Current'
      BY <1>0, <3>1 DEF Current
    <3> QED
      BY <3>3, <3>4 DEF AdmissionInv
  <2> QED
    BY <1>2, <2>1, <2>2, Zenon DEF Authenticate
<1>3. CASE GetTier
  <2>1. /\ pc = "tier" /\ pc' = "verify" /\ active' = active /\ tier' = TierOf(cfg)
        /\ UNCHANGED <<verified, limited, target, now, cfg, env, startup>>
        /\ overridden' = TRUE
    BY <1>3, <1>a, Zenon DEF GetTier, Continue
  <2>2. verified = Unsigned /\ cfg \in active
    BY <1>0, <2>1 DEF Signed, Current
  <2>3. Ranges'
    BY <1>0, <2>1, TierFacts DEF Ranges
  <2>4. Signed' /\ TargetKnown'
    BY <2>1, <2>2 DEF Signed, TargetKnown, Unsigned
  <2>5. \E c \in active' : tier' = TierOf(c)
    BY <2>1, <2>2
  <2>6. Current'
    BY <2>1, <2>2, <2>5 DEF Current, TierOf, DefaultTier
  <2> QED
    BY <2>3, <2>4, <2>6 DEF AdmissionInv
<1>4. CASE Verify
  <2>1. CASE Finish
    BY <1>4, <2>1, FinishKeeps DEF Verify
  <2>2. ASSUME Continue("limit"), UNCHANGED <<tier, limited, target>>,
               \/ verified' = verified
               \/ /\ verified'.at = now /\ verified'.ts \in Int64
                  /\ InTime(verified'.ts, tier.replay, now)
        PROVE  AdmissionInv'
    <3>1. /\ pc = "verify" /\ pc' = "limit" /\ active' = active
          /\ UNCHANGED <<tier, limited, target, now, cfg, env, startup>>
          /\ overridden' = TRUE
      BY <1>4, <1>a, <2>2, Zenon DEF Verify, Continue
    <3>2. Ranges' /\ TargetKnown'
      BY <1>0, <3>1 DEF Ranges, TargetKnown
    <3>3. Current'
      BY <1>0, <3>1 DEF Current, TierOf, DefaultTier
    <3>4. Signed'
      <4>1. CASE verified' = verified
        BY <1>0, <3>1, <4>1 DEF Signed, Unsigned
      <4>2. CASE /\ verified'.at = now /\ verified'.ts \in Int64
                 /\ InTime(verified'.ts, tier.replay, now)
        <5>1. Fresh(verified'.ts, tier.replay, now) \/ WrapsTwice(verified'.ts, now)
          BY <1>0, <4>2, ChecksSuffice DEF Ranges
        <5> QED
          BY <3>1, <4>2, <5>1 DEF Signed, Fresh, WrapsTwice
      <4> QED
        BY <2>2, <4>1, <4>2
    <3> QED
      BY <3>2, <3>3, <3>4 DEF AdmissionInv
  <2>3. CASE Continue("limit") /\ UNCHANGED <<tier, verified, limited, target>>
    BY <2>2, <2>3, Zenon
  <2>4. ASSUME NEW ts \in Int64, InTime(ts, tier.replay, now),
               verified' = [ts |-> ts, at |-> now], Continue("limit"),
               UNCHANGED <<tier, limited, target>>
        PROVE  AdmissionInv'
    <3>1. verified'.ts = ts /\ verified'.at = now
      BY <2>4
    <3> QED
      BY <2>2, <2>4, <3>1, Zenon
  <2> QED
    BY <1>4, <2>1, <2>3, <2>4, Zenon DEF Verify
<1>5. CASE Check
  <2>1. CASE Finish
    BY <1>5, <2>1, FinishKeeps DEF Check
  <2>2. CASE /\ limited' = tier /\ verified' = Unsigned /\ Continue("jitter")
             /\ UNCHANGED <<tier, target>>
    <3>1. /\ pc = "limit" /\ pc' = "jitter" /\ active' = active
          /\ UNCHANGED <<tier, target, now, cfg, env, startup>>
          /\ overridden' = TRUE
      BY <1>5, <1>a, <2>2, Zenon DEF Check, Continue
    <3>2. Ranges' /\ TargetKnown' /\ Signed'
      BY <1>0, <2>2, <3>1 DEF Ranges, TargetKnown, Signed, Unsigned
    <3>3. \E c \in active' : limited' = TierOf(c)
      BY <1>0, <2>2, <3>1 DEF Current
    <3>4. Current'
      BY <1>0, <3>1, <3>3 DEF Current, TierOf, DefaultTier
    <3> QED
      BY <3>2, <3>4 DEF AdmissionInv
  <2> QED
    BY <1>5, <2>1, <2>2, Zenon DEF Check
<1>6. CASE ReadSwitch \/ Delay
  <2>1. /\ pc \in {"jitter", "delay"} /\ pc' \in {"delay", "direct", "panicked"}
        /\ active' = active
        /\ UNCHANGED <<tier, verified, limited, target, now, cfg, env, startup>>
        /\ overridden' = TRUE
    BY <1>6, <1>a, Zenon DEF ReadSwitch, Delay, Continue
  <2>2. verified = Unsigned
    BY <1>0, <2>1 DEF Signed
  <2>3. Ranges' /\ Signed' /\ TargetKnown'
    BY <1>0, <2>1, <2>2 DEF Ranges, Signed, TargetKnown, Unsigned
  <2>4. Current'
    BY <1>0, <2>1 DEF Current, TierOf, DefaultTier
  <2> QED
    BY <2>3, <2>4 DEF AdmissionInv
<1>7. CASE Direct
  <2>1. /\ pc = "direct" /\ pc' = "forwarded" /\ active' = active
        /\ UNCHANGED <<tier, verified, limited, now, cfg, env, startup>>
        /\ overridden' = TRUE
    BY <1>7, <1>a, Zenon DEF Direct, Continue
  <2>2. verified = Unsigned /\ cfg \in active
    BY <1>0, <2>1 DEF Signed, Current
  <2>3. Ranges' /\ Signed' /\ Current'
    BY <1>0, <2>1, <2>2 DEF Ranges, Signed, Current, Unsigned
  <2>4. target' \in IF env THEN {"env"}
                    ELSE {Target[c] : c \in active \cap DOMAIN Target} \cup {TargetOf(startup)}
    <3>1. target' = IF env /\ overridden THEN "env"
                    ELSE IF cfg \in DOMAIN Target THEN Target[cfg]
                    ELSE IF env THEN "env" ELSE TargetOf(startup)
      BY <1>7, Zenon DEF Direct
    <3>2. CASE env
      <4>1. overridden
        BY <1>0, Zenon DEF Current
      <4>2. target' = "env"
        BY <3>1, <3>2, <4>1, Zenon
      <4> QED
        BY <3>2, <4>2, Zenon
    <3>3. CASE ~env
      <4>1. target' = IF cfg \in DOMAIN Target THEN Target[cfg] ELSE TargetOf(startup)
        BY <3>1, <3>3, Zenon
      <4> QED
        BY <2>2, <3>3, <4>1, Zenon
    <3> QED
      BY <3>2, <3>3, Zenon
  <2>5. TargetKnown'
    BY <2>1, <2>4, Zenon DEF TargetKnown, TargetOf
  <2> QED
    BY <2>3, <2>5 DEF AdmissionInv
<1>8. CASE Return
  BY <1>8, FinishKeeps DEF Return
<1>9. CASE Tick
  <2>1. /\ UNCHANGED <<overridden, cfg, env, startup, pc, tier, verified, limited, target, active>>
        /\ now < MaxNow /\ now' = now + 1
    BY <1>9, Zenon DEF Tick, configVars, requestVars
  <2>2. Ranges'
    BY <1>0, <2>1, AdmissionAssumption DEF Ranges
  <2>3. overridden' = TRUE
    BY <1>0, <2>1, Zenon DEF Current
  <2>4. Current' /\ Signed' /\ TargetKnown'
    BY <1>0, <2>1, <2>3 DEF Current, Signed, TargetKnown, Fresh, WrapsTwice, Unsigned, TierOf, DefaultTier, TargetOf
  <2> QED
    BY <2>2, <2>4 DEF AdmissionInv
<1>10. CASE Configure
  <2>1. /\ UNCHANGED <<now, env, startup, pc, tier, verified, limited, target>>
        /\ active' = IF pc = "idle" THEN {} ELSE active \cup {cfg'}
    BY <1>10, Zenon DEF Configure, requestVars
  <2>2. overridden' = TRUE
    BY <1>0, <1>10, ConfigKeepsEnv, Zenon DEF Configure, Current
  <2>3. Ranges' /\ Signed'
    BY <1>0, <2>1 DEF Ranges, Signed, Fresh, WrapsTwice, Unsigned
  <2>4. pc # "idle" => active \subseteq active' /\ cfg' \in active'
    BY <2>1
  <2>5. Current'
    BY <1>0, <2>1, <2>2, <2>4 DEF Current, TierOf, DefaultTier
  <2>6. TargetKnown'
    <3> SUFFICES ASSUME pc = "forwarded"
                 PROVE  target \in IF env THEN {"env"}
                          ELSE {Target[c] : c \in active' \cap DOMAIN Target} \cup {TargetOf(startup)}
      BY <2>1, Zenon DEF TargetKnown, TargetOf
    <3>1. target \in IF env THEN {"env"}
                     ELSE {Target[c] : c \in active \cap DOMAIN Target} \cup {TargetOf(startup)}
      BY <1>0, Zenon DEF TargetKnown
    <3>2. active \subseteq active'
      BY <2>4
    <3> QED
      BY <3>1, <3>2, Zenon
  <2> QED
    BY <2>3, <2>5, <2>6 DEF AdmissionInv
<1>11. CASE UNCHANGED vars
  <2>1. UNCHANGED <<now, overridden, cfg, env, startup, pc, tier, verified, limited, target, active>>
    BY <1>11, Zenon DEF vars, configVars, requestVars
  <2>2. overridden' = TRUE
    BY <1>0, <2>1, Zenon DEF Current
  <2>3. Ranges' /\ Current' /\ Signed' /\ TargetKnown'
    BY <1>0, <2>1, <2>2 DEF Ranges, Current, Signed, TargetKnown, Fresh, WrapsTwice, Unsigned, TierOf, DefaultTier, TargetOf
  <2> QED
    BY <2>3 DEF AdmissionInv
<1> QED
  BY <1>1, <1>2, <1>3, <1>4, <1>5, <1>6, <1>7, <1>8, <1>9, <1>10, <1>11, Zenon DEF Next, Handle

LEMMA AdmissionInvariant == Spec => []AdmissionInv
BY AdmissionInitially, AdmissionStepwise, PTL DEF Spec

\* An accepted signature is at most the tier's replay window old and at most
\* Skew ahead, but for the one timestamp at which both differences of
\* VerifySignature wrap, for words of any width.
THEOREM AdmissionSignatureFresh == Spec => []SignatureFresh
<1>1. AdmissionInv => SignatureFresh
  BY DEF AdmissionInv, Signed, SignatureFresh
<1> QED
  BY <1>1, AdmissionInvariant, PTL

\* serveInternal judges a request by one tier entry, whatever the watcher
\* loads meanwhile.
THEOREM AdmissionOneTier == Spec => []OneTier
<1>1. AdmissionInv => OneTier
  BY Zenon DEF AdmissionInv, Current, OneTier
<1> QED
  BY <1>1, AdmissionInvariant, PTL

\* The director sends a request to an upstream of the environment, of a
\* configuration active since the request began, or of the start.
THEOREM AdmissionTargetKnown == Spec => []TargetKnown
<1>1. AdmissionInv => TargetKnown
  BY DEF AdmissionInv
<1> QED
  BY <1>1, AdmissionInvariant, PTL

-----------------------------------------------------------------------------
(* Types.  Here the configurations are what matters: a file that is broken,  *)
(* missing or half written is never the one a request works with.            *)

\* The parts of ConfigTypeOK that are about the file and about the flags.
FileOK ==
    /\ file \in Texts \cup {"empty", "missing"}
    /\ writing \in Texts \cup {None}
    /\ events \in 0..MaxEvents
    /\ since \in 0..(Debounce + 1)
    /\ cfg \in Contents \cup {"default", "empty"}

FlagsOK ==
    /\ watched \in BOOLEAN /\ loading \in BOOLEAN
    /\ overridden \in BOOLEAN /\ quiet \in BOOLEAN

LEMMA ConfigParts == FileOK /\ FlagsOK <=> ConfigTypeOK
<1>1. FlagsOK <=> {watched, loading, overridden, quiet} \subseteq BOOLEAN
  BY Zenon DEF FlagsOK
<1> QED
  BY <1>1, Zenon DEF ConfigTypeOK, FileOK

LEMMA ConfigPartsPrimed == FileOK' /\ FlagsOK' <=> ConfigTypeOK'
<1>1. FlagsOK' <=> {watched', loading', overridden', quiet'} \subseteq BOOLEAN
  BY Zenon DEF FlagsOK
<1> QED
  BY <1>1, Zenon DEF ConfigTypeOK, FileOK

LEMMA ConfigTypedInitially == ConfigInit => ConfigTypeOK
<1> SUFFICES ASSUME ConfigInit PROVE ConfigTypeOK
  OBVIOUS
<1>1. FlagsOK
  BY Zenon DEF ConfigInit, FlagsOK
<1>2. file \in Contents \cup {"broken"} /\ (Parses(file) => file \in Contents)
  BY ConfigAssumption DEF ConfigInit, Parses
<1>3. cfg = file \/ cfg = "default"
  BY Zenon DEF ConfigInit
<1>4. cfg \in Contents \cup {"default", "empty"}
  BY <1>2, Zenon DEF ConfigInit
<1>5. FileOK
  BY <1>2, <1>4, ConfigAssumption DEF ConfigInit, FileOK, Texts
<1> QED
  BY <1>1, <1>5, ConfigParts

\* Whatever an editor does to the file, the watcher only makes a
\* configuration of it that parses.
LEMMA ConfigTypedStepwise ==
    ASSUME ConfigTypeOK, ConfigNext
    PROVE  ConfigTypeOK'
<1>0. FileOK /\ FlagsOK
  BY ConfigParts
<1>a. ASSUME Event PROVE events' \in 0..MaxEvents
  <2>1. events' = events \/ (events < MaxEvents /\ events' = events + 1)
    BY <1>a, Zenon DEF Event
  <2> QED
    BY <1>0, <2>1, ConfigAssumption DEF FileOK
<1>1. ASSUME NEW v \in Texts, Write(v) \/ Truncate(v) \/ MoveAway(v) \/ Replace(v)
      PROVE  FileOK' /\ FlagsOK'
  <2>1. events' \in 0..MaxEvents
    <3>1. Event \/ events' = events
      BY <1>1, Zenon DEF Write, Truncate, MoveAway, Replace
    <3> QED
      BY <1>0, <1>a, <3>1 DEF FileOK
  <2>2. FlagsOK'
    BY <1>0, <1>1, Zenon DEF FlagsOK, Write, Truncate, MoveAway, Replace
  <2>3. /\ file' \in {v, "empty", "missing"} /\ writing' \in {v, writing}
        /\ since' = since /\ cfg' = cfg
    BY <1>1, Zenon DEF Write, Truncate, MoveAway, Replace
  <2> QED
    BY <1>0, <2>1, <2>2, <2>3 DEF FileOK
<1>2. ASSUME WriteRest PROVE FileOK' /\ FlagsOK'
  <2>1. /\ UNCHANGED <<watched, since, loading, cfg, overridden, quiet>> /\ Event
        /\ writing # None /\ file' = writing /\ writing' = None
    BY <1>2, Zenon DEF WriteRest
  <2>2. FlagsOK'
    BY <1>0, <2>1, Zenon DEF FlagsOK
  <2> QED
    BY <1>0, <1>a, <2>1, <2>2 DEF FileOK
<1>3. ASSUME HandleEvent PROVE FileOK' /\ FlagsOK'
  <2>1. /\ UNCHANGED <<file, writing, cfg>> /\ events > 0 /\ events' = events - 1
        /\ since' = 0 \/ since' = since
    BY <1>3, Zenon DEF HandleEvent
  <2>2. FlagsOK'
    BY <1>0, <1>3, Zenon DEF FlagsOK, HandleEvent
  <2> QED
    BY <1>0, <2>1, <2>2, ConfigAssumption DEF FileOK
<1>4. ASSUME LoadFromFile PROVE FileOK' /\ FlagsOK'
  <2>1. /\ UNCHANGED <<file, writing, events, since>>
        /\ (Parses(file) /\ cfg' = file) \/ cfg' = cfg
    BY <1>4, Zenon DEF LoadFromFile
  <2>2. FlagsOK'
    BY <1>0, <1>4, Zenon DEF FlagsOK, LoadFromFile
  <2>3. Parses(file) => file \in Contents \cup {"empty"}
    BY <1>0 DEF FileOK, Parses, Texts
  <2> QED
    BY <1>0, <2>1, <2>2, <2>3 DEF FileOK
<1>5. ASSUME Elapse PROVE FileOK' /\ FlagsOK'
  <2>1. /\ UNCHANGED <<file, writing, events, watched, loading, cfg, overridden, quiet>>
        /\ since <= Debounce /\ since' = since + 1
    BY <1>5, Zenon DEF Elapse
  <2>2. FlagsOK'
    BY <1>0, <2>1, Zenon DEF FlagsOK
  <2> QED
    BY <1>0, <2>1, <2>2, ConfigAssumption DEF FileOK
<1> QED
  BY <1>1, <1>2, <1>3, <1>4, <1>5, ConfigPartsPrimed, Zenon DEF ConfigNext

\* The tiers a request can have.  The free tier's limits are those of the
\* empty configuration, which has no tiers.
Tiers == {TierOf(c) : c \in Contents \cup {"default", "empty"}}

LEMMA DefaultIsATier == DefaultTier \in Tiers
<1>1. "empty" \notin DOMAIN Tier
  BY AdmissionAssumption, ConfigAssumption
<1>2. TierOf("empty") = DefaultTier
  BY <1>1, Zenon DEF TierOf
<1> QED
  BY <1>2, Zenon DEF Tiers

Steps == {"idle", "auth", "tier", "verify", "limit", "jitter", "delay", "direct",
          "forwarded", "panicked"}

LEMMA TypedStepwise == TypeOK /\ [Next]_vars => TypeOK'
<1> SUFFICES ASSUME TypeOK, [Next]_vars PROVE TypeOK'
  OBVIOUS
<1> DEFINE Known == Contents \cup {"default", "empty"}
<1>0. /\ ConfigTypeOK /\ now \in StartNow..MaxNow /\ env \in BOOLEAN
      /\ pc \in Steps /\ tier \in Tiers /\ active \subseteq Known
  BY Zenon DEF TypeOK, Steps, Tiers
<1>1. cfg \in Known
  BY <1>0, Zenon DEF ConfigTypeOK
<1>2. /\ ConfigTypeOK' /\ now' \in StartNow..MaxNow /\ env' \in BOOLEAN
      /\ pc' \in Steps /\ tier' \in Tiers /\ active' \subseteq Known
      => TypeOK'
  BY Zenon DEF TypeOK, Steps, Tiers, TierOf, DefaultTier
<1>a. ASSUME UNCHANGED configVars PROVE ConfigTypeOK'
  BY <1>0, <1>a, Zenon DEF configVars, ConfigTypeOK
\* The handler changes nothing but its own variables.
<1>b. ASSUME Keep, pc' \in Steps, tier' \in Tiers, active' \subseteq Known
      PROVE  TypeOK'
  BY <1>0, <1>2, <1>a, <1>b, Zenon DEF Keep
<1>c. ASSUME Keep, Finish PROVE TypeOK'
  <2>1. pc' \in Steps
    BY <1>c DEF Finish, Steps
  <2> QED
    BY <1>b, <1>c, <2>1, DefaultIsATier, Zenon DEF Finish
<1>d. ASSUME NEW step \in Steps, Keep, Continue(step), tier' = tier \/ tier' = TierOf(cfg)
      PROVE  TypeOK'
  <2>1. tier' \in Tiers
    BY <1>0, <1>1, <1>d, Zenon DEF Tiers
  <2> QED
    BY <1>0, <1>b, <1>d, <2>1, Zenon DEF Continue
<1>3. CASE Arrive
  <2>1. "auth" \in Steps
    BY DEF Steps
  <2> QED
    BY <1>0, <1>1, <1>3, <1>b, <2>1, Zenon DEF Arrive
<1>4. CASE Authenticate \/ GetTier \/ Verify \/ Check \/ ReadSwitch \/ Delay \/ Direct
  <2>1. {"tier", "verify", "limit", "jitter", "delay", "direct", "panicked", "forwarded"}
           \subseteq Steps
    BY DEF Steps
  <2>2. Keep
    BY <1>4, Zenon DEF Authenticate, GetTier, Verify, Check, ReadSwitch, Delay, Direct
  <2>3. \/ Finish
        \/ /\ \E step \in {"tier", "verify", "limit", "jitter", "delay", "direct",
                           "panicked", "forwarded"} : Continue(step)
           /\ tier' = tier \/ tier' = TierOf(cfg)
    BY <1>4, Zenon DEF Authenticate, GetTier, Verify, Check, ReadSwitch, Delay, Direct
  <2> QED
    BY <1>c, <1>d, <2>1, <2>2, <2>3, Zenon
<1>5. CASE Return
  BY <1>5, <1>c, Zenon DEF Return
<1>6. CASE Tick
  <2>1. /\ UNCHANGED configVars /\ UNCHANGED <<env, pc, tier, active>>
        /\ now < MaxNow /\ now' = now + 1
    BY <1>6, Zenon DEF Tick, requestVars
  <2>2. now' \in StartNow..MaxNow
    BY <1>0, <2>1, AdmissionAssumption
  <2> QED
    BY <1>0, <1>2, <1>a, <2>1, <2>2, Zenon
<1>7. CASE Configure
  <2>1. /\ ConfigNext /\ UNCHANGED <<now, env, pc, tier>>
        /\ active' \subseteq active \cup {cfg'}
    BY <1>7, Zenon DEF Configure, requestVars
  <2>2. ConfigTypeOK'
    BY <1>0, <2>1, ConfigTypedStepwise, Zenon
  <2>3. cfg' \in Known
    BY <2>2, Zenon DEF ConfigTypeOK
  <2> QED
    BY <1>0, <1>2, <2>1, <2>2, <2>3, Zenon
<1>8. CASE UNCHANGED vars
  <2>1. UNCHANGED configVars /\ UNCHANGED <<now, env, pc, tier, active>>
    BY <1>8, Zenon DEF vars, requestVars
  <2> QED
    BY <1>0, <1>2, <1>a, <2>1, Zenon
<1> QED
  BY <1>3, <1>4, <1>5, <1>6, <1>7, <1>8, Zenon DEF Next, Handle

\* Configuration and request are well typed: whatever is in the file and
\* however it is rewritten, loadFromFile keeps what it cannot parse away from
\* the handlers, and GetTier always has limits to give.
THEOREM AdmissionTypeCorrect == Spec => []TypeOK
<1>1. Init => TypeOK
  <2> SUFFICES ASSUME Init PROVE TypeOK
    OBVIOUS
  <2>1. ConfigTypeOK
    BY ConfigTypedInitially DEF Init
  <2>2. now \in StartNow..MaxNow /\ pc = "idle" /\ active = {}
    BY AdmissionAssumption DEF Init
  <2>3. env \in BOOLEAN
    BY Zenon DEF Init
  <2>4. tier \in Tiers
    BY DefaultIsATier, Zenon DEF Init
  <2> QED
    BY <2>1, <2>2, <2>3, <2>4, Zenon DEF TypeOK, Tiers
<1> QED
  BY <1>1, TypedStepwise, PTL DEF Spec

-----------------------------------------------------------------------------
(* The jitter of step 7                                                    *)

\* A handler panics only under a configuration whose jitter is given the wrong
\* way round with a minimum above the built-in maximum of 500 ms.
PanicOnlyInverted ==
    [][pc' = "panicked" /\ pc # "panicked" =>
         Jitter[cfg].min > 5 /\ Jitter[cfg].max < Jitter[cfg].min]_vars

\* Step 7 of serveInternal: rand.Intn is called with a range that has a value
\* for every other pair of numbers that a file may give (zero, negative, equal
\* or inverted), whichever configuration is active when the delay is drawn.
THEOREM AdmissionPanicOnlyInverted ==
    ASSUME \A c \in DOMAIN Jitter : Jitter[c].min \in Int /\ Jitter[c].max \in Int
    PROVE  Spec => PanicOnlyInverted
<1> DEFINE Inverted == Jitter[cfg].min > 5 /\ Jitter[cfg].max < Jitter[cfg].min
<1>1. ASSUME TypeOK, Next, pc' = "panicked", pc # "panicked"
      PROVE  Inverted
  <2>1. CASE Delay
    <3>1. Jitter[cfg].min \in Int /\ Jitter[cfg].max \in Int
      BY <1>1, AdmissionAssumption DEF TypeOK, ConfigTypeOK
    <3>2. MaxDelay(Jitter[cfg]) - MinDelay(Jitter[cfg]) + 1 <= 0
      BY <1>1, <2>1 DEF Delay, Continue
    <3>3. QED
      BY <3>1, <3>2 DEF MaxDelay, MinDelay
  <2>2. CASE Configure \/ Tick
    BY <1>1, <2>2 DEF Configure, Tick, requestVars
  <2>3. CASE \/ Arrive \/ Authenticate \/ GetTier \/ Verify \/ Check \/ ReadSwitch
             \/ Direct \/ Return
    BY <1>1, <2>3 DEF Arrive, Authenticate, GetTier, Verify, Check, ReadSwitch,
                      Direct, Return, Finish, Continue
  <2>4. QED
    BY <1>1, <2>1, <2>2, <2>3 DEF Next, Handle
<1>2. TypeOK /\ [Next]_vars
        => [pc' = "panicked" /\ pc # "panicked" => Inverted]_vars
  BY <1>1
<1>3. QED
  BY <1>2, AdmissionTypeCorrect, PTL DEF Spec, PanicOnlyInverted
=============================================================================
