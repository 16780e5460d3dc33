------------------------------- MODULE Cockpit -------------------------------
(***************************************************************************)
(* The switches of the gateway (emergency cutoff, burst freeze, simulated  *)
(* jitter) and everybody who operates them: the standalone cockpits of     *)
(* src/cmd/tui/main.go, which see the gateway through polls and change it  *)
(* through POSTs, the cockpit of src/internal/tui/app.go embedded in the   *)
(* gateway, and other clients of handleAdminAPI (src/internal/proxy).      *)
(*                                                                         *)
(* A cockpit handles one message at a time (Update), so it is a sequential *)
(* process; the handlers it waits for run concurrently with everybody      *)
(* else's.  A POST whose answer does not come within the client's timeout  *)
(* is reported as failed, but may still be handled later.                  *)
(*                                                                         *)
(* The kill switch, the third modal, is the subject of KeyStore; here it   *)
(* opens and closes its modal.  Audit records and events of a command are  *)
(* left out.                                                               *)
(***************************************************************************)
EXTENDS Naturals, FiniteSets

CONSTANTS Remotes,        \* standalone cockpits
          Embedded,       \* the cockpit inside the gateway
          JitterDefault,  \* cfg.Upstream.Jitter.Enabled
          MaxPresses,     \* bound: modals opened, jitter keys, API calls
          MaxMoves,       \* bound: state changes of the breaker
          MaxLate         \* bound: POSTs whose sender no longer waits

ASSUME CockpitAssumption ==
    /\ Embedded \notin Remotes
    /\ JitterDefault \in {"on", "off"}
    /\ {MaxPresses, MaxMoves, MaxLate} \subseteq Nat

VARIABLES cutoff,    \* circuitBreaker.emergencyCutoff, "on" or "off"
          frozen,    \* limiter.globalBurstFreeze
          jitter,    \* gp.jitterOverride; "default" is -1
          breaker,   \* circuitBreaker.state
          modal,     \* m.modal.Type of each cockpit
          stage,     \* what each cockpit is doing
          command,   \* the command it waits for
          late,      \* POSTs under way that nobody waits for
          status,    \* the answer of GET /panic/status, as far as it is built
          view,      \* cbState, burstFrozen, jitterActive of each remote
          presses,   \* history: counts for the bounds
          moves,
          opens,     \* history: how often each modal was opened
          stores     \* history: how often a cockpit's command was stored

switches == <<cutoff, frozen, jitter>>
counts == <<presses, moves, opens, stores>>
vars == <<switches, breaker, modal, stage, command, late, status, view, counts>>

Operators == Remotes \cup {Embedded}
None == "none"
Modals == {"kill", "frozen", "cutoff"}
CircuitState == {"CLOSED", "HALF-OPEN", "OPEN"}
Positions == {"on", "off"}
Flip(p) == IF p = "on" THEN "off" ELSE "on"
EmergencyCutoff == "EMERGENCY CUTOFF"

\* A body {} asks for a toggle; every other body carries the value to set.
\* POSTs under way that nobody waits for may ask for the same: a number tells
\* them apart.
Commands == [switch : {"cutoff", "frozen", "jitter"},
             value : Positions \cup {"toggle"}, by : {"cockpit", "api"}, nr : 0..MaxLate]
NoCommand == [switch |-> None, value |-> "off", by |-> None, nr |-> 0]

\* The stages of a remote's poll, in the order the status handler reads.
Reads == <<"load", "state", "cutoff", "frozen", "jitter", "decode">>

NoStatus == [cut |-> "off", cb |-> "CLOSED", cutoff |-> "off",
             frozen |-> "off", jitter |-> "off"]

IsJitterActive == IF jitter = "default" THEN JitterDefault ELSE jitter

Init ==
    /\ cutoff = "off" /\ frozen = "off" /\ jitter = "default"
    /\ breaker = "CLOSED"
    /\ modal = [c \in Operators |-> None]
    /\ stage = [c \in Operators |-> "idle"]
    /\ command = [c \in Operators |-> NoCommand]
    /\ late = {}
    /\ status = [c \in Remotes |-> NoStatus]
    /\ view = [c \in Remotes |-> [cb |-> "CLOSED", frozen |-> "off",
                                  jitter |-> "off"]]
    /\ presses = 0 /\ moves = 0
    /\ opens = [t \in Modals |-> 0]
    /\ stores = [t \in Modals |-> 0]

FreeNr == CHOOSE n \in 1..MaxLate : \A m \in late : m.nr # n

Press == presses < MaxPresses /\ presses' = presses + 1

-----------------------------------------------------------------------------
(* Keys *)

\* ctrl+k, ctrl+b, ctrl+u, when no modal is active
Open(c, t) ==
    /\ stage[c] = "idle" /\ modal[c] = None
    /\ Press
    /\ modal' = [modal EXCEPT ![c] = t]
    /\ opens' = [opens EXCEPT ![t] = @ + 1]
    /\ UNCHANGED <<switches, breaker, stage, command, late, status, view,
                   moves, stores>>

\* n, esc
Cancel(c) ==
    /\ stage[c] = "idle" /\ modal[c] # None
    /\ modal' = [modal EXCEPT ![c] = None]
    /\ UNCHANGED <<switches, breaker, stage, command, late, status, view, counts>>

Send(c, switch, value) ==
    /\ command' = [command EXCEPT ![c] =
                     [switch |-> switch, value |-> value, by |-> "cockpit", nr |-> 0]]
    /\ stage' = [stage EXCEPT ![c] = "wait"]

\* executeRemoteModal: the freeze is flipped in the view before it is posted,
\* the cutoff is derived from what the cockpit shows of the breaker.
RemoteAction(c) ==
    \/ modal[c] = "kill" /\ UNCHANGED <<command, stage, view>>
    \/ /\ modal[c] = "frozen"
       /\ view' = [view EXCEPT ![c].frozen = Flip(@)]
       /\ Send(c, "frozen", Flip(view[c].frozen))
    \/ /\ modal[c] = "cutoff"
       /\ Send(c, "cutoff", IF view[c].cb # "OPEN" THEN "on" ELSE "off")
       /\ UNCHANGED view

\* executeModalAction: the flag is read here and stored by a later step.
EmbeddedAction(c) ==
    /\ UNCHANGED view
    /\ \/ modal[c] = "kill" /\ UNCHANGED <<command, stage>>
       \/ modal[c] = "frozen" /\ Send(c, "frozen", Flip(frozen))
       \/ modal[c] = "cutoff" /\ Send(c, "cutoff", Flip(cutoff))

\* Slip: the modal stays active after its action.
ConfirmKeepsModal(c) ==
    /\ stage[c] = "idle" /\ modal[c] # None
    /\ IF c = Embedded THEN EmbeddedAction(c) ELSE RemoteAction(c)
    /\ UNCHANGED <<modal, switches, breaker, late, status, counts>>

\* y, enter: the action, then modal.Close
Confirm(c) ==
    /\ stage[c] = "idle" /\ modal[c] # None
    /\ IF c = Embedded THEN EmbeddedAction(c) ELSE RemoteAction(c)
    /\ modal' = [modal EXCEPT ![c] = None]
    /\ UNCHANGED <<switches, breaker, late, status, counts>>

\* l: toggleRemoteJitter, or proxy.ToggleJitter from the embedded cockpit
ToggleJitter(c) ==
    /\ stage[c] = "idle" /\ modal[c] = None
    /\ Press
    /\ Send(c, "jitter", "toggle")
    /\ UNCHANGED <<switches, breaker, modal, late, status, view, moves, opens,
                   stores>>

-----------------------------------------------------------------------------
(* The admin handlers *)

\* Another client posts to the panic endpoints.
ApiPost(switch, value) ==
    /\ value = "toggle" => switch = "jitter"
    /\ Cardinality(late) < MaxLate
    /\ Press
    /\ late' = late \cup {[switch |-> switch, value |-> value, by |-> "api", nr |-> FreeNr]}
    /\ UNCHANGED <<switches, breaker, modal, stage, command, status, view,
                   moves, opens, stores>>

\* ToggleJitter of the proxy loads the override ...
Loaded(m) == [m EXCEPT !.value = Flip(IsJitterActive)]

\* ... and stores the new state, as the other handlers store theirs.
StoreSwitch(m) ==
    /\ cutoff' = IF m.switch = "cutoff" THEN m.value ELSE cutoff
    /\ frozen' = IF m.switch = "frozen" THEN m.value ELSE frozen
    /\ jitter' = IF m.switch = "jitter" THEN m.value ELSE jitter
    /\ stores' = IF m.by = "cockpit" /\ m.switch \in Modals
                   THEN [stores EXCEPT ![m.switch] = @ + 1] ELSE stores

Load(c) ==
    /\ stage[c] = "wait" /\ command[c].value = "toggle"
    /\ command' = [command EXCEPT ![c] = Loaded(@)]
    /\ UNCHANGED <<switches, breaker, modal, stage, late, status, view, counts>>

Store(c) ==
    /\ stage[c] = "wait" /\ command[c].value # "toggle"
    /\ StoreSwitch(command[c])
    /\ stage' = [stage EXCEPT ![c] = "stored"]
    /\ UNCHANGED <<breaker, modal, command, late, status, view, presses, moves,
                   opens>>

LoadLate(m) ==
    /\ m \in late /\ m.value = "toggle"
    /\ late' = (late \ {m}) \cup {Loaded(m)}
    /\ UNCHANGED <<switches, breaker, modal, stage, command, status, view, counts>>

StoreLate(m) ==
    /\ m \in late /\ m.value # "toggle"
    /\ StoreSwitch(m)
    /\ late' = late \ {m}
    /\ UNCHANGED <<breaker, modal, stage, command, status, view, presses, moves,
                   opens>>

-----------------------------------------------------------------------------
(* Answers *)

Finish(c) ==
    /\ stage' = [stage EXCEPT ![c] = "idle"]
    /\ command' = [command EXCEPT ![c] = NoCommand]
    /\ UNCHANGED <<switches, breaker, modal, status, counts>>

\* err == nil: the view is set to what was answered or asked for.  An answer
\* that cannot be decoded leaves JitterActive false.
Reply(c) ==
    /\ stage[c] = "stored"
    /\ LET m == command[c] IN
         CASE c = Embedded \/ m.switch = "frozen" -> UNCHANGED view
           [] m.switch = "jitter" ->
                \E shown \in {m.value, "off"} : view' = [view EXCEPT ![c].jitter = shown]
           [] m.switch = "cutoff" ->
                view' = [view EXCEPT ![c].cb = IF m.value = "on" THEN "OPEN" ELSE "CLOSED"]
    /\ UNCHANGED late
    /\ Finish(c)

\* err # nil: the request or its answer was lost, or the client timed out and
\* the request will still be handled.
Fail(c) ==
    /\ c # Embedded /\ stage[c] \in {"wait", "stored"}
    /\ view' = IF command[c].switch = "jitter"
                 THEN [view EXCEPT ![c].jitter = Flip(@)] ELSE view
    /\ \/ UNCHANGED late
       \/ /\ stage[c] = "wait" /\ Cardinality(late) < MaxLate
          /\ late' = late \cup {[command[c] EXCEPT !.nr = FreeNr]}
    /\ Finish(c)

-----------------------------------------------------------------------------
(* Polls of the remote cockpits, also while a modal is active *)

\* remoteTickMsg and a successful GET /metrics
BeginPoll(c) ==
    /\ stage[c] = "idle"
    /\ stage' = [stage EXCEPT ![c] = Reads[1]]
    /\ status' = [status EXCEPT ![c] = NoStatus]
    /\ UNCHANGED <<switches, breaker, modal, command, late, view, counts>>

\* GET /panic/status reads one value after the other.  GetState looks at the
\* cutoff before it takes the lock.
ReadStatus(c, i) ==
    /\ stage[c] = Reads[i]
    /\ status' = [status EXCEPT ![c] =
         CASE Reads[i] = "load" -> [@ EXCEPT !.cut = cutoff]
           [] Reads[i] = "state" ->
                [@ EXCEPT !.cb = IF status[c].cut = "on" THEN "OPEN" ELSE breaker]
           [] Reads[i] = "cutoff" -> [@ EXCEPT !.cutoff = cutoff]
           [] Reads[i] = "frozen" -> [@ EXCEPT !.frozen = frozen]
           [] Reads[i] = "jitter" -> [@ EXCEPT !.jitter = IsJitterActive]]
    /\ stage' = [stage EXCEPT ![c] = Reads[i + 1]]
    /\ UNCHANGED <<switches, breaker, modal, command, late, view, counts>>

Decoded(c) == [cb |-> IF status[c].cutoff = "on" THEN EmergencyCutoff ELSE status[c].cb,
               frozen |-> status[c].frozen, jitter |-> status[c].jitter]

\* Slip: the poll leaves the freeze to the key that toggles it.
DecodeKeepsFrozen(c) ==
    /\ stage[c] = "decode"
    /\ view' = [view EXCEPT ![c] = [Decoded(c) EXCEPT !.frozen = view[c].frozen]]
    /\ stage' = [stage EXCEPT ![c] = "idle"]
    /\ status' = [status EXCEPT ![c] = NoStatus]
    /\ UNCHANGED <<switches, breaker, modal, command, late, counts>>

Decode(c) ==
    /\ stage[c] = "decode"
    /\ view' = [view EXCEPT ![c] = Decoded(c)]
    /\ stage' = [stage EXCEPT ![c] = "idle"]
    /\ status' = [status EXCEPT ![c] = NoStatus]
    /\ UNCHANGED <<switches, breaker, modal, command, late, counts>>

\* The answer is lost or does not decode.
FailPoll(c) ==
    /\ stage[c] = "decode"
    /\ stage' = [stage EXCEPT ![c] = "idle"]
    /\ status' = [status EXCEPT ![c] = NoStatus]
    /\ UNCHANGED <<switches, breaker, modal, command, late, view, counts>>

\* Traffic moves the breaker (see CircuitBreaker).
MoveBreaker(s) ==
    /\ moves < MaxMoves
    /\ <<breaker, s>> \in {<<"CLOSED", "OPEN">>, <<"OPEN", "HALF-OPEN">>,
                           <<"HALF-OPEN", "CLOSED">>, <<"HALF-OPEN", "OPEN">>}
    /\ breaker' = s
    /\ moves' = moves + 1
    /\ UNCHANGED <<switches, modal, stage, command, late, status, view, presses,
                   opens, stores>>

Keys(c) ==
    \/ \E t \in Modals : Open(c, t)
    \/ Cancel(c)
    \/ Confirm(c)
    \/ ToggleJitter(c)

Next ==
    \/ \E c \in Operators : Keys(c) \/ Load(c) \/ Store(c) \/ Reply(c) \/ Fail(c)
    \/ \E c \in Remotes : \/ BeginPoll(c) \/ Decode(c) \/ FailPoll(c)
                          \/ \E i \in 1..5 : ReadStatus(c, i)
    \/ \E m \in late : LoadLate(m) \/ StoreLate(m)
    \/ \E s \in {"cutoff", "frozen", "jitter"}, v \in Positions \cup {"toggle"} :
         ApiPost(s, v)
    \/ \E s \in CircuitState : MoveBreaker(s)

Spec == Init /\ [][Next]_vars

\* Handlers run, calls of a cockpit return, its ticker ticks, and the gateway
\* does not stay unreachable for good.
Fairness ==
    /\ \A c \in Operators : /\ WF_vars(Load(c) \/ Store(c))
                            /\ WF_vars(Reply(c) \/ Fail(c))
    /\ \A c \in Remotes : /\ WF_vars(BeginPoll(c))
                          /\ WF_vars(\E i \in 1..5 : ReadStatus(c, i))
                          /\ SF_vars(Decode(c))
    /\ WF_vars(\E m \in late : LoadLate(m) \/ StoreLate(m))

FairSpec == Spec /\ Fairness

-----------------------------------------------------------------------------
(* Properties *)

\* TWO-STEP PANIC SAFETY PROTOCOL (modals.go): however its POST is delayed,
\* a modal that was opened once changes the gateway at most once.
TwoStep == \A t \in {"cutoff", "frozen"} : stores[t] <= opens[t]

Shown == [cb |-> IF cutoff = "on" THEN EmergencyCutoff ELSE breaker,
          frozen |-> frozen, jitter |-> IsJitterActive]

\* Whatever a cockpit guessed after a failed POST or read from a status that
\* changed under way, once keys, calls and breaker come to rest every cockpit
\* shows what the gateway does.
ViewSettles == <>[](\A c \in Remotes : view[c] = Shown)
=============================================================================
