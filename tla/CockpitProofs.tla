--------------------------- MODULE CockpitProofs ---------------------------
(***************************************************************************)
(* A modal changes the gateway at most once, for any number of cockpits,   *)
(* keys, API clients and POSTs that arrive after their sender gave up.     *)
(*                                                                         *)
(* What is still outstanding for a switch is a modal that is open, a       *)
(* command a cockpit waits for or a POST nobody waits for any more.  Keys, *)
(* answers, failures and timeouts only turn one of these into another or   *)
(* end it; so stores and outstanding commands stay within the modals that  *)
(* were opened.                                                            *)
(***************************************************************************)
EXTENDS Cockpit, FiniteSetTheorems, TLAPS

Stages == {"idle", "wait", "stored", "load", "state", "cutoff", "frozen", "jitter", "decode"}

CockpitShape ==
    /\ modal \in [Operators -> Modals \cup {None}]
    /\ stage \in [Operators -> Stages]
    /\ command \in [Operators -> Commands \cup {NoCommand}]
    /\ late \subseteq Commands /\ IsFiniteSet(late)
    /\ opens \in [Modals -> Nat]
    /\ stores \in [Modals -> Nat]

\* A waiting cockpit has a command.
WaitsForCommand == \A c \in Operators : stage[c] = "wait" => command[c] \in Commands

Panics == {"cutoff", "frozen"}

\* What may still change switch t in the name of a modal
Outstanding(t) ==
    {<<"modal", c>> : c \in {d \in Operators : modal[d] = t}}
    \cup {<<"wait", c>> : c \in {d \in Operators : stage[d] = "wait" /\ command[d].switch = t}}
    \cup {<<"late", m>> : m \in {n \in late : n.switch = t /\ n.by = "cockpit"}}

\* Stores s and what is outstanding, S, are covered by the modals opened, o.
Covered(S, s, o) == IsFiniteSet(S) /\ s + Cardinality(S) <= o

CommandsCovered == \A t \in Panics : Covered(Outstanding(t), stores[t], opens[t])

CockpitInv == CockpitShape /\ WaitsForCommand /\ CommandsCovered

-----------------------------------------------------------------------------
(* Counting                                                                *)

LEMMA CoveredFewer ==
    ASSUME NEW S, NEW S2 \in SUBSET S, NEW s \in Nat, NEW o \in Nat, Covered(S, s, o)
    PROVE  Covered(S2, s, o)
<1>1. IsFiniteSet(S) /\ s + Cardinality(S) <= o
  BY DEF Covered
<1>2. IsFiniteSet(S2) /\ Cardinality(S2) <= Cardinality(S)
  BY <1>1, FS_Subset
<1>3. Cardinality(S) \in Nat /\ Cardinality(S2) \in Nat
  BY <1>1, <1>2, FS_CardinalityType
<1>4. s + Cardinality(S2) <= o
  BY <1>1, <1>2, <1>3
<1> QED
  BY <1>2, <1>4 DEF Covered

LEMMA CoveredStored ==
    ASSUME NEW S, NEW x \in S, NEW s \in Nat, NEW o \in Nat, Covered(S, s, o)
    PROVE  Covered(S \ {x}, s + 1, o)
<1>1. IsFiniteSet(S) /\ s + Cardinality(S) <= o
  BY DEF Covered
<1>2. IsFiniteSet(S \ {x}) /\ Cardinality(S \ {x}) = Cardinality(S) - 1
  BY <1>1, FS_RemoveElement
<1>3. Cardinality(S) \in Nat
  BY <1>1, FS_CardinalityType
<1>4. (s + 1) + Cardinality(S \ {x}) <= o
  BY <1>1, <1>2, <1>3
<1> QED
  BY <1>2, <1>4 DEF Covered

LEMMA CoveredMore ==
    ASSUME NEW S, NEW y, NEW s \in Nat, NEW o \in Nat, Covered(S, s, o)
    PROVE  Covered(S \cup {y}, s, o + 1)
<1>1. IsFiniteSet(S) /\ s + Cardinality(S) <= o
  BY DEF Covered
<1>2. /\ IsFiniteSet(S \cup {y})
      /\ Cardinality(S \cup {y}) = IF y \in S THEN Cardinality(S) ELSE Cardinality(S) + 1
  BY <1>1, FS_AddElement, Zenon
<1>3. Cardinality(S) \in Nat
  BY <1>1, FS_CardinalityType
<1>4. s + Cardinality(S \cup {y}) <= o + 1
  BY <1>1, <1>2, <1>3
<1> QED
  BY <1>2, <1>4 DEF Covered

\* One outstanding command takes the place of another.
LEMMA CoveredExchange ==
    ASSUME NEW S, NEW x \in S, NEW y, NEW s \in Nat, NEW o \in Nat, Covered(S, s, o)
    PROVE  Covered((S \ {x}) \cup {y}, s, o)
<1> DEFINE R == S \ {x}
           s1 == s + 1
<1>1. Covered(R, s1, o) /\ s1 \in Nat
  BY CoveredStored
<1> HIDE DEF R, s1
<1>2. Covered(R \cup {y}, s1, o + 1)
  BY <1>1, CoveredMore
<1>3. IsFiniteSet(R \cup {y}) /\ (s + 1) + Cardinality(R \cup {y}) <= o + 1
  BY <1>2 DEF Covered, s1
<1>4. Cardinality(R \cup {y}) \in Nat
  BY <1>3, FS_CardinalityType
<1>5. s + Cardinality(R \cup {y}) <= o
  BY <1>3, <1>4
<1> QED
  BY <1>3, <1>5 DEF Covered, R

\* There is a number for one more POST.
LEMMA NumberLeft ==
    ASSUME CockpitShape, Cardinality(late) < MaxLate
    PROVE  FreeNr \in 1..MaxLate
<1>1. IsFiniteSet(late) /\ MaxLate \in Nat
  BY CockpitAssumption DEF CockpitShape
<1>2. Cardinality(late) \in Nat
  BY <1>1, FS_CardinalityType
<1>3. IsFiniteSet(1..MaxLate) /\ Cardinality(1..MaxLate) = MaxLate
  <2>1. Cardinality(1..MaxLate) = IF 1 > MaxLate THEN 0 ELSE MaxLate - 1 + 1
    BY <1>1, FS_Interval
  <2> QED
    BY <1>1, <1>2, <2>1, FS_Interval
<1>4. ASSUME \A n \in 1..MaxLate : \E m \in late : m.nr = n
      PROVE  FALSE
  <2> DEFINE f == [m \in late |-> IF m.nr \in 1..MaxLate THEN m.nr ELSE 1]
  <2>1. 1 \in 1..MaxLate
    BY <1>1, <1>2
  <2>2. f \in Surjection(late, 1..MaxLate)
    <3>1. f \in [late -> 1..MaxLate]
      BY <2>1
    <3>2. \A n \in 1..MaxLate : \E m \in late : f[m] = n
      BY <1>4
    <3> QED
      BY <3>1, <3>2 DEF Surjection
  <2> HIDE DEF f
  <2>3. Cardinality(1..MaxLate) <= Cardinality(late)
    BY <1>1, <2>2, FS_Surjection
  <2> QED
    BY <1>1, <1>2, <1>3, <2>3
<1>5. \E n \in 1..MaxLate : \A m \in late : m.nr # n
  BY <1>4
<1> QED
  BY <1>5 DEF FreeNr

-----------------------------------------------------------------------------
(* Steps                                                                   *)

\* What one step does to the commands outstanding for switch t
CoverStep(t) ==
    \/ /\ Outstanding(t)' \subseteq Outstanding(t)
       /\ stores'[t] = stores[t] /\ opens'[t] = opens[t]
    \/ \E x \in Outstanding(t) : \E y :
       /\ Outstanding(t)' \subseteq (Outstanding(t) \ {x}) \cup {y}
       /\ stores'[t] = stores[t] /\ opens'[t] = opens[t]
    \/ \E y :
       /\ Outstanding(t)' \subseteq Outstanding(t) \cup {y}
       /\ stores'[t] = stores[t] /\ opens'[t] = opens[t] + 1
    \/ \E x \in Outstanding(t) :
       /\ Outstanding(t)' \subseteq Outstanding(t) \ {x}
       /\ stores'[t] = stores[t] + 1 /\ opens'[t] = opens[t]

LEMMA CoverKept ==
    ASSUME CockpitInv, NEW t \in Panics, CoverStep(t)
    PROVE  Covered(Outstanding(t)', stores'[t], opens'[t])
<1> DEFINE S == Outstanding(t)
           S2 == Outstanding(t)'
           s == stores[t]
           o == opens[t]
<1>1. s \in Nat /\ o \in Nat /\ Covered(S, s, o)
  BY DEF CockpitInv, CockpitShape, CommandsCovered, Panics, Modals
<1>2. CASE S2 \subseteq S /\ stores'[t] = s /\ opens'[t] = o
  <2> HIDE DEF S, S2, s, o
  <2>1. Covered(S2, s, o)
    BY <1>1, <1>2, CoveredFewer
  <2> QED
    BY <1>2, <2>1 DEF S2
<1>3. ASSUME NEW x \in S, NEW y, S2 \subseteq (S \ {x}) \cup {y}, stores'[t] = s, opens'[t] = o
      PROVE  Covered(S2, stores'[t], opens'[t])
  <2> DEFINE R == (S \ {x}) \cup {y}
  <2> HIDE DEF S, S2, s, o
  <2>1. Covered(R, s, o)
    <3>1. x \in S /\ s \in Nat /\ o \in Nat /\ Covered(S, s, o)
      BY <1>1, <1>3
    <3> QED
      BY <3>1, CoveredExchange, Zenon
  <2> HIDE DEF R
  <2>2. Covered(S2, s, o)
    <3>1. S2 \in SUBSET R
      BY <1>3 DEF R
    <3> QED
      BY <1>1, <2>1, <3>1, CoveredFewer
  <2> QED
    BY <1>3, <2>2
<1>4. ASSUME NEW y, S2 \subseteq S \cup {y}, stores'[t] = s, opens'[t] = o + 1
      PROVE  Covered(S2, stores'[t], opens'[t])
  <2> DEFINE R == S \cup {y}
             o1 == o + 1
  <2> HIDE DEF S, S2, s, o
  <2>1. Covered(R, s, o1) /\ o1 \in Nat
    <3>1. o1 \in Nat
      BY <1>1
    <3>2. Covered(R, s, o1)
      BY <1>1, CoveredMore, Zenon
    <3> QED
      BY <3>1, <3>2
  <2>2. S2 \in SUBSET R
    BY <1>4
  <2>3. stores'[t] = s /\ opens'[t] = o1
    BY <1>4
  <2> HIDE DEF R, o1
  <2>4. Covered(S2, s, o1)
    BY <1>1, <2>1, <2>2, CoveredFewer
  <2> QED
    BY <2>3, <2>4
<1>5. ASSUME NEW x \in S, S2 \subseteq S \ {x}, stores'[t] = s + 1, opens'[t] = o
      PROVE  Covered(S2, stores'[t], opens'[t])
  <2> DEFINE R == S \ {x}
             s1 == s + 1
  <2> HIDE DEF S, S2, s, o
  <2>1. Covered(R, s1, o) /\ s1 \in Nat
    <3>1. s1 \in Nat
      BY <1>1
    <3>2. x \in S
      BY <1>5
    <3>3. Covered(R, s1, o)
      BY <1>1, <3>2, CoveredStored, Zenon
    <3> QED
      BY <3>1, <3>3
  <2>2. S2 \in SUBSET R
    BY <1>5
  <2>3. stores'[t] = s1 /\ opens'[t] = o
    BY <1>5
  <2> HIDE DEF R, s1
  <2>4. Covered(S2, s1, o)
    BY <1>1, <2>1, <2>2, CoveredFewer
  <2> QED
    BY <2>3, <2>4
<1> QED
  BY <1>2, <1>3, <1>4, <1>5 DEF CoverStep

LEMMA StepKeepsInv ==
    ASSUME CockpitInv, CockpitShape', WaitsForCommand', \A t \in Panics : CoverStep(t)
    PROVE  CockpitInv'
<1>1. CommandsCovered'
  BY CoverKept DEF CommandsCovered
<1> QED
  BY <1>1 DEF CockpitInv

\* Steps after which no modal is newly open, no cockpit newly waits and no
\* POST is new
LEMMA QuietStep ==
    ASSUME CockpitInv, CockpitShape',
           UNCHANGED <<opens, stores>>, late' = late,
           \A c \in Operators : modal'[c] \in {modal[c], None},
           \A c \in Operators : stage'[c] = "wait" => stage[c] = "wait" /\ command'[c] = command[c]
    PROVE  CockpitInv'
<1>1. WaitsForCommand'
  BY DEF CockpitInv, WaitsForCommand
<1>2. ASSUME NEW t \in Panics
      PROVE  CoverStep(t)
  <2>1. t # None
    BY DEF Panics, None
  <2>2. Outstanding(t)' \subseteq Outstanding(t)
    BY <2>1 DEF Outstanding
  <2> QED
    BY <2>2 DEF CoverStep
<1> QED
  BY <1>1, <1>2, StepKeepsInv

LEMMA FlipType == \A p : Flip(p) \in Positions
BY DEF Flip, Positions

LEMMA NoCommandFacts == NoCommand.switch = None /\ NoCommand.value = "off" /\ NoCommand \notin Commands
BY DEF NoCommand, Commands, None

LEMMA LoadedFacts ==
    ASSUME NEW m \in Commands
    PROVE  Loaded(m) \in Commands /\ Loaded(m).switch = m.switch /\ Loaded(m).by = m.by
BY FlipType DEF Loaded, Commands

LEMMA CockpitInitially == Init => CockpitInv
<1> SUFFICES ASSUME Init PROVE CockpitInv
  OBVIOUS
<1>1. IsFiniteSet({}) /\ Cardinality({}) = 0
  BY FS_EmptySet
<1>2. CockpitShape /\ WaitsForCommand
  BY <1>1 DEF Init, CockpitShape, WaitsForCommand, Stages
<1>3. ASSUME NEW t \in Panics
      PROVE  Covered(Outstanding(t), stores[t], opens[t])
  <2>1. Outstanding(t) = {}
    BY DEF Init, Outstanding, Panics, None
  <2>2. stores[t] = 0 /\ opens[t] = 0
    BY DEF Init, Panics, Modals
  <2> QED
    BY <1>1, <2>1, <2>2 DEF Covered
<1> QED
  BY <1>2, <1>3 DEF CockpitInv, CommandsCovered

\* y, enter: the modal becomes a command, or, of the kill switch, is closed.
LEMMA ConfirmStep ==
    ASSUME CockpitInv, NEW c \in Operators, Confirm(c)
    PROVE  CockpitInv'
<1>0. CockpitShape /\ WaitsForCommand
  BY DEF CockpitInv
<1>1. /\ stage[c] = "idle" /\ modal' = [modal EXCEPT ![c] = None]
      /\ UNCHANGED <<late, opens, stores>>
  BY DEF Confirm, counts
<1>2. \/ UNCHANGED <<command, stage>>
      \/ modal[c] \in Panics /\ \E v \in Positions : Send(c, modal[c], v)
  BY FlipType DEF Confirm, EmbeddedAction, RemoteAction, Panics, Positions
<1>3. CASE UNCHANGED <<command, stage>>
  <2>1. CockpitShape'
    BY <1>0, <1>1, <1>3 DEF CockpitShape
  <2> QED
    BY <1>0, <1>1, <1>3, <2>1, QuietStep DEF CockpitShape
<1>4. ASSUME modal[c] \in Panics, NEW v \in Positions, Send(c, modal[c], v)
      PROVE  CockpitInv'
  <2> DEFINE new == [switch |-> modal[c], value |-> v, by |-> "cockpit", nr |-> 0]
  <2>1. new \in Commands /\ new.switch = modal[c]
    BY <1>4, CockpitAssumption DEF Commands, Panics
  <2>2. command' = [command EXCEPT ![c] = new] /\ stage' = [stage EXCEPT ![c] = "wait"]
    BY <1>4 DEF Send
  <2> HIDE DEF new
  <2>3. CockpitShape' /\ WaitsForCommand'
    BY <1>0, <1>1, <2>1, <2>2 DEF CockpitShape, WaitsForCommand, Stages
  <2>4. ASSUME NEW t \in Panics
        PROVE  CoverStep(t)
    <3> DEFINE x == <<"modal", c>>
               y == <<"wait", c>>
    <3>1. CASE t = modal[c]
      <4>1. x \in Outstanding(t)
        BY <3>1 DEF Outstanding
      <4>2. Outstanding(t)' \subseteq (Outstanding(t) \ {x}) \cup {y}
        BY <1>0, <1>1, <2>2, <3>1 DEF Outstanding, CockpitShape, Panics, None
      <4> HIDE DEF x, y
      <4> QED
        BY <1>1, <4>1, <4>2 DEF CoverStep
    <3>2. CASE t # modal[c]
      <4>1. Outstanding(t)' \subseteq Outstanding(t)
        BY <1>0, <1>1, <2>1, <2>2, <3>2 DEF Outstanding, CockpitShape, Panics, None
      <4> QED
        BY <1>1, <4>1 DEF CoverStep
    <3> QED
      BY <3>1, <3>2
  <2> QED
    BY <2>3, <2>4, StepKeepsInv
<1> QED
  BY <1>2, <1>3, <1>4

\* A store: of the request m, which x stands for, if a modal sent it.
LEMMA StoredCover ==
    ASSUME CockpitInv, NEW m \in Commands, StoreSwitch(m), opens' = opens, NEW x,
           \A t \in Panics : Outstanding(t)' \subseteq Outstanding(t) \ {x},
           \A t \in Panics : m.switch = t /\ m.by = "cockpit" => x \in Outstanding(t)
    PROVE  stores' \in [Modals -> Nat] /\ \A t \in Panics : CoverStep(t)
<1>1. stores \in [Modals -> Nat] /\ Panics \subseteq Modals
  BY DEF CockpitInv, CockpitShape, Panics, Modals
<1>2. stores' \in [Modals -> Nat]
  BY <1>1 DEF StoreSwitch
<1>3. ASSUME NEW t \in Panics
      PROVE  CoverStep(t)
  <2>1. CASE m.switch = t /\ m.by = "cockpit"
    <3>1. stores'[t] = stores[t] + 1
      BY <1>1, <2>1 DEF StoreSwitch
    <3> QED
      BY <2>1, <3>1 DEF CoverStep
  <2>2. CASE ~(m.switch = t /\ m.by = "cockpit")
    <3>1. stores'[t] = stores[t]
      BY <1>1, <2>2 DEF StoreSwitch
    <3>2. Outstanding(t)' \subseteq Outstanding(t)
      OBVIOUS
    <3> QED
      BY <3>1, <3>2 DEF CoverStep
  <2> QED
    BY <2>1, <2>2
<1> QED
  BY <1>2, <1>3

LEMMA StoreStep ==
    ASSUME CockpitInv, NEW c \in Operators, Store(c)
    PROVE  CockpitInv'
<1>0. CockpitShape /\ WaitsForCommand
  BY DEF CockpitInv
<1>1. /\ stage[c] = "wait" /\ stage' = [stage EXCEPT ![c] = "stored"]
      /\ StoreSwitch(command[c]) /\ UNCHANGED <<modal, command, late, opens>>
      /\ command[c] \in Commands
  BY <1>0 DEF Store, WaitsForCommand
<1> DEFINE x == <<"wait", c>>
<1>2. \A t \in Panics : Outstanding(t)' \subseteq Outstanding(t) \ {x}
  BY <1>0, <1>1 DEF Outstanding, CockpitShape
<1>3. \A t \in Panics : command[c].switch = t /\ command[c].by = "cockpit" => x \in Outstanding(t)
  BY <1>1 DEF Outstanding
<1> HIDE DEF x
<1>4. stores' \in [Modals -> Nat] /\ \A t \in Panics : CoverStep(t)
  BY <1>1, <1>2, <1>3, StoredCover
<1>5. CockpitShape' /\ WaitsForCommand'
  BY <1>0, <1>1, <1>4 DEF CockpitShape, WaitsForCommand, Stages
<1> QED
  BY <1>4, <1>5, StepKeepsInv

LEMMA StoreLateStep ==
    ASSUME CockpitInv, NEW m \in late, StoreLate(m)
    PROVE  CockpitInv'
<1>0. CockpitShape /\ WaitsForCommand
  BY DEF CockpitInv
<1>1. /\ late' = late \ {m} /\ StoreSwitch(m) /\ UNCHANGED <<modal, stage, command, opens>>
      /\ m \in Commands
  BY <1>0 DEF StoreLate, CockpitShape
<1> DEFINE x == <<"late", m>>
<1>2. \A t \in Panics : Outstanding(t)' \subseteq Outstanding(t) \ {x}
  BY <1>0, <1>1 DEF Outstanding, CockpitShape
<1>3. \A t \in Panics : m.switch = t /\ m.by = "cockpit" => x \in Outstanding(t)
  BY <1>1 DEF Outstanding
<1> HIDE DEF x
<1>4. stores' \in [Modals -> Nat] /\ \A t \in Panics : CoverStep(t)
  BY <1>1, <1>2, <1>3, StoredCover
<1>5. IsFiniteSet(late')
  BY <1>0, <1>1, FS_RemoveElement DEF CockpitShape
<1>6. CockpitShape' /\ WaitsForCommand'
  BY <1>0, <1>1, <1>4, <1>5 DEF CockpitShape, WaitsForCommand
<1> QED
  BY <1>4, <1>6, StepKeepsInv

\* ToggleJitter of the proxy, for a sender who has given up
LEMMA LoadLateStep ==
    ASSUME CockpitInv, NEW m \in late, LoadLate(m)
    PROVE  CockpitInv'
<1>0. CockpitShape /\ WaitsForCommand
  BY DEF CockpitInv
<1> DEFINE n == Loaded(m)
<1>1. /\ late' = (late \ {m}) \cup {n} /\ UNCHANGED <<modal, stage, command, opens, stores>>
      /\ n \in Commands /\ n.switch = m.switch /\ n.by = m.by
  BY <1>0, LoadedFacts DEF LoadLate, CockpitShape, counts
<1> HIDE DEF n
<1>2. IsFiniteSet(late')
  <2>1. IsFiniteSet(late \ {m})
    BY <1>0, FS_RemoveElement DEF CockpitShape
  <2> QED
    BY <1>1, <2>1, FS_AddElement
<1>3. CockpitShape' /\ WaitsForCommand'
  BY <1>0, <1>1, <1>2 DEF CockpitShape, WaitsForCommand
<1>4. ASSUME NEW t \in Panics
      PROVE  CoverStep(t)
  <2> DEFINE x == <<"late", m>>
             y == <<"late", n>>
  <2>1. CASE m.switch = t /\ m.by = "cockpit"
    <3>1. x \in Outstanding(t)
      BY <2>1 DEF Outstanding
    <3>2. Outstanding(t)' \subseteq (Outstanding(t) \ {x}) \cup {y}
      BY <1>1 DEF Outstanding
    <3> HIDE DEF x, y
    <3> QED
      BY <1>1, <3>1, <3>2 DEF CoverStep
  <2>2. CASE ~(m.switch = t /\ m.by = "cockpit")
    <3>1. Outstanding(t)' \subseteq Outstanding(t)
      BY <1>1, <2>2 DEF Outstanding
    <3> QED
      BY <1>1, <3>1 DEF CoverStep
  <2> QED
    BY <2>1, <2>2
<1> QED
  BY <1>3, <1>4, StepKeepsInv

\* The client gives up on a POST that may still be handled.
LEMMA FailStep ==
    ASSUME CockpitInv, NEW c \in Operators, Fail(c)
    PROVE  CockpitInv'
<1>0. CockpitShape /\ WaitsForCommand
  BY DEF CockpitInv
<1>1. /\ stage' = [stage EXCEPT ![c] = "idle"] /\ command' = [command EXCEPT ![c] = NoCommand]
      /\ UNCHANGED <<modal, opens, stores>>
  BY DEF Fail, Finish, counts
<1>2. CASE late' = late
  <2>1. CockpitShape'
    BY <1>0, <1>1, <1>2 DEF CockpitShape, Stages
  <2>2. /\ \A d \in Operators : modal'[d] \in {modal[d], None}
        /\ \A d \in Operators : stage'[d] = "wait" => stage[d] = "wait" /\ command'[d] = command[d]
    BY <1>0, <1>1 DEF CockpitShape
  <2> QED
    BY <1>1, <1>2, <2>1, <2>2, QuietStep
<1>3. CASE /\ stage[c] = "wait" /\ Cardinality(late) < MaxLate
           /\ late' = late \cup {[command[c] EXCEPT !.nr = FreeNr]}
  <2> DEFINE m == command[c]
             n == [m EXCEPT !.nr = FreeNr]
  <2>1. m \in Commands
    BY <1>0, <1>3 DEF WaitsForCommand
  <2>2. n \in Commands /\ n.switch = m.switch /\ n.by = m.by
    <3>1. FreeNr \in 0..MaxLate
      BY <1>0, <1>3, NumberLeft
    <3> QED
      BY <2>1, <3>1 DEF Commands
  <2>3. late' = late \cup {n}
    BY <1>3
  <2> HIDE DEF n
  <2>4. IsFiniteSet(late')
    BY <1>0, <2>3, FS_AddElement DEF CockpitShape
  <2>5. CockpitShape' /\ WaitsForCommand'
    BY <1>0, <1>1, <2>2, <2>3, <2>4 DEF CockpitShape, WaitsForCommand, Stages
  <2>6. ASSUME NEW t \in Panics
        PROVE  CoverStep(t)
    <3> DEFINE x == <<"wait", c>>
               y == <<"late", n>>
    <3>1. CASE m.switch = t
      <4>1. x \in Outstanding(t)
        BY <1>3, <3>1 DEF Outstanding
      <4>2. Outstanding(t)' \subseteq (Outstanding(t) \ {x}) \cup {y}
        BY <1>0, <1>1, <2>3 DEF Outstanding, CockpitShape
      <4> HIDE DEF x, y
      <4> QED
        BY <1>1, <4>1, <4>2 DEF CoverStep
    <3>2. CASE m.switch # t
      <4>1. Outstanding(t)' \subseteq Outstanding(t)
        BY <1>0, <1>1, <2>2, <2>3, <3>2 DEF Outstanding, CockpitShape
      <4> QED
        BY <1>1, <4>1 DEF CoverStep
    <3> QED
      BY <3>1, <3>2
  <2> QED
    BY <2>5, <2>6, StepKeepsInv
<1> QED
  BY <1>2, <1>3 DEF Fail

LEMMA OpenStep ==
    ASSUME CockpitInv, NEW c \in Operators, NEW t0 \in Modals, Open(c, t0)
    PROVE  CockpitInv'
<1>0. CockpitShape /\ WaitsForCommand
  BY DEF CockpitInv
<1>1. /\ modal' = [modal EXCEPT ![c] = t0] /\ opens' = [opens EXCEPT ![t0] = @ + 1]
      /\ UNCHANGED <<stage, command, late, stores>>
  BY DEF Open
<1>2. CockpitShape' /\ WaitsForCommand'
  BY <1>0, <1>1 DEF CockpitShape, WaitsForCommand
<1>3. ASSUME NEW t \in Panics
      PROVE  CoverStep(t)
  <2> DEFINE y == <<"modal", c>>
  <2>0. t \in Modals
    BY DEF Panics, Modals
  <2>1. CASE t = t0
    <3>1. Outstanding(t)' \subseteq Outstanding(t) \cup {y}
      BY <1>0, <1>1 DEF Outstanding, CockpitShape
    <3>2. opens'[t] = opens[t] + 1 /\ stores'[t] = stores[t]
      BY <1>0, <1>1, <2>0, <2>1 DEF CockpitShape
    <3> HIDE DEF y
    <3> QED
      BY <3>1, <3>2 DEF CoverStep
  <2>2. CASE t # t0
    <3>1. Outstanding(t)' \subseteq Outstanding(t)
      BY <1>0, <1>1, <2>2 DEF Outstanding, CockpitShape
    <3>2. opens'[t] = opens[t] /\ stores'[t] = stores[t]
      BY <1>0, <1>1, <2>0, <2>2 DEF CockpitShape
    <3> QED
      BY <3>1, <3>2 DEF CoverStep
  <2> QED
    BY <2>1, <2>2
<1> QED
  BY <1>2, <1>3, StepKeepsInv

\* Commands and POSTs that no modal stands behind
LEMMA OtherCommandStep ==
    ASSUME CockpitInv, CockpitShape', WaitsForCommand', UNCHANGED <<modal, opens, stores>>,
           \A c \in Operators : stage'[c] = "wait" =>
               \/ stage[c] = "wait" /\ command'[c].switch = command[c].switch
               \/ command'[c].switch = "jitter",
           \A m \in late' : m \in late \/ m.by = "api"
    PROVE  CockpitInv'
<1>1. ASSUME NEW t \in Panics
      PROVE  CoverStep(t)
  <2>1. Outstanding(t)' \subseteq Outstanding(t)
    BY DEF Outstanding, Panics
  <2> QED
    BY <2>1 DEF CoverStep
<1> QED
  BY <1>1, StepKeepsInv

LEMMA CockpitStepwise ==
    ASSUME CockpitInv, [Next]_vars
    PROVE  CockpitInv'
<1>0. CockpitShape /\ WaitsForCommand
  BY DEF CockpitInv
<1>1. ASSUME NEW c \in Operators, Cancel(c)
      PROVE  CockpitInv'
  <2>1. CockpitShape'
    BY <1>0, <1>1 DEF Cancel, CockpitShape, counts
  <2> QED
    BY <1>0, <1>1, <2>1, QuietStep DEF Cancel, CockpitShape, counts
<1>2. ASSUME NEW c \in Operators, ToggleJitter(c)
      PROVE  CockpitInv'
  <2> DEFINE new == [switch |-> "jitter", value |-> "toggle", by |-> "cockpit", nr |-> 0]
  <2>1. new \in Commands /\ new.switch = "jitter"
    BY CockpitAssumption DEF Commands
  <2>2. /\ command' = [command EXCEPT ![c] = new] /\ stage' = [stage EXCEPT ![c] = "wait"]
        /\ UNCHANGED <<modal, late, opens, stores>>
    BY <1>2 DEF ToggleJitter, Send
  <2> HIDE DEF new
  <2>3. CockpitShape' /\ WaitsForCommand'
    BY <1>0, <2>1, <2>2 DEF CockpitShape, WaitsForCommand, Stages
  <2> QED
    BY <1>0, <2>1, <2>2, <2>3, OtherCommandStep DEF CockpitShape
<1>3. ASSUME NEW c \in Operators, Load(c)
      PROVE  CockpitInv'
  <2> DEFINE new == Loaded(command[c])
  <2>1. /\ stage[c] = "wait" /\ command' = [command EXCEPT ![c] = new]
        /\ UNCHANGED <<stage, modal, late, opens, stores>>
    BY <1>3 DEF Load, counts
  <2>2. new \in Commands /\ new.switch = command[c].switch
    BY <1>0, <2>1, LoadedFacts DEF WaitsForCommand
  <2> HIDE DEF new
  <2>3. CockpitShape' /\ WaitsForCommand'
    BY <1>0, <2>1, <2>2 DEF CockpitShape, WaitsForCommand
  <2> QED
    BY <1>0, <2>1, <2>2, <2>3, OtherCommandStep DEF CockpitShape
<1>4. ASSUME NEW s \in {"cutoff", "frozen", "jitter"}, NEW v \in Positions \cup {"toggle"},
             ApiPost(s, v)
      PROVE  CockpitInv'
  <2> DEFINE new == [switch |-> s, value |-> v, by |-> "api", nr |-> FreeNr]
  <2>1. /\ Cardinality(late) < MaxLate /\ late' = late \cup {new}
        /\ UNCHANGED <<stage, command, modal, opens, stores>>
    BY <1>4 DEF ApiPost
  <2>2. new \in Commands /\ new.by = "api"
    <3>1. FreeNr \in 0..MaxLate
      BY <1>0, <2>1, NumberLeft
    <3> QED
      BY <1>4, <3>1 DEF Commands
  <2> HIDE DEF new
  <2>3. IsFiniteSet(late')
    BY <1>0, <2>1, FS_AddElement DEF CockpitShape
  <2>4. CockpitShape' /\ WaitsForCommand'
    BY <1>0, <2>1, <2>2, <2>3 DEF CockpitShape, WaitsForCommand
  <2> QED
    BY <2>1, <2>2, <2>4, OtherCommandStep
<1>5. ASSUME NEW c \in Operators, NEW step \in Stages \ {"wait"},
             stage' = [stage EXCEPT ![c] = step],
             command' = command \/ command' = [command EXCEPT ![c] = NoCommand],
             UNCHANGED <<modal, late, opens, stores>>
      PROVE  CockpitInv'
  <2>1. CockpitShape'
    BY <1>0, <1>5 DEF CockpitShape
  <2>2. /\ \A d \in Operators : modal'[d] \in {modal[d], None}
        /\ \A d \in Operators : stage'[d] = "wait" => stage[d] = "wait" /\ command'[d] = command[d]
    BY <1>0, <1>5 DEF CockpitShape
  <2> QED
    BY <1>5, <2>1, <2>2, QuietStep
<1>6. ASSUME NEW c \in Operators, Reply(c)
      PROVE  CockpitInv'
  BY <1>5, <1>6 DEF Reply, Finish, counts, Stages
<1>7. ASSUME NEW c \in Remotes, BeginPoll(c) \/ Decode(c) \/ FailPoll(c)
      PROVE  CockpitInv'
  BY <1>5, <1>7 DEF BeginPoll, Decode, FailPoll, counts, Stages, Operators, Reads
<1>8. ASSUME NEW c \in Remotes, NEW i \in 1..5, ReadStatus(c, i)
      PROVE  CockpitInv'
  <2>1. Reads[i + 1] \in Stages \ {"wait"}
    BY DEF Reads, Stages
  <2> QED
    BY <1>5, <1>8, <2>1 DEF ReadStatus, counts, Operators
<1>9. ASSUME UNCHANGED <<modal, stage, command, late, opens, stores>>
      PROVE  CockpitInv'
  <2>1. CockpitShape'
    BY <1>0, <1>9 DEF CockpitShape
  <2> QED
    BY <1>9, <2>1, QuietStep
<1>10. ASSUME NEW s \in CircuitState, MoveBreaker(s)
       PROVE  CockpitInv'
  BY <1>9, <1>10 DEF MoveBreaker
<1>11. CASE UNCHANGED vars
  BY <1>9, <1>11 DEF vars, counts
<1> QED
  BY <1>1, <1>2, <1>3, <1>4, <1>6, <1>7, <1>8, <1>10, <1>11, ConfirmStep, StoreStep,
     StoreLateStep, LoadLateStep, FailStep, OpenStep DEF Next, Keys

\* The two-step panic protocol (modals.go, executeRemoteModal,
\* executeModalAction, handleAdminAPI): whatever answers are lost or late and
\* however many cockpits and API clients operate the switches, commands of
\* cockpits never change a switch more often than its modal was opened.
THEOREM CockpitTwoStep == Spec => []TwoStep
<1>1. Init => CockpitInv
  BY CockpitInitially
<1>2. CockpitInv /\ [Next]_vars => CockpitInv'
  BY CockpitStepwise
<1>3. CockpitInv => TwoStep
  <2> SUFFICES ASSUME CockpitInv, NEW t \in Panics
               PROVE  stores[t] <= opens[t]
    BY DEF TwoStep, Panics
  <2>1. IsFiniteSet(Outstanding(t)) /\ stores[t] + Cardinality(Outstanding(t)) <= opens[t]
    BY DEF CockpitInv, CommandsCovered, Covered
  <2>2. Cardinality(Outstanding(t)) \in Nat
    BY <2>1, FS_CardinalityType
  <2>3. stores[t] \in Nat /\ opens[t] \in Nat
    BY DEF CockpitInv, CockpitShape, Panics, Modals
  <2> QED
    BY <2>1, <2>2, <2>3
<1> QED
  BY <1>1, <1>2, <1>3, PTL DEF Spec
=============================================================================
