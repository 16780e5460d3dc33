------------------------ MODULE WebhookEngineProofs ------------------------
(***************************************************************************)
(* The dead-letter queue and the webhook engine on top of it, for any      *)
(* events, sinks, operators, workers, channel capacity and retries, with   *)
(* or without Redis and whether or not its calls fail.                     *)
(*                                                                         *)
(* Queue: NoLetterLost alone is not inductive: a restart replaces the map  *)
(* by the stream, and the last step of a retry deletes without looking at  *)
(* the answer again.  The engine takes only steps of the queue, so the     *)
(* queue's promises are the engine's.                                      *)
(*                                                                         *)
(* Engine: a delivery that has ended is not begun again because an event   *)
(* is in at most one place that leads to a delivery, once: the stream, the *)
(* poller's entries still to publish, or the channel; and one whose        *)
(* delivery has begun is in none of them.                                  *)
(***************************************************************************)
EXTENDS WebhookEngine, FiniteSetTheorems, TLAPS

-----------------------------------------------------------------------------
(* The queue                                                               *)

QueueShape ==
    /\ enqueue \in [Letters -> {"none", "stream", "count", "gauge", "done", "lost"}]
    /\ retry \in [Operators -> [step : {"idle", "send", "remove"}, letter : Letters]]

\* A letter is accounted for from the first step of Enqueue on, and in the
\* stream from the second unless Redis did not take it.
Kept(j) ==
    /\ enqueue[j] \in {"stream", "count", "gauge", "done"} =>
           j \in inMemory \cup redelivered \/ (restarted /\ j \in unsaved)
    /\ enqueue[j] \in {"count", "gauge", "done"} => j \in persisted \cup unsaved

\* Only a delivered letter is about to be removed.
RemovesDelivered(o) == retry[o].step = "remove" => retry[o].letter \in redelivered

LetterInv ==
    /\ QueueShape
    /\ \A j \in Letters : Kept(j)
    /\ \A o \in Operators : RemovesDelivered(o)

LEMMA NoRetryShape ==
    ASSUME NEW j \in Letters
    PROVE  NoRetry \in [step : {"idle", "send", "remove"}, letter : Letters] /\ NoRetry.step = "idle"
BY DEF NoRetry

LEMMA LetterInitially ==
    ASSUME NEW l \in Letters
    PROVE  QueueInit => LetterInv
BY NoRetryShape DEF QueueInit, LetterInv, QueueShape, Kept, RemovesDelivered

\* Every step of the queue keeps the invariant.
LEMMA LetterStepwise ==
    ASSUME NEW l \in Letters, LetterInv, [QueueNext]_queueVars
    PROVE  LetterInv'
<1> USE QueueAssumption DEF LetterInv, QueueShape, Kept, RemovesDelivered
<1>0. NoRetry \in [step : {"idle", "send", "remove"}, letter : Letters] /\ NoRetry.step = "idle"
  BY NoRetryShape
<1>1. ASSUME NEW j \in Letters, EnqueueMem(j)
      PROVE  LetterInv'
  BY <1>1 DEF EnqueueMem, Enqueued
<1>2. ASSUME NEW j \in Letters, NEW ok \in BOOLEAN, EnqueueStream(j, ok)
      PROVE  LetterInv'
  BY <1>2 DEF EnqueueStream, Enqueued
<1>3. ASSUME NEW j \in Letters, GetPendingCount(j)
      PROVE  LetterInv'
  BY <1>3 DEF GetPendingCount, Enqueued
<1>4. ASSUME NEW j \in Letters, SetDLQCount(j)
      PROVE  LetterInv'
  BY <1>4 DEF SetDLQCount, Enqueued
<1>5. ASSUME NEW o \in Operators, NEW j \in Letters, RetryFind(o, j)
      PROVE  LetterInv'
  BY <1>5 DEF RetryFind
<1>6. ASSUME NEW o \in Operators, RetrySend(o)
      PROVE  LetterInv'
  BY <1>0, <1>6 DEF RetrySend
<1>7. ASSUME NEW o \in Operators, RetryRemove(o)
      PROVE  LetterInv'
  BY <1>0, <1>7 DEF RetryRemove
<1>8. CASE Restart
  BY <1>0, <1>8 DEF Restart, LoadFromRedis
<1>9. CASE UNCHANGED queueVars
  BY <1>9 DEF queueVars
<1> QED
  BY <1>1, <1>2, <1>3, <1>4, <1>5, <1>6, <1>7, <1>8, <1>9
     DEF QueueNext, Enqueuing, Retrying

\* Dead letters (Enqueue, ReSignAndRetry, LoadFromRedis): no overlap of retries
\* loses a letter whose Enqueue returned, and a restart loses one only after an
\* error of Redis.
THEOREM QueueNoLetterLost == QueueSpec => []NoLetterLost
<1>1. CASE Letters = {}
  <2>1. NoLetterLost
    BY <1>1 DEF NoLetterLost
  <2> QED
    BY <2>1, PTL
<1>2. ASSUME NEW l \in Letters
      PROVE  QueueSpec => []NoLetterLost
  <2>1. QueueInit => LetterInv
    BY LetterInitially
  <2>2. LetterInv /\ [QueueNext]_queueVars => LetterInv'
    BY LetterStepwise
  <2>3. LetterInv => NoLetterLost
    BY DEF LetterInv, Kept, NoLetterLost
  <2> QED
    BY <2>1, <2>2, <2>3, PTL DEF QueueSpec
<1> QED
  BY <1>1, <1>2
-----------------------------------------------------------------------------
(* The engine takes only steps of the queue                                *)

LEMMA EngineStepIsQueueStep == [Next]_vars => [QueueNext]_queueVars
<1> SUFFICES ASSUME [Next]_vars PROVE [QueueNext]_queueVars
  OBVIOUS
<1>1. ASSUME NEW e \in Events, Publish(e) \/ StreamAdd(e)
      PROVE  UNCHANGED queueVars
  BY <1>1 DEF Publish, StreamAdd
<1>2. ASSUME Polling
      PROVE  UNCHANGED queueVars
  BY <1>2 DEF Polling, PollRead, PollPublish, PollAck, PollExit
<1>3. ASSUME NEW w \in Workers, Working(w)
      PROVE  UNCHANGED queueVars
  BY <1>3 DEF Working, ProcessEvent, WorkerExit
<1>4. ASSUME NEW j \in Letters, Delivering(j)
      PROVE  [QueueNext]_queueVars
  <2>1. CASE Attempt(j) \/ BackoffOver(j) \/ BackoffCancelled(j)
    BY <2>1 DEF Attempt, BackoffOver, BackoffCancelled
  <2>2. CASE Letter(j)
    BY <2>2 DEF Letter, QueueNext
  <2>3. CASE Persist(j)
    BY <2>3 DEF Persist, QueueNext, Enqueuing
  <2>4. CASE Account(j)
    BY <2>4 DEF Account, QueueNext, Enqueuing
  <2> QED
    BY <1>4, <2>1, <2>2, <2>3, <2>4 DEF Delivering
<1>5. ASSUME NEW o \in Operators, OperatorRetries(o)
      PROVE  QueueNext
  BY <1>5 DEF OperatorRetries, QueueNext
<1>6. ASSUME Cancel \/ Stopping
      PROVE  UNCHANGED queueVars
  BY <1>6 DEF Cancel, Stopping, StopClose, StopWait, StopDeferred
<1>7. ASSUME Reboot
      PROVE  QueueNext
  BY <1>7 DEF Reboot, QueueNext
<1>8. CASE UNCHANGED vars
  BY <1>8 DEF vars
<1> QED
  BY <1>1, <1>2, <1>3, <1>4, <1>5, <1>6, <1>7, <1>8 DEF Next

\* Engine and queue (engine.go on dlq.go): whatever handlers, poller, workers,
\* deliveries, shutdown and restart do, the dead letters see only Enqueue,
\* ReSignAndRetry and a restart, as the queue's specification allows them.
THEOREM EngineImplementsQueue == Spec => QueueSpec
<1>1. Init => QueueInit
  BY DEF Init
<1> QED
  BY <1>1, EngineStepIsQueueStep, PTL DEF Spec, QueueSpec

\* The promise of the queue holds in the running gateway (deliverWithRetry,
\* POST /dlq/retry, shutdown with a cancelled context, restart).
THEOREM EngineNoLetterLost == Spec => []NoLetterLost
BY EngineImplementsQueue, QueueNoLetterLost, PTL

-----------------------------------------------------------------------------
(* Types of the queue                                                      *)

LEMMA LettersFinite ==
    /\ IsFiniteSet(Letters)
    /\ Cardinality(Letters) \in Nat
    /\ \A S \in SUBSET Letters : Cardinality(S) \in 0..Cardinality(Letters)
<1>1. IsFiniteSet(Letters)
  BY QueueAssumption, FS_Product DEF Letters
<1>2. Cardinality(Letters) \in Nat
  BY <1>1, FS_CardinalityType
<1>3. ASSUME NEW S \in SUBSET Letters
      PROVE  Cardinality(S) \in 0..Cardinality(Letters)
  <2>1. IsFiniteSet(S) /\ Cardinality(S) <= Cardinality(Letters)
    BY <1>1, FS_Subset
  <2>2. Cardinality(S) \in Nat
    BY <2>1, FS_CardinalityType
  <2> QED
    BY <1>2, <2>1, <2>2
<1> QED
  BY <1>1, <1>2, <1>3

LEMMA QueueTypeInitially ==
    ASSUME NEW l \in Letters
    PROVE  QueueInit => QueueTypeOK
<1> SUFFICES ASSUME QueueInit PROVE QueueTypeOK
  OBVIOUS
<1>1. 0 \in 0..Cardinality(Letters)
  BY LettersFinite
<1>2. retry \in [Operators -> [step : {"idle", "send", "remove"}, letter : Letters]]
  BY NoRetryShape DEF QueueInit
<1>3. counted \in [Letters -> 0..Cardinality(Letters)] /\ \A j \in Letters : ~(counted[j] > 0)
  BY <1>1 DEF QueueInit
<1> QED
  BY <1>1, <1>2, <1>3 DEF QueueInit, QueueTypeOK

LEMMA QueueTypeStepwise ==
    ASSUME NEW l \in Letters, QueueTypeOK, [QueueNext]_queueVars
    PROVE  QueueTypeOK'
<1> USE DEF QueueTypeOK
<1>0. NoRetry \in [step : {"idle", "send", "remove"}, letter : Letters]
  BY NoRetryShape
<1>a. 0 \in 0..Cardinality(Letters) /\ Cardinality(inMemory) \in 0..Cardinality(Letters)
  BY LettersFinite
<1>1. ASSUME NEW j \in Letters, EnqueueMem(j)
      PROVE  QueueTypeOK'
  BY <1>1 DEF EnqueueMem, Enqueued
<1>2. ASSUME NEW j \in Letters, NEW ok \in BOOLEAN, EnqueueStream(j, ok)
      PROVE  QueueTypeOK'
  BY <1>2 DEF EnqueueStream, Enqueued
<1>3. ASSUME NEW j \in Letters, GetPendingCount(j)
      PROVE  QueueTypeOK'
  BY <1>a, <1>3 DEF GetPendingCount, Enqueued
<1>4. ASSUME NEW j \in Letters, SetDLQCount(j)
      PROVE  QueueTypeOK'
  BY <1>a, <1>4 DEF SetDLQCount, Enqueued
<1>5. ASSUME NEW o \in Operators, NEW j \in Letters, RetryFind(o, j)
      PROVE  QueueTypeOK'
  BY <1>5 DEF RetryFind
<1>6. ASSUME NEW o \in Operators, RetrySend(o)
      PROVE  QueueTypeOK'
  BY <1>0, <1>6 DEF RetrySend
<1>7. ASSUME NEW o \in Operators, RetryRemove(o)
      PROVE  QueueTypeOK'
  BY <1>0, <1>7 DEF RetryRemove
<1>8. CASE Restart
  <2>1. enqueue' \in [Letters -> {"none", "stream", "count", "gauge", "done", "lost"}]
    BY <1>8 DEF Restart
  <2> QED
    BY <1>0, <1>a, <1>8, <2>1 DEF Restart, LoadFromRedis
<1>9. CASE UNCHANGED queueVars
  BY <1>9 DEF queueVars
<1> QED
  BY <1>1, <1>2, <1>3, <1>4, <1>5, <1>6, <1>7, <1>8, <1>9
     DEF QueueNext, Enqueuing, Retrying

-----------------------------------------------------------------------------
(* Sequences without repetition, by the sets of their elements             *)

NoRepeat(s) == \A i, k \in 1..Len(s) : s[i] = s[k] => i = k

\* A sequence of events in which each occurs at most once
Queued(s) == s \in Seq(Events) /\ NoRepeat(s)

LEMMA EmptyQueued == Queued(<<>>) /\ ToSet(<<>>) = {}
BY DEF Queued, NoRepeat, ToSet

LEMMA QueuedElements ==
    ASSUME NEW s, Queued(s)
    PROVE  /\ ToSet(s) \subseteq Events
           /\ ToSet(s) = {} => s = <<>>
           /\ Len(s) \in Nat
BY DEF Queued, ToSet

LEMMA QueuedTail ==
    ASSUME NEW s, Queued(s), s # <<>>
    PROVE  /\ Queued(Tail(s))
           /\ Head(s) \in ToSet(s)
           /\ ToSet(Tail(s)) = ToSet(s) \ {Head(s)}
           /\ Len(Tail(s)) = Len(s) - 1
<1> DEFINE n == Len(s)
           t == Tail(s)
<1>1. s \in Seq(Events) /\ n \in Nat /\ n > 0 /\ Head(s) = s[1] /\ DOMAIN s = 1..n
  BY DEF Queued
<1>2. t \in Seq(Events) /\ Len(t) = n - 1 /\ DOMAIN t = 1..(n - 1)
      /\ \A i \in 1..(n - 1) : t[i] = s[i + 1]
  BY <1>1
<1>3. \A i, k \in 1..n : s[i] = s[k] => i = k
  BY DEF Queued, NoRepeat
<1> HIDE DEF n, t
<1>4. NoRepeat(t)
  <2> SUFFICES ASSUME NEW i \in 1..(n - 1), NEW k \in 1..(n - 1), t[i] = t[k]
               PROVE  i = k
    BY <1>2 DEF NoRepeat
  <2>1. i + 1 \in 1..n /\ k + 1 \in 1..n /\ s[i + 1] = s[k + 1]
    BY <1>1, <1>2
  <2> QED
    BY <1>1, <1>3, <2>1
<1>5. ASSUME NEW e \in ToSet(t)
      PROVE  e \in ToSet(s) \ {Head(s)}
  <2>1. PICK i \in 1..(n - 1) : e = t[i]
    BY <1>2 DEF ToSet
  <2>2. i + 1 \in 1..n /\ 1 \in 1..n /\ e = s[i + 1] /\ i + 1 # 1
    BY <1>1, <1>2, <2>1
  <2> QED
    BY <1>1, <1>3, <2>2 DEF ToSet
<1>6. ASSUME NEW e \in ToSet(s) \ {Head(s)}
      PROVE  e \in ToSet(t)
  <2>1. PICK i \in 1..n : e = s[i]
    BY <1>1 DEF ToSet
  <2>2. i - 1 \in 1..(n - 1) /\ t[i - 1] = e
    BY <1>1, <1>2, <2>1
  <2> QED
    BY <1>2, <2>2 DEF ToSet
<1>7. Head(s) \in ToSet(s)
  BY <1>1 DEF ToSet
<1> QED
  BY <1>2, <1>4, <1>5, <1>6, <1>7 DEF Queued, n, t

LEMMA QueuedAppend ==
    ASSUME NEW s, Queued(s), NEW e \in Events, e \notin ToSet(s)
    PROVE  /\ Queued(Append(s, e))
           /\ ToSet(Append(s, e)) = ToSet(s) \cup {e}
           /\ Len(Append(s, e)) = Len(s) + 1
<1> DEFINE n == Len(s)
           t == Append(s, e)
<1>1. s \in Seq(Events) /\ n \in Nat /\ DOMAIN s = 1..n
  BY DEF Queued
<1>2. t \in Seq(Events) /\ Len(t) = n + 1 /\ DOMAIN t = 1..(n + 1)
      /\ t[n + 1] = e /\ \A i \in 1..n : t[i] = s[i]
  BY <1>1
<1>3. \A i, k \in 1..n : s[i] = s[k] => i = k
  BY DEF Queued, NoRepeat
<1>4. \A i \in 1..n : s[i] # e
  BY <1>1 DEF ToSet
<1> HIDE DEF n, t
<1>5. NoRepeat(t)
  <2> SUFFICES ASSUME NEW i \in 1..(n + 1), NEW k \in 1..(n + 1), t[i] = t[k]
               PROVE  i = k
    BY <1>2 DEF NoRepeat
  <2>1. CASE i \in 1..n /\ k \in 1..n
    BY <1>2, <1>3, <2>1
  <2>2. CASE i = n + 1 \/ k = n + 1
    BY <1>1, <1>2, <1>4, <2>2
  <2> QED
    BY <1>1, <2>1, <2>2
<1>6. ToSet(t) = ToSet(s) \cup {e}
  <2>1. ASSUME NEW x \in ToSet(t)
        PROVE  x \in ToSet(s) \cup {e}
    BY <1>1, <1>2 DEF ToSet
  <2>2. ASSUME NEW x \in ToSet(s)
        PROVE  x \in ToSet(t)
    BY <1>1, <1>2 DEF ToSet
  <2>3. e \in ToSet(t)
    BY <1>1, <1>2 DEF ToSet
  <2> QED
    BY <2>1, <2>2, <2>3
<1> QED
  BY <1>2, <1>5, <1>6 DEF Queued, n, t

-----------------------------------------------------------------------------
(* Where an event is                                                       *)

Settled == {"delivered", "lettered", "abandoned", "lost"}

\* Entries the poller has read and not yet published
Unpublished == IF acking THEN ToSet(polled) \ {Head(polled)} ELSE ToSet(polled)

EngineShape ==
    /\ Queued(eventsChan) /\ Len(eventsChan) <= Buffer
    /\ Queued(stream)
    /\ Queued(polled)
    /\ group \in BOOLEAN /\ acking \in BOOLEAN
    /\ acking => polled # <<>>
    /\ used \subseteq Events
    /\ up \subseteq Workers \cup {Poller}
    /\ delivery \in [Letters -> {"none", "try", "backoff", "letter"} \cup Settled]
    /\ attempt \in [Letters -> 0..(MaxRetries - 1)]
    /\ main \in {"running", "cancelled", "stopping", "stopped", "panicked"}

\* Every event that is somewhere has occurred, and is in one place only.
OnePlace ==
    /\ ToSet(eventsChan) \cup ToSet(stream) \cup pending \subseteq used
    /\ ToSet(polled) \subseteq pending
    /\ ToSet(stream) \cap pending = {}
    /\ ToSet(eventsChan) \cap (ToSet(stream) \cup Unpublished) = {}

\* An event whose delivery has begun is nowhere where it would begin again.
BegunIsGone ==
    \A j \in Letters : delivery[j] # "none" =>
        j[1] \in used /\ j[1] \notin ToSet(eventsChan) \cup ToSet(stream) \cup Unpublished

EngineInv == EngineShape /\ OnePlace /\ BegunIsGone

LEMMA LetterEvent == \A j \in Letters : j[1] \in Events
BY DEF Letters

LEMMA RetriesFacts == 0 \in 0..(MaxRetries - 1) /\ Buffer \in Nat /\ Buffer > 0 /\ MaxRetries \in Nat
BY EngineAssumption

LEMMA EngineInitially == Init => EngineInv
<1> SUFFICES ASSUME Init PROVE EngineInv
  OBVIOUS
<1>1. group \in BOOLEAN
  BY QueueAssumption, Zenon DEF Init
<1>2. Queued(<<>>) /\ ToSet(<<>>) = {} /\ Len(<<>>) = 0
  BY EmptyQueued
<1>3. EngineShape
  <2>1. up \subseteq Workers \cup {Poller}
    BY DEF Init, Started
  <2>2. acking \in BOOLEAN /\ ~acking
    BY DEF Init
  <2>3. attempt \in [Letters -> 0..(MaxRetries - 1)]
    BY RetriesFacts DEF Init
  <2>4. Len(eventsChan) <= Buffer
    BY <1>2, RetriesFacts DEF Init
  <2> QED
    BY <1>1, <1>2, <2>1, <2>2, <2>3, <2>4 DEF Init, EngineShape
<1>4. OnePlace /\ BegunIsGone
  BY <1>2 DEF Init, OnePlace, BegunIsGone, Unpublished
<1> QED
  BY <1>3, <1>4 DEF EngineInv

\* Publish, whether it finds room in the channel or not
LEMMA SendFacts ==
    ASSUME EngineShape, NEW e \in Events, e \notin ToSet(eventsChan), Send(e)
    PROVE  /\ Queued(eventsChan') /\ Len(eventsChan') <= Buffer
           /\ ToSet(eventsChan) \subseteq ToSet(eventsChan')
           /\ ToSet(eventsChan') \subseteq ToSet(eventsChan) \cup {e}
<1>1. Queued(eventsChan) /\ Len(eventsChan) \in Nat /\ Len(eventsChan) <= Buffer
  BY QueuedElements DEF EngineShape
<1>2. CASE Len(eventsChan) < Buffer
  <2>1. eventsChan' = Append(eventsChan, e)
    BY <1>2 DEF Send
  <2>2. /\ Queued(eventsChan') /\ ToSet(eventsChan') = ToSet(eventsChan) \cup {e}
        /\ Len(eventsChan') = Len(eventsChan) + 1
    BY <1>1, <2>1, QueuedAppend
  <2> QED
    BY <1>1, <1>2, <2>2, RetriesFacts
<1>3. CASE ~(Len(eventsChan) < Buffer)
  BY <1>1, <1>3 DEF Send
<1> QED
  BY <1>2, <1>3

\* A step of one delivery: it has begun, and stays begun.
LEMMA DeliveryStep ==
    ASSUME EngineInv, NEW j \in Letters, delivery[j] # "none",
           NEW step \in {"try", "backoff", "letter"} \cup Settled, Deliver(j, step),
           attempt' \in [Letters -> 0..(MaxRetries - 1)],
           UNCHANGED <<eventsChan, pollVars, used, up, main>>
    PROVE  EngineInv'
<1>1. EngineShape'
  BY DEF EngineInv, EngineShape, Deliver, pollVars
<1>2. OnePlace'
  BY DEF EngineInv, OnePlace, Unpublished, pollVars
<1>3. BegunIsGone'
  BY DEF EngineInv, EngineShape, BegunIsGone, Unpublished, Deliver, pollVars
<1> QED
  BY <1>1, <1>2, <1>3 DEF EngineInv

LEMMA EngineStepwise ==
    ASSUME EngineInv, [Next]_vars
    PROVE  EngineInv'
<1>0. EngineShape /\ OnePlace /\ BegunIsGone
  BY DEF EngineInv
<1>e. /\ ToSet(eventsChan) \subseteq Events /\ ToSet(polled) \subseteq Events
      /\ ToSet(stream) \subseteq Events
  BY <1>0, QueuedElements DEF EngineShape
<1>n. Queued(<<>>) /\ ToSet(<<>>) = {} /\ Len(<<>>) = 0
  BY EmptyQueued
<1>1. ASSUME NEW e \in Events, Publish(e)
      PROVE  EngineInv'
  <2>1. /\ e \notin used /\ used' = used \cup {e} /\ Send(e)
        /\ UNCHANGED <<stream, group, pending, polled, acking, up, delivery, attempt, main>>
    BY <1>1 DEF Publish, pollVars
  <2>2. e \notin ToSet(eventsChan) \cup ToSet(stream) \cup ToSet(polled)
    BY <1>0, <2>1 DEF OnePlace
  <2>3. /\ Queued(eventsChan') /\ Len(eventsChan') <= Buffer
        /\ ToSet(eventsChan') \subseteq ToSet(eventsChan) \cup {e}
    BY <1>0, <2>1, <2>2, SendFacts
  <2>4. EngineShape'
    BY <1>0, <2>1, <2>3 DEF EngineShape
  <2>5. OnePlace' /\ BegunIsGone'
    BY <1>0, <2>1, <2>2, <2>3 DEF OnePlace, BegunIsGone, Unpublished
  <2> QED
    BY <2>4, <2>5 DEF EngineInv
<1>2. ASSUME NEW e \in Events, StreamAdd(e)
      PROVE  EngineInv'
  <2>1. /\ e \notin used /\ used' = used \cup {e} /\ stream' = Append(stream, e)
        /\ UNCHANGED <<eventsChan, group, pending, polled, acking, up, delivery, attempt, main>>
    BY <1>2 DEF StreamAdd
  <2>2. e \notin ToSet(eventsChan) \cup ToSet(stream) \cup ToSet(polled) \cup pending
    BY <1>0, <2>1 DEF OnePlace
  <2>3. Queued(stream') /\ ToSet(stream') = ToSet(stream) \cup {e}
    BY <1>0, <2>1, <2>2, QueuedAppend DEF EngineShape
  <2>4. EngineShape'
    BY <1>0, <2>1, <2>3 DEF EngineShape
  <2>5. OnePlace' /\ BegunIsGone'
    BY <1>0, <2>1, <2>2, <2>3 DEF OnePlace, BegunIsGone, Unpublished
  <2> QED
    BY <2>4, <2>5 DEF EngineInv
<1>3. ASSUME PollRead
      PROVE  EngineInv'
  <2>1. /\ polled = <<>> /\ (polled' = stream \/ polled' = <<>>)
        /\ pending' = pending \cup ToSet(stream) /\ stream' = <<>>
        /\ UNCHANGED <<eventsChan, group, acking, used, up, delivery, attempt, main>>
    BY <1>3 DEF PollRead
  <2>2. ~acking /\ Queued(polled') /\ ToSet(polled') \subseteq ToSet(stream)
    BY <1>0, <1>n, <2>1 DEF EngineShape
  <2>3. Unpublished' = ToSet(polled') /\ ToSet(stream') = {}
    BY <1>n, <2>1, <2>2 DEF Unpublished
  <2>4. EngineShape'
    BY <1>0, <1>n, <2>1, <2>2 DEF EngineShape
  <2>5. OnePlace' /\ BegunIsGone'
    BY <1>0, <2>1, <2>2, <2>3 DEF OnePlace, BegunIsGone
  <2> QED
    BY <2>4, <2>5 DEF EngineInv
<1>4. ASSUME PollPublish
      PROVE  EngineInv'
  <2> DEFINE e == Head(polled)
  <2>1. /\ polled # <<>> /\ ~acking /\ acking' = TRUE /\ Send(e)
        /\ UNCHANGED <<stream, group, pending, polled, used, up, delivery, attempt, main>>
    BY <1>4 DEF PollPublish
  <2>2. e \in ToSet(polled) /\ e \in Events /\ e \in Unpublished /\ e \in used
    BY <1>0, <1>e, <2>1, QueuedTail DEF EngineShape, Unpublished, OnePlace
  <2>3. e \notin ToSet(eventsChan) /\ e \notin ToSet(stream)
    BY <1>0, <2>2 DEF OnePlace
  <2>4. /\ Queued(eventsChan') /\ Len(eventsChan') <= Buffer
        /\ ToSet(eventsChan') \subseteq ToSet(eventsChan) \cup {e}
    BY <1>0, <2>1, <2>2, <2>3, SendFacts
  <2>5. Unpublished' = Unpublished \ {e}
    BY <2>1 DEF Unpublished
  <2>6. EngineShape'
    BY <1>0, <2>1, <2>4 DEF EngineShape
  <2> HIDE DEF e
  <2>7. OnePlace' /\ BegunIsGone'
    BY <1>0, <2>1, <2>2, <2>3, <2>4, <2>5 DEF OnePlace, BegunIsGone
  <2> QED
    BY <2>6, <2>7 DEF EngineInv
<1>5. ASSUME PollAck
      PROVE  EngineInv'
  <2> DEFINE e == Head(polled)
  <2>1. /\ acking /\ polled # <<>> /\ polled' = Tail(polled) /\ acking' = FALSE
        /\ pending' = pending \ {e} \/ pending' = pending
        /\ UNCHANGED <<eventsChan, stream, group, used, up, delivery, attempt, main>>
    BY <1>0, <1>5 DEF PollAck, EngineShape
  <2>2. Queued(polled') /\ ToSet(polled') = ToSet(polled) \ {e}
    BY <1>0, <2>1, QueuedTail DEF EngineShape
  <2>3. Unpublished' = Unpublished
    BY <2>1, <2>2 DEF Unpublished
  <2>4. EngineShape'
    BY <1>0, <2>1, <2>2 DEF EngineShape
  <2> HIDE DEF e
  <2>5. OnePlace' /\ BegunIsGone'
    BY <1>0, <2>1, <2>2, <2>3 DEF OnePlace, BegunIsGone
  <2> QED
    BY <2>4, <2>5 DEF EngineInv
<1>6. ASSUME NEW w \in Workers, ProcessEvent(w)
      PROVE  EngineInv'
  <2> DEFINE e == Head(eventsChan)
  <2>1. /\ eventsChan # <<>> /\ eventsChan' = Tail(eventsChan)
        /\ delivery' = [j \in Letters |-> IF j[1] = e THEN "try" ELSE delivery[j]]
        /\ UNCHANGED <<stream, group, pending, polled, acking, used, up, attempt, main>>
    BY <1>6 DEF ProcessEvent, pollVars
  <2>2. /\ Queued(eventsChan') /\ ToSet(eventsChan') = ToSet(eventsChan) \ {e}
        /\ e \in ToSet(eventsChan) /\ Len(eventsChan') = Len(eventsChan) - 1
        /\ Len(eventsChan) \in Nat
    BY <1>0, <2>1, QueuedTail, QueuedElements DEF EngineShape
  <2>3. Unpublished' = Unpublished /\ ToSet(stream') = ToSet(stream)
    BY <2>1 DEF Unpublished
  <2>4. EngineShape'
    <3>1. Len(eventsChan') <= Buffer
      BY <1>0, <2>2, RetriesFacts DEF EngineShape
    <3> HIDE DEF e
    <3>2. delivery' \in [Letters -> {"none", "try", "backoff", "letter"} \cup Settled]
      BY <1>0, <2>1 DEF EngineShape
    <3> QED
      BY <1>0, <2>1, <2>2, <3>1, <3>2 DEF EngineShape
  <2> HIDE DEF e
  <2>5. OnePlace' /\ BegunIsGone'
    BY <1>0, <2>1, <2>2, <2>3 DEF OnePlace, BegunIsGone
  <2> QED
    BY <2>4, <2>5 DEF EngineInv
<1>7. ASSUME NEW j \in Letters, Attempt(j)
      PROVE  EngineInv'
  <2>1. /\ delivery[j] = "try" /\ UNCHANGED <<eventsChan, pollVars, used, up, main>>
        /\ \/ Leave(j, "delivered")
           \/ attempt[j] + 1 < MaxRetries /\ attempt' = [attempt EXCEPT ![j] = @ + 1]
              /\ Deliver(j, "backoff")
           \/ Leave(j, "letter")
    BY <1>7 DEF Attempt, AttemptFails
  <2>2. attempt' \in [Letters -> 0..(MaxRetries - 1)]
    <3>1. attempt \in [Letters -> 0..(MaxRetries - 1)] /\ attempt[j] \in 0..(MaxRetries - 1)
      BY <1>0 DEF EngineShape
    <3>2. attempt[j] + 1 < MaxRetries => attempt[j] + 1 \in 0..(MaxRetries - 1)
      BY <3>1, RetriesFacts
    <3> QED
      BY <2>1, <3>1, <3>2, RetriesFacts DEF Leave
  <2> QED
    BY <2>1, <2>2, DeliveryStep DEF Leave, Settled
<1>8. ASSUME NEW j \in Letters, BackoffOver(j) \/ BackoffCancelled(j) \/ Letter(j)
      PROVE  EngineInv'
  <2>1. /\ delivery[j] # "none" /\ UNCHANGED <<eventsChan, pollVars, used, up, main>>
        /\ Deliver(j, "try") \/ Deliver(j, "abandoned") \/ Deliver(j, "lettered")
        /\ attempt' = attempt \/ attempt' = [attempt EXCEPT ![j] = 0]
    BY <1>8 DEF BackoffOver, BackoffCancelled, Letter, Leave
  <2>2. attempt' \in [Letters -> 0..(MaxRetries - 1)]
    BY <1>0, <2>1, RetriesFacts DEF EngineShape
  <2> QED
    BY <2>1, <2>2, DeliveryStep DEF Settled
<1>9. ASSUME UNCHANGED <<eventsChan, pollVars, used, delivery, attempt>>,
             up' \subseteq up, main' \in {"running", "cancelled", "stopping", "stopped", "panicked"}
      PROVE  EngineInv'
  <2>1. EngineShape'
    BY <1>0, <1>9 DEF EngineShape, pollVars
  <2>2. OnePlace' /\ BegunIsGone'
    BY <1>0, <1>9 DEF OnePlace, BegunIsGone, Unpublished, pollVars
  <2> QED
    BY <2>1, <2>2 DEF EngineInv
<1>10. ASSUME UNCHANGED engineVars
       PROVE  EngineInv'
  BY <1>0, <1>9, <1>10 DEF engineVars, EngineShape
<1>11. ASSUME PollExit \/ (\E w \in Workers : WorkerExit(w)) \/ Cancel \/ Stopping
       PROVE  EngineInv'
  BY <1>0, <1>9, <1>11
     DEF PollExit, WorkerExit, Cancel, Stopping, StopClose, StopWait, StopDeferred, EngineShape
<1>12. ASSUME Reboot
       PROVE  EngineInv'
  <2>1. /\ eventsChan' = <<>> /\ polled' = <<>> /\ acking' = FALSE /\ up' = Started
        /\ main' = "running" /\ attempt' = [j \in Letters |-> 0]
        /\ UNCHANGED <<pending, used>>
        /\ delivery' = [j \in Letters |->
                          IF delivery[j] \in {"try", "backoff", "letter"} \/ j[1] \in ToSet(eventsChan)
                          THEN "lost" ELSE delivery[j]]
    BY <1>12 DEF Reboot
  <2>2. stream' = stream \/ stream' = <<>>
    BY <1>12 DEF Reboot, EnsureGroup
  <2>3. group' \in BOOLEAN
    BY <1>0, <1>12 DEF Reboot, EnsureGroup, EngineShape
  <2>4. Queued(stream') /\ ToSet(stream') \subseteq ToSet(stream)
    BY <1>0, <1>n, <2>2 DEF EngineShape
  <2>5. Unpublished' = {} /\ ToSet(eventsChan') = {} /\ ToSet(polled') = {}
    BY <1>n, <2>1 DEF Unpublished
  <2>6. EngineShape'
    <3>1. delivery' \in [Letters -> {"none", "try", "backoff", "letter"} \cup Settled]
      BY <1>0, <2>1 DEF EngineShape, Settled
    <3>2. attempt' \in [Letters -> 0..(MaxRetries - 1)]
      BY <2>1, RetriesFacts
    <3>3. up' \subseteq Workers \cup {Poller}
      BY <2>1 DEF Started
    <3>4. Len(eventsChan') <= Buffer
      BY <1>n, <2>1, RetriesFacts
    <3>5. acking' \in BOOLEAN /\ ~acking'
      BY <2>1
    <3> QED
      BY <1>0, <1>n, <2>1, <2>3, <2>4, <3>1, <3>2, <3>3, <3>4, <3>5 DEF EngineShape
  <2>7. OnePlace'
    BY <1>0, <2>1, <2>4, <2>5 DEF OnePlace
  <2>8. BegunIsGone'
    <3> SUFFICES ASSUME NEW j \in Letters, delivery'[j] # "none"
                 PROVE  j[1] \in used /\ j[1] \notin ToSet(stream')
      BY <2>1, <2>5 DEF BegunIsGone
    <3>1. delivery[j] # "none" \/ j[1] \in ToSet(eventsChan)
      BY <2>1
    <3> QED
      BY <1>0, <2>4, <3>1 DEF OnePlace, BegunIsGone
  <2> QED
    BY <2>6, <2>7, <2>8 DEF EngineInv
<1>13. ASSUME NEW j \in Letters, Persist(j) \/ Account(j)
       PROVE  EngineInv'
  BY <1>10, <1>13 DEF Persist, Account
<1>14. ASSUME NEW o \in Operators, OperatorRetries(o)
       PROVE  EngineInv'
  BY <1>10, <1>14 DEF OperatorRetries
<1>15. CASE UNCHANGED vars
  BY <1>10, <1>15 DEF vars
<1> QED
  BY <1>1, <1>2, <1>3, <1>4, <1>5, <1>6, <1>7, <1>8, <1>11, <1>12, <1>13, <1>14, <1>15
     DEF Next, Polling, Working, Delivering

LEMMA EngineInvariant == Spec => []EngineInv
<1>1. Init => EngineInv
  BY EngineInitially
<1>2. EngineInv /\ [Next]_vars => EngineInv'
  BY EngineStepwise
<1> QED
  BY <1>1, <1>2, PTL DEF Spec

\* Types of the engine on the queue (engine.go, dlq.go): the channel holds at
\* most Buffer events, no delivery is tried more than MaxRetries times, the
\* poller holds only entries the group has handed out, and the gauge never
\* exceeds the number of letters.
THEOREM EngineTypeCorrect ==
    ASSUME Letters # {}
    PROVE  Spec => []TypeOK
<1>1. PICK l \in Letters : TRUE
  OBVIOUS
<1>2. Init => QueueTypeOK
  BY <1>1, QueueTypeInitially DEF Init
<1>3. QueueTypeOK /\ [Next]_vars => QueueTypeOK'
  BY <1>1, QueueTypeStepwise, EngineStepIsQueueStep
<1>4. QueueTypeOK /\ EngineInv => TypeOK
  <2> SUFFICES ASSUME QueueTypeOK, EngineInv PROVE TypeOK
    OBVIOUS
  <2>1. eventsChan \in Seq(Events)
    BY DEF EngineInv, EngineShape, Queued
  <2>2. {group, acking} \subseteq BOOLEAN
    BY Zenon DEF EngineInv, EngineShape
  <2>3. delivery \in [Letters -> {"none", "try", "backoff", "letter", "delivered",
                                  "lettered", "abandoned", "lost"}]
    BY DEF EngineInv, EngineShape, Settled
  <2> QED
    BY <2>1, <2>2, <2>3 DEF EngineInv, EngineShape, OnePlace, TypeOK
<1> QED
  BY <1>2, <1>3, <1>4, EngineInvariant, PTL DEF Spec

\* Deliveries (streamPoller, worker, deliverWithRetry): one that has ended,
\* delivered, dead-lettered, abandoned or lost in a crash, is never begun
\* again, through crashes between publication, acknowledgement and delivery.
THEOREM EngineSettledOnce == Spec => SettledOnce
<1> DEFINE Stays == \A j \in Letters : delivery[j] \in Settled => delivery'[j] = delivery[j]
<1>1. EngineInv /\ [Next]_vars => [Stays]_vars
  <2> SUFFICES ASSUME EngineInv, [Next]_vars, NEW j \in Letters, delivery[j] \in Settled
               PROVE  delivery'[j] = delivery[j]
    OBVIOUS
  <2>0. /\ j[1] \notin ToSet(eventsChan) /\ delivery[j] # "none"
        /\ delivery \in [Letters -> {"none", "try", "backoff", "letter"} \cup Settled]
        /\ delivery[j] \notin {"try", "backoff", "letter"}
    BY DEF EngineInv, EngineShape, BegunIsGone, Settled
  <2>1. ASSUME NEW w \in Workers, ProcessEvent(w)
        PROVE  delivery'[j] = delivery[j]
    <3>1. Head(eventsChan) \in ToSet(eventsChan)
      BY <2>1, QueuedTail DEF ProcessEvent, EngineInv, EngineShape
    <3> QED
      BY <2>0, <2>1, <3>1 DEF ProcessEvent
  <2>2. ASSUME NEW k \in Letters, Delivering(k)
        PROVE  delivery'[j] = delivery[j]
    <3>1. CASE Persist(k) \/ Account(k)
      BY <3>1 DEF Persist, Account, engineVars
    <3>2. CASE Attempt(k) \/ BackoffOver(k) \/ BackoffCancelled(k) \/ Letter(k)
      BY <2>0, <3>2 DEF Attempt, AttemptFails, BackoffOver, BackoffCancelled, Letter, Leave, Deliver
    <3> QED
      BY <2>2, <3>1, <3>2 DEF Delivering
  <2>3. CASE Reboot
    BY <2>0, <2>3 DEF Reboot
  <2>4. CASE UNCHANGED delivery
    BY <2>4
  <2>5. ASSUME NEW e \in Events, Publish(e) \/ StreamAdd(e)
        PROVE  UNCHANGED delivery
    BY <2>5 DEF Publish, StreamAdd
  <2>6. ASSUME Polling
        PROVE  UNCHANGED delivery
    BY <2>6 DEF Polling, PollRead, PollPublish, PollAck, PollExit
  <2>7. ASSUME NEW w \in Workers, WorkerExit(w)
        PROVE  UNCHANGED delivery
    BY <2>7 DEF WorkerExit
  <2>8. ASSUME NEW o \in Operators, OperatorRetries(o)
        PROVE  UNCHANGED delivery
    BY <2>8 DEF OperatorRetries, engineVars
  <2>9. ASSUME Cancel \/ Stopping
        PROVE  UNCHANGED delivery
    BY <2>9 DEF Cancel, Stopping, StopClose, StopWait, StopDeferred
  <2>10. CASE UNCHANGED vars
    BY <2>10 DEF vars, engineVars
  <2> QED
    BY <2>1, <2>2, <2>3, <2>4, <2>5, <2>6, <2>7, <2>8, <2>9, <2>10 DEF Next, Working
<1>2. SettledOnce <=> [][Stays]_vars
  BY DEF SettledOnce, Settled
<1> HIDE DEF Stays
<1> QED
  BY <1>1, <1>2, EngineInvariant, PTL DEF Spec

-----------------------------------------------------------------------------
(* What Stop leaves                                                        *)

\* Once the first Stop has returned, also while the deferred one closes stopCh
\* again and panics, no worker and no poller is left; and a poller that has
\* returned leaves no entry that it has read and not published.
StopDrained ==
    /\ main \in {"stopped", "panicked"} => up = {}
    /\ Poller \notin up => polled = <<>>

\* Engine.Stop, twice: the close of a closed channel at the end of main cuts
\* off no goroutine that Stop is to wait for.  (Deliveries under way are not
\* among those.)
THEOREM EngineStopDrained == Spec => []StopDrained
<1>1. Init => StopDrained
  BY DEF Init, StopDrained
<1>2. StopDrained /\ [Next]_vars => StopDrained'
  <2> SUFFICES ASSUME StopDrained, [Next]_vars PROVE StopDrained'
    OBVIOUS
  <2> USE DEF StopDrained
  <2>1. CASE Polling
    <3>1. Poller \in up /\ main' = main
      BY <2>1 DEF Polling, PollRead, PollPublish, PollAck, PollExit
    <3>2. CASE PollExit
      BY <3>1, <3>2 DEF PollExit, pollVars
    <3>3. CASE up' = up
      BY <3>1, <3>3
    <3>4. QED
      BY <2>1, <3>2, <3>3 DEF Polling, PollRead, PollPublish, PollAck
  <2>2. ASSUME NEW w \in Workers, WorkerExit(w)
        PROVE  StopDrained'
    BY <2>2, EngineAssumption DEF WorkerExit, pollVars, Poller
  <2>3. CASE Cancel \/ StopClose \/ StopDeferred
    BY <2>3 DEF Cancel, StopClose, StopDeferred, pollVars
  <2>4. CASE StopWait
    BY <2>4 DEF StopWait, pollVars
  <2>5. CASE Reboot
    BY <2>5 DEF Reboot
  <2>6. CASE UNCHANGED <<main, up, polled>>
    BY <2>6
  <2>7. QED
    BY <2>1, <2>2, <2>3, <2>4, <2>5, <2>6
    DEF Next, Working, Delivering, Stopping, Publish, StreamAdd, ProcessEvent,
        Attempt, BackoffOver, BackoffCancelled, Letter, Persist, Account,
        OperatorRetries, vars, engineVars, pollVars
<1>3. QED
  BY <1>1, <1>2, PTL DEF Spec
=============================================================================
