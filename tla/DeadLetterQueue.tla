--------------------------- MODULE DeadLetterQueue ---------------------------
(***************************************************************************)
(* DLQManager of src/internal/webhook/dlq.go: webhook deliveries that have *)
(* failed for good, kept in the inMemory map and, with Redis, in a stream  *)
(* that LoadFromRedis reads at start-up, and the pending gauge of          *)
(* metrics.go.                                                             *)
(*                                                                         *)
(* A letter is one event for one sink.  Its delivery goroutine enqueues it *)
(* in four calls, while operators retry letters (POST /dlq/retry) and the  *)
(* process may die between any two of them.  The stream only grows: no     *)
(* call of the code deletes from it.                                       *)
(***************************************************************************)
EXTENDS Naturals, FiniteSets

CONSTANTS Events, Sinks,
          Operators,  \* retries in flight at the same time
          HasRedis,
          Faults      \* whether a call to Redis may fail

ASSUME QueueAssumption ==
    /\ IsFiniteSet(Events) /\ IsFiniteSet(Sinks)
    /\ {HasRedis, Faults} \subseteq BOOLEAN

Letters == Events \X Sinks

VARIABLES inMemory,     \* keys of the map
          persisted,    \* entries of stream:gateway:dlq
          dlqPending,   \* the gauge, and dlqPending of Metrics
          enqueue,      \* progress of each letter: none, stream, count,
                        \* gauge, done; or lost in a crash
          counted,      \* the count each letter's goroutine has read
          retry,        \* step and letter of each retry
          redelivered,  \* history: letters whose endpoint accepted a retry
          unsaved,      \* history: letters for which Redis answered an error
          restarted     \* history: whether the process has died once

queueVars == <<inMemory, persisted, dlqPending, enqueue, counted, retry, redelivered, unsaved, restarted>>

Enqueued(j, step) == enqueue' = [enqueue EXCEPT ![j] = step]
NoRetry == [step |-> "idle", letter |-> CHOOSE j \in Letters : TRUE]

QueueInit ==
    /\ inMemory = {}
    /\ persisted = {}
    /\ dlqPending = 0
    /\ enqueue = [j \in Letters |-> "none"]
    /\ counted = [j \in Letters |-> 0]
    /\ retry = [o \in Operators |-> NoRetry]
    /\ redelivered = {}
    /\ unsaved = {}
    /\ restarted = FALSE

-----------------------------------------------------------------------------
\* Enqueue: the map, under the lock, ...
EnqueueMem(j) ==
    /\ enqueue[j] = "none"
    /\ inMemory' = inMemory \cup {j}
    /\ Enqueued(j, "stream")
    /\ UNCHANGED <<persisted, dlqPending, counted, retry, redelivered, unsaved, restarted>>

\* ... then XADD, whose error is logged.
EnqueueStream(j, ok) ==
    /\ enqueue[j] = "stream"
    /\ ok => HasRedis
    /\ persisted' = IF ok THEN persisted \cup {j} ELSE persisted
    /\ unsaved' = IF ok THEN unsaved ELSE unsaved \cup {j}
    /\ Enqueued(j, "count")
    /\ UNCHANGED <<inMemory, dlqPending, counted, retry, redelivered, restarted>>

\* GetPendingCount, as deliverWithRetry calls it after Enqueue
GetPendingCount(j) ==
    /\ enqueue[j] = "count"
    /\ counted' = [counted EXCEPT ![j] = Cardinality(inMemory)]
    /\ Enqueued(j, "gauge")
    /\ UNCHANGED <<inMemory, persisted, dlqPending, retry, redelivered, unsaved, restarted>>

\* metrics.SetDLQCount
SetDLQCount(j) ==
    /\ enqueue[j] = "gauge"
    /\ dlqPending' = counted[j]
    /\ counted' = [counted EXCEPT ![j] = 0]
    /\ Enqueued(j, "done")
    /\ UNCHANGED <<inMemory, persisted, retry, redelivered, unsaved, restarted>>

-----------------------------------------------------------------------------
\* ReSignAndRetry: the look-up; without a match it returns an error.
RetryFind(o, j) ==
    /\ retry[o].step = "idle"
    /\ j \in inMemory
    /\ retry' = [retry EXCEPT ![o] = [step |-> "send", letter |-> j]]
    /\ UNCHANGED <<inMemory, persisted, dlqPending, enqueue, counted, redelivered, unsaved, restarted>>

\* The request: a network error or another status than 2xx only changes the
\* letter's RetryCount and LastError.
RetrySend(o) ==
    /\ retry[o].step = "send"
    /\ \/ /\ retry' = [retry EXCEPT ![o].step = "remove"]
          /\ redelivered' = redelivered \cup {retry[o].letter}
       \/ retry' = [retry EXCEPT ![o] = NoRetry] /\ UNCHANGED redelivered
    /\ UNCHANGED <<inMemory, persisted, dlqPending, enqueue, counted, unsaved, restarted>>

\* delete(m.inMemory, id)
RetryRemove(o) ==
    /\ retry[o].step = "remove"
    /\ inMemory' = inMemory \ {retry[o].letter}
    /\ retry' = [retry EXCEPT ![o] = NoRetry]
    /\ UNCHANGED <<persisted, dlqPending, enqueue, counted, redelivered, unsaved, restarted>>

-----------------------------------------------------------------------------
\* LoadFromRedis: its error is ignored at start-up, and leaves the map empty.
LoadFromRedis ==
    \/ inMemory' = persisted /\ UNCHANGED unsaved
    \/ Faults /\ inMemory' = {} /\ unsaved' = unsaved \cup persisted

\* The process dies and starts again.
Restart ==
    /\ LoadFromRedis
    /\ restarted' = TRUE
    /\ dlqPending' = 0
    /\ enqueue' = [j \in Letters |->
                     CASE enqueue[j] = "stream" -> "lost"
                       [] enqueue[j] \in {"count", "gauge"} -> "done"
                       [] OTHER -> enqueue[j]]
    /\ counted' = [j \in Letters |-> 0]
    /\ retry' = [o \in Operators |-> NoRetry]
    /\ UNCHANGED <<persisted, redelivered>>

\* The rest of Enqueue, whose context the caller may have cancelled: XADD may
\* fail although Redis answers.
Enqueuing(j) ==
    \/ \E ok \in BOOLEAN : EnqueueStream(j, ok)
    \/ GetPendingCount(j)
    \/ SetDLQCount(j)

Retrying(o) == (\E j \in Letters : RetryFind(o, j)) \/ RetrySend(o) \/ RetryRemove(o)

QueueNext ==
    \/ \E j \in Letters : EnqueueMem(j) \/ Enqueuing(j)
    \/ \E o \in Operators : Retrying(o)
    \/ Restart

QueueSpec == QueueInit /\ [][QueueNext]_queueVars

-----------------------------------------------------------------------------
(* Properties *)

\* The fields of the queue and of the calls in progress are well typed, and
\* what a goroutine has counted it has yet to publish.
QueueTypeOK ==
    /\ inMemory \subseteq Letters
    /\ persisted \subseteq Letters
    /\ dlqPending \in 0..Cardinality(Letters)
    /\ enqueue \in [Letters -> {"none", "stream", "count", "gauge", "done", "lost"}]
    /\ counted \in [Letters -> 0..Cardinality(Letters)]
    /\ retry \in [Operators -> [step : {"idle", "send", "remove"}, letter : Letters]]
    /\ redelivered \subseteq Letters
    /\ unsaved \subseteq Letters
    /\ restarted \in BOOLEAN
    /\ \A j \in Letters : counted[j] > 0 => enqueue[j] = "gauge"

\* A letter whose Enqueue has returned is in the queue until its endpoint has
\* accepted it, through retries that overlap or fail and through restarts; only
\* a restart loses one, and only one for which Redis is missing or answered an
\* error, which Enqueue and main ignore.
NoLetterLost ==
    \A j \in Letters :
        enqueue[j] \in {"count", "gauge", "done"} =>
            j \in inMemory \cup redelivered \/ (restarted /\ j \in unsaved)

\* "Delivery successful! Remove from DLQ" (ReSignAndRetry): once a retry has
\* delivered and removed a letter, it does not come back.
ClearedStaysCleared ==
    [][\A j \in redelivered : j \notin inMemory => j \notin inMemory']_queueVars
=============================================================================
