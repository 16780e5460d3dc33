---------------------------- MODULE WebhookEngine ----------------------------
(***************************************************************************)
(* Engine of src/internal/webhook/engine.go on top of DLQManager, and the  *)
(* way main (src/cmd/gateway/main.go) starts it and stops it.              *)
(*                                                                         *)
(* Events come from handlers (Publish) and from the Redis stream that the  *)
(* limiter's script writes (streamPoller).  A worker takes an event from   *)
(* the channel and starts one goroutine per sink, which tries, waits and   *)
(* tries again and at last enqueues a dead letter.  Stop waits for the     *)
(* workers and the poller, not for those goroutines.  The process may die  *)
(* at any step and start again; the streams and the consumer group, with   *)
(* its list of entries read and not acknowledged, are in Redis and stay.   *)
(***************************************************************************)
EXTENDS DeadLetterQueue, Sequences, SequencesExt

CONSTANTS Workers,
          Buffer,     \* capacity of eventsChan
          MaxRetries  \* attempts of deliverWithRetry

ASSUME EngineAssumption ==
    /\ Buffer \in Nat \ {0}
    /\ MaxRetries \in Nat \ {0}
    /\ "poller" \notin Workers

VARIABLES eventsChan,  \* the buffered channel
          stream,      \* entries of stream:gateway:events the group has not read
          group,       \* whether the consumer group exists
          pending,     \* entries read by the group and not acknowledged
          polled,      \* entries the poller has read and not dealt with
          acking,      \* whether the first of them has been published
          used,        \* history: events that have occurred
          up,          \* goroutines of e.wg that have not returned
          delivery,    \* each delivery: none, try, backoff, letter; ended as
                       \* delivered, lettered, given up (abandoned) or lost in
                       \* a crash
          attempt,     \* failed attempts of each delivery under way
          main         \* running, cancelled, stopping, stopped, panicked

pollVars == <<stream, group, pending, polled, acking>>
engineVars == <<eventsChan, pollVars, used, up, delivery, attempt, main>>
vars == <<queueVars, engineVars>>

Poller == "poller"
ctxDone == main # "running"
stopCh == main \in {"stopping", "stopped"}  \* closed
Alive == main # "panicked"  \* the panic ends the process
Deliver(j, step) == delivery' = [delivery EXCEPT ![j] = step]
Leave(j, step) == Deliver(j, step) /\ attempt' = [attempt EXCEPT ![j] = 0]

Started == Workers \cup (IF HasRedis THEN {Poller} ELSE {})

\* NewEngine and Start
Init ==
    /\ QueueInit
    /\ eventsChan = <<>>
    /\ stream = <<>>
    /\ group \in {HasRedis, HasRedis /\ ~Faults}
    /\ pending = {}
    /\ polled = <<>>
    /\ acking = FALSE
    /\ used = {}
    /\ up = Started
    /\ delivery = [j \in Letters |-> "none"]
    /\ attempt = [j \in Letters |-> 0]
    /\ main = "running"

-----------------------------------------------------------------------------
\* Slip: the channel has no bound.
SendUnbounded(e) == eventsChan' = Append(eventsChan, e)

\* Publish: a select with a default, so an event that finds the channel full
\* is dropped.
Send(e) ==
    eventsChan' = IF Len(eventsChan) < Buffer THEN Append(eventsChan, e) ELSE eventsChan

\* A handler publishes; handlers may outlive server.Shutdown's 5 seconds.
Publish(e) ==
    /\ Alive
    /\ e \notin used
    /\ used' = used \cup {e}
    /\ Send(e)
    /\ UNCHANGED <<queueVars, pollVars, up, delivery, attempt, main>>

\* XADD by the limiter's script
StreamAdd(e) ==
    /\ HasRedis
    /\ e \notin used
    /\ used' = used \cup {e}
    /\ stream' = Append(stream, e)
    /\ UNCHANGED <<queueVars, eventsChan, group, pending, polled, acking, up, delivery, attempt, main>>

\* Slip: the poller asks for the entries nobody has acknowledged, too.
PollReadPending ==
    /\ Poller \in up
    /\ group
    /\ polled = <<>>
    /\ polled' = SetToSeq(pending) \o stream
    /\ polled' # <<>>
    /\ pending' = pending \cup ToSet(stream)
    /\ stream' = <<>>
    /\ UNCHANGED <<queueVars, eventsChan, group, acking, used, up, delivery, attempt, main>>

\* XReadGroup with ">", up to 10 entries.  An error, which the poller waits out,
\* may hide an answer: the group has then handed out what nobody got.
PollRead ==
    /\ Poller \in up
    /\ group
    /\ polled = <<>> /\ stream # <<>>
    /\ polled' \in {stream} \cup (IF Faults \/ ctxDone THEN {<<>>} ELSE {})
    /\ pending' = pending \cup ToSet(stream)
    /\ stream' = <<>>
    /\ UNCHANGED <<queueVars, eventsChan, group, acking, used, up, delivery, attempt, main>>

\* Slip: the poller waits for room in the channel.
PollPublishBlocks ==
    /\ Poller \in up
    /\ polled # <<>> /\ ~acking
    /\ Len(eventsChan) < Buffer
    /\ Send(Head(polled))
    /\ acking' = TRUE
    /\ UNCHANGED <<queueVars, stream, group, pending, polled, used, up, delivery, attempt, main>>

\* Publish of one entry, ...
PollPublish ==
    /\ Poller \in up
    /\ polled # <<>> /\ ~acking
    /\ Send(Head(polled))
    /\ acking' = TRUE
    /\ UNCHANGED <<queueVars, stream, group, pending, polled, used, up, delivery, attempt, main>>

\* ... then its XAck, also if Publish dropped it; an error is ignored.
PollAck ==
    /\ Poller \in up
    /\ acking
    /\ \E ok \in BOOLEAN :
          /\ ok => ~ctxDone
          /\ ~ok => ctxDone \/ Faults
          /\ pending' = IF ok THEN pending \ {Head(polled)} ELSE pending
    /\ polled' = Tail(polled)
    /\ acking' = FALSE
    /\ UNCHANGED <<queueVars, eventsChan, stream, group, used, up, delivery, attempt, main>>

PollExit ==
    /\ Poller \in up
    /\ polled = <<>>
    /\ ctxDone \/ stopCh
    /\ up' = up \ {Poller}
    /\ UNCHANGED <<queueVars, eventsChan, pollVars, used, delivery, attempt, main>>

\* worker and processEvent: one goroutine for every enabled sink
ProcessEvent(w) ==
    /\ w \in up
    /\ eventsChan # <<>>
    /\ delivery' = [j \in Letters |->
                      IF j[1] = Head(eventsChan) THEN "try" ELSE delivery[j]]
    /\ eventsChan' = Tail(eventsChan)
    /\ UNCHANGED <<queueVars, pollVars, used, up, attempt, main>>

\* select picks any case that is ready, so a worker may return with events
\* still in the channel.
WorkerExit(w) ==
    /\ w \in up
    /\ ctxDone \/ stopCh
    /\ up' = up \ {w}
    /\ UNCHANGED <<queueVars, eventsChan, pollVars, used, delivery, attempt, main>>

-----------------------------------------------------------------------------
\* A failed attempt is followed by another one or, after the last, by what
\* comes at the end.
AttemptFails(j, end) ==
    \/ /\ attempt[j] + 1 < MaxRetries
       /\ attempt' = [attempt EXCEPT ![j] = @ + 1]
       /\ Deliver(j, "backoff")
    \/ /\ attempt[j] + 1 >= MaxRetries
       /\ Leave(j, end)

\* Slip: the last failed attempt returns without a dead letter.
AttemptGivesUp(j) ==
    /\ delivery[j] = "try"
    /\ \/ ~ctxDone /\ Leave(j, "delivered")
       \/ AttemptFails(j, "abandoned")
    /\ UNCHANGED <<queueVars, eventsChan, pollVars, used, up, main>>

\* One turn of the loop of deliverWithRetry.  The request carries ctx, so it
\* fails once ctx is cancelled.
Attempt(j) ==
    /\ Alive
    /\ delivery[j] = "try"
    /\ \/ ~ctxDone /\ Leave(j, "delivered")
       \/ AttemptFails(j, "letter")
    /\ UNCHANGED <<queueVars, eventsChan, pollVars, used, up, main>>

\* time.After(backoff)
BackoffOver(j) ==
    /\ Alive
    /\ delivery[j] = "backoff"
    /\ Deliver(j, "try")
    /\ UNCHANGED <<queueVars, eventsChan, pollVars, used, up, attempt, main>>

\* ctx.Done() in the backoff: return, with neither a delivery nor a letter
BackoffCancelled(j) ==
    /\ Alive
    /\ delivery[j] = "backoff"
    /\ ctxDone
    /\ Leave(j, "abandoned")
    /\ UNCHANGED <<queueVars, eventsChan, pollVars, used, up, main>>

\* dlqManager.Enqueue; its XADD carries ctx too.
Letter(j) ==
    /\ Alive
    /\ delivery[j] = "letter"
    /\ EnqueueMem(j)
    /\ Deliver(j, "lettered")
    /\ UNCHANGED <<eventsChan, pollVars, used, up, attempt, main>>

Persist(j) ==
    /\ Alive
    /\ \E ok \in BOOLEAN :
          /\ ok => ~ctxDone
          /\ ~ok => ctxDone \/ Faults \/ ~HasRedis
          /\ EnqueueStream(j, ok)
    /\ UNCHANGED engineVars

Account(j) ==
    /\ Alive
    /\ GetPendingCount(j) \/ SetDLQCount(j)
    /\ UNCHANGED engineVars

\* POST /dlq/retry
OperatorRetries(o) == Alive /\ Retrying(o) /\ UNCHANGED engineVars

-----------------------------------------------------------------------------
\* main: a signal or the end of the TUI cancels the root context ...
Cancel ==
    /\ main = "running"
    /\ main' = "cancelled"
    /\ UNCHANGED <<queueVars, eventsChan, pollVars, used, up, delivery, attempt>>

\* ... server.Shutdown, then Engine.Stop: pollCancel, close(stopCh) ...
StopClose ==
    /\ main = "cancelled"
    /\ main' = "stopping"
    /\ UNCHANGED <<queueVars, eventsChan, pollVars, used, up, delivery, attempt>>

\* ... wg.Wait, smartCache.Close and the log line "stopped cleanly" ...
StopWait ==
    /\ main = "stopping"
    /\ up = {}
    /\ main' = "stopped"
    /\ UNCHANGED <<queueVars, eventsChan, pollVars, used, up, delivery, attempt>>

\* ... and the deferred Engine.Stop, which closes stopCh again.
StopDeferred ==
    /\ main = "stopped"
    /\ main' = "panicked"
    /\ UNCHANGED <<queueVars, eventsChan, pollVars, used, up, delivery, attempt>>

\* streamPoller's XGroupCreateMkStream at "$": a group that exists stays as it
\* is, a new one skips what is in the stream, an error is ignored.
EnsureGroup ==
    \/ /\ HasRedis
       /\ group' = TRUE
       /\ stream' = IF group THEN stream ELSE <<>>
    \/ /\ ~HasRedis \/ Faults
       /\ UNCHANGED <<group, stream>>

\* Slip: a start does not load the dead letters.
RebootSkipsLoad ==
    /\ inMemory' = {}
    /\ restarted' = TRUE
    /\ retry' = [o \in Operators |-> NoRetry]
    /\ main' = "running"
    /\ UNCHANGED <<persisted, dlqPending, enqueue, counted, redelivered, unsaved,
                   eventsChan, pollVars, used, up, delivery, attempt>>

\* The process dies, and main starts the queue and the engine again.
Reboot ==
    /\ Restart
    /\ EnsureGroup
    /\ delivery' = [j \in Letters |->
                      IF \/ delivery[j] \in {"try", "backoff", "letter"}
                         \/ j[1] \in ToSet(eventsChan)
                      THEN "lost" ELSE delivery[j]]
    /\ eventsChan' = <<>>
    /\ polled' = <<>>
    /\ acking' = FALSE
    /\ up' = Started
    /\ main' = "running"
    /\ attempt' = [j \in Letters |-> 0]
    /\ UNCHANGED <<pending, used>>

Delivering(j) ==
    Attempt(j) \/ BackoffOver(j) \/ BackoffCancelled(j) \/ Letter(j) \/ Persist(j) \/ Account(j)

Polling == PollRead \/ PollPublish \/ PollAck \/ PollExit

Working(w) == ProcessEvent(w) \/ WorkerExit(w)

Stopping == StopClose \/ StopWait \/ StopDeferred

Next ==
    \/ \E e \in Events : Publish(e) \/ StreamAdd(e)
    \/ Polling
    \/ \E w \in Workers : Working(w)
    \/ \E j \in Letters : Delivering(j)
    \/ \E o \in Operators : OperatorRetries(o)
    \/ Cancel
    \/ Stopping
    \/ Reboot

Spec == Init /\ [][Next]_vars

\* The runtime schedules every goroutine, HTTP calls end (client timeout), and
\* main goes on once it has begun to shut down; nobody has to shut down and
\* nothing has to start a dead process again.
FairSpec ==
    /\ Spec
    /\ WF_<<pollVars, up>>(Polling)
    /\ \A w \in Workers : WF_<<eventsChan, up>>(Working(w))
    /\ \A j \in Letters : WF_<<queueVars, delivery>>(Delivering(j))
    /\ WF_main(Stopping)

-----------------------------------------------------------------------------
(* Properties *)

\* Channel, deliveries and main stay in their ranges: at most Buffer events
\* wait, no delivery is tried more than MaxRetries times, and what the
\* poller holds is in the group's pending list.
TypeOK ==
    /\ QueueTypeOK
    /\ eventsChan \in Seq(Events) /\ Len(eventsChan) <= Buffer
    /\ ToSet(stream) \cup pending \subseteq used
    /\ ToSet(polled) \subseteq pending
    /\ {group, acking} \subseteq BOOLEAN
    /\ acking => polled # <<>>
    /\ used \subseteq Events
    /\ up \subseteq Workers \cup {Poller}
    /\ delivery \in [Letters -> {"none", "try", "backoff", "letter", "delivered",
                                 "lettered", "abandoned", "lost"}]
    /\ attempt \in [Letters -> 0..(MaxRetries - 1)]
    /\ main \in {"running", "cancelled", "stopping", "stopped", "panicked"}

\* While the gateway runs, every delivery of an event that is in the channel
\* comes to an end: the endpoint accepts it or a dead letter stands for it,
\* whatever the endpoint, Redis and the other events do; only the death of the
\* process or a shutdown leaves it open.
EventsSettle ==
    \A j \in Letters :
        j[1] \in ToSet(eventsChan) ~> delivery[j] \in {"delivered", "lettered", "lost"} \/ ctxDone

\* A delivery that has come to an end is never begun again, although stream,
\* group and dead letters outlive the process, which may die between the
\* publication of an entry and its acknowledgement.
SettledOnce ==
    [][\A j \in Letters :
          delivery[j] \in {"delivered", "lettered", "abandoned", "lost"} => delivery'[j] = delivery[j]]_vars

\* wg.Wait of the first Stop returns: no worker and no poller can hold up a
\* shutdown, however full the channel is.
StopReturns == (main = "stopping") ~> (main # "stopping")
=============================================================================
