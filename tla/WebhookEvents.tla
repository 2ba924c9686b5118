----------------------------- MODULE WebhookEvents -----------------------------
(***************************************************************************)
(* The webhook side of the API server, from its start to the end of its    *)
(* process: REST handlers and the expiry worker emit events; the           *)
(* dispatcher keeps the recent ones, hands each to the persistence sink    *)
(* (a bounded queue drained by one worker into the store) and queues it    *)
(* for every subscription that matches; subscriptions are created and      *)
(* deleted in the store and then in the dispatcher; a signal or a failed   *)
(* listener stops the server, and the deferred cleanups run in order.      *)
(*                                                                         *)
(* Events are numbered in the order they are recorded.  Durations are left *)
(* out: a timer may fire whenever it is armed.                             *)
(***************************************************************************)
EXTENDS FiniteSets, Integers, Sequences

CONSTANTS
    Handlers,           \* goroutines serving REST requests that emit an event
    Clients,            \* goroutines serving REST requests about subscriptions
    Sweeper,            \* the goroutine of the approval expiry worker
    Ids,                \* subscription ids of a tenant
    Urls,               \* what a subscription may say
    None,               \* no subscription
    Subscribed,         \* the subscriptions of the first start
    QueueSize,          \* webhookEventPersistQueueSize
    DeliveryQueueSize,  \* deliveryQueueSize
    MaxEvents,          \* Dispatcher.maxEvents
    MaxWork,            \* events and subscription requests (a bound on the model)
    MaxRuns             \* processes started (a bound on the model)

ASSUME WebhookAssumption ==
    /\ Sweeper \notin Handlers \cup Clients /\ Handlers \cap Clients = {} /\ None \notin Ids \cup Urls
    /\ Subscribed \in [Ids -> Urls \cup {None}]
    /\ {QueueSize, DeliveryQueueSize, MaxEvents, MaxRuns} \subseteq Nat \ {0}
    /\ MaxWork \in Nat

Emitters == Handlers \cup {Sweeper}
Goroutines == Emitters \cup Clients

VARIABLES
    phase,      \* where the serve command is
    serving,    \* its connections may bring new requests
    signalled,  \* runCtx is done
    cancelled,  \* cancelSink was called
    closing,    \* sinkClosing
    open,       \* the store is open
    runs,       \* processes started (history)
    pc,         \* pc[e]: where goroutine e is
    event,      \* event[e]: the event it hands to the sink
    job,        \* job[c]: the subscription request c serves
    emitted,    \* events recorded so far
    ring,       \* Dispatcher.events
    queue,      \* eventSinkQueue
    worker,     \* the persistence worker
    stored,     \* the rows of webhook_events
    owed,       \* events queued before the sink was done and not dealt with (history)
    pending,    \* the length of Dispatcher.deliveryQueue
    todo,       \* todo[e]: subscriptions still to be queued for
    requests,   \* subscription requests so far
    rows,       \* the rows of webhook_subscriptions
    memory,     \* Dispatcher.subscriptions
    clash       \* ids that two requests worked on at once (history)

life == <<phase, serving, signalled, cancelled, closing, open, runs>>
sink == <<queue, worker, stored, owed>>
delivery == <<pending, todo>>
subscriptions == <<requests, rows, memory, clash, job>>
vars == <<life, pc, event, emitted, ring, sink, delivery, subscriptions>>

Phases == {"serving", "shutdown", "jobs", "gate", "wait", "drain", "close", "exit", "down"}
Pcs == {"idle", "record", "gate", "check", "try", "wait", "deliver", "persist", "apply"}
Requests == [op : {"create", "delete"}, id : Ids, url : Urls]
NoRequest == [op |-> "none", id |-> None, url |-> None]
NoEvent == 0

\* A server has started with the subscriptions it found in the store.
Init ==
    /\ phase = "serving" /\ serving = TRUE /\ open = TRUE /\ runs = 1
    /\ signalled = FALSE /\ cancelled = FALSE /\ closing = FALSE
    /\ pc = [g \in Goroutines |-> "idle"]
    /\ event = [e \in Emitters |-> NoEvent]
    /\ job = [c \in Clients |-> NoRequest]
    /\ emitted = 0 /\ ring = <<>> /\ requests = 0
    /\ queue = <<>> /\ worker = [at |-> "select", event |-> NoEvent]
    /\ stored = {} /\ owed = {}
    /\ pending = 0 /\ todo = [e \in Emitters |-> {}]
    /\ rows = Subscribed /\ memory = rows /\ clash = {}

------------------------------------------------------------------------------
At(e, l) == pc[e] = l
Goto(e, l) == pc' = [pc EXCEPT ![e] = l]

\* cancelSink alone is not noticed.
SinkDoneBySignal == signalled

\* The context the sink works under is derived from the server's.
SinkDone == signalled \/ cancelled

\* sinkWG: the goroutines inside the sink function.
Inside == {e \in Emitters : pc[e] \in {"check", "try", "wait"}}

Work == emitted + requests + Cardinality({e \in Emitters : At(e, "record")})

(***************************************************************************)
(* Emitting.                                                               *)
(***************************************************************************)
\* A handler has done what its event reports; the sweeper has expired a request.
BeginEmit(e) ==
    /\ At(e, "idle") /\ Work < MaxWork
    /\ IF e = Sweeper THEN phase = "serving" /\ ~signalled ELSE serving
    /\ Goto(e, "record")
    /\ UNCHANGED <<life, event, emitted, ring, sink, delivery, subscriptions>>

Trim(s) == IF Len(s) > MaxEvents THEN Tail(s) ELSE s

\* Under the dispatcher's mutex: record the event and copy the subscriptions.
Record(e) ==
    /\ At(e, "record")
    /\ emitted' = emitted + 1
    /\ ring' = Trim(Append(ring, emitted + 1))
    /\ event' = [event EXCEPT ![e] = emitted + 1]
    /\ \E matching \in SUBSET {i \in Ids : memory[i] # None} : todo' = [todo EXCEPT ![e] = matching]
    /\ Goto(e, "gate")
    /\ UNCHANGED <<life, sink, pending, subscriptions>>

recorded == <<life, emitted, ring, subscriptions>>

\* The sink has returned: the event is queued for the subscriptions next.
LeaveSink(e) ==
    /\ Goto(e, "deliver")
    /\ event' = [event EXCEPT ![e] = NoEvent]

\* The gate, under sinkGateMu.
Gate(e) ==
    /\ At(e, "gate")
    /\ IF closing THEN LeaveSink(e) ELSE Goto(e, "check") /\ UNCHANGED event
    /\ UNCHANGED <<recorded, sink, delivery>>

Check(e) ==
    /\ At(e, "check")
    /\ IF SinkDone THEN LeaveSink(e) ELSE Goto(e, "try") /\ UNCHANGED event
    /\ UNCHANGED <<recorded, sink, delivery>>

Room == Len(queue) < QueueSize

Enqueue(e) ==
    /\ Room
    /\ queue' = Append(queue, event[e])
    /\ owed' = IF SinkDone THEN owed ELSE owed \cup {event[e]}
    /\ LeaveSink(e)
    /\ UNCHANGED <<recorded, worker, stored, delivery>>

Try(e) ==
    /\ At(e, "try")
    /\ \/ Enqueue(e)
       \/ ~Room /\ Goto(e, "wait") /\ UNCHANGED <<recorded, event, sink, delivery>>

\* Until there is room, or the timer fires, or the sink is done.
Wait(e) ==
    /\ At(e, "wait")
    /\ \/ Enqueue(e)
       \/ LeaveSink(e) /\ UNCHANGED <<recorded, sink, delivery>>

\* The sender waits for a free place.
SendWaits == pending < DeliveryQueueSize /\ pending' = pending + 1

\* An event that finds the queue full is dropped for this subscription.
Send == pending' = IF pending < DeliveryQueueSize THEN pending + 1 ELSE pending

Deliver(e) ==
    /\ At(e, "deliver")
    /\ \/ \E i \in todo[e] :
             /\ Send
             /\ todo' = [todo EXCEPT ![e] = @ \ {i}]
             /\ UNCHANGED pc
       \/ /\ todo[e] = {}
          /\ Goto(e, "idle")
          /\ UNCHANGED delivery
    /\ UNCHANGED <<recorded, event, sink>>

EmitStep(e) == Gate(e) \/ Check(e) \/ Try(e) \/ Wait(e) \/ Deliver(e)

\* A delivery worker takes a task.
DeliveryWorker ==
    /\ pending > 0 /\ pending' = pending - 1
    /\ UNCHANGED <<life, pc, event, emitted, ring, sink, todo, subscriptions>>

(***************************************************************************)
(* The persistence worker.                                                 *)
(***************************************************************************)
around == <<life, pc, event, emitted, ring, delivery, subscriptions>>

Worker(l) == worker.at = l
WorkerTo(l) == worker' = [at |-> l, event |-> NoEvent]

\* select has taken an event; it writes it and comes back where it was.
Take ==
    /\ worker.at \in {"select", "drain"} /\ queue # <<>>
    /\ worker' = [at |-> IF Worker("select") THEN "write" ELSE "rest", event |-> Head(queue)]
    /\ queue' = Tail(queue)
    /\ UNCHANGED <<around, stored, owed>>

\* WriteWebhookEvent has a deadline, and fails on a closed store.
Persist ==
    /\ worker.at \in {"write", "rest"}
    /\ \/ open /\ stored' = stored \cup {worker.event}
       \/ UNCHANGED stored
    /\ owed' = owed \ {worker.event}
    /\ WorkerTo(IF Worker("write") THEN "select" ELSE "drain")
    /\ UNCHANGED <<around, queue>>

\* sinkCtx.Done wins the select, with events in the queue or not.
NoticeDone ==
    /\ Worker("select") /\ SinkDone
    /\ WorkerTo("drain")
    /\ UNCHANGED <<around, queue, stored, owed>>

NothingToDrain == TRUE
Drained == queue = <<>>

\* The queue is empty, or the drain deadline has passed.
StopWorker ==
    /\ Worker("drain")
    /\ \/ Drained /\ UNCHANGED owed
       \/ owed' = {}
    /\ WorkerTo("done")
    /\ UNCHANGED <<around, queue, stored>>

WorkerStep == Take \/ Persist \/ NoticeDone \/ StopWorker

(***************************************************************************)
(* Subscriptions.                                                          *)
(***************************************************************************)
others == <<life, event, emitted, ring, sink, delivery>>

\* Clients at work on a subscription.
Serving(i) == {c \in Clients : pc[c] \in {"persist", "apply"} /\ job[c].id = i}

BeginRequest(c, r) ==
    /\ serving /\ At(c, "idle") /\ Work < MaxWork
    /\ requests' = requests + 1
    /\ job' = [job EXCEPT ![c] = r]
    /\ clash' = IF Serving(r.id) = {} THEN clash ELSE clash \cup {r.id}
    /\ Goto(c, "persist")
    /\ UNCHANGED <<others, rows, memory>>

After(r) == IF r.op = "create" THEN r.url ELSE None

\* A request the store refuses is answered with an error.
Refused(c) == "idle"

\* UpsertWebhookSubscription or DeleteWebhookSubscription.
PersistRequest(c) ==
    /\ At(c, "persist")
    /\ \/ open /\ rows' = [rows EXCEPT ![job[c].id] = After(job[c])] /\ Goto(c, "apply")
       \/ UNCHANGED rows /\ Goto(c, Refused(c))
    /\ job' = IF pc'[c] = "idle" THEN [job EXCEPT ![c] = NoRequest] ELSE job
    /\ UNCHANGED <<others, requests, memory, clash>>

\* Subscribe or UnsubscribeByTenant.
ApplyRequest(c) ==
    /\ At(c, "apply")
    /\ memory' = [memory EXCEPT ![job[c].id] = After(job[c])]
    /\ job' = [job EXCEPT ![c] = NoRequest]
    /\ Goto(c, "idle")
    /\ UNCHANGED <<others, requests, rows, clash>>

(***************************************************************************)
(* The life of the process.                                                *)
(***************************************************************************)
state == <<pc, event, emitted, ring, sink, delivery, subscriptions>>

Advance(from, to) == phase = from /\ phase' = to

\* SIGINT or SIGTERM ends runCtx; main notices it by itself.
Signal ==
    /\ phase # "down" /\ ~signalled
    /\ signalled' = TRUE
    /\ UNCHANGED <<phase, serving, cancelled, closing, open, runs, state>>

\* srv.Shutdown lets no connection bring another request, ...
StopServing ==
    /\ signalled /\ Advance("serving", "shutdown")
    /\ serving' = FALSE
    /\ UNCHANGED <<signalled, cancelled, closing, open, runs, state>>

\* ListenAndServe fails: the connections there are go on being served.
ListenFails ==
    /\ Advance("serving", "jobs")
    /\ UNCHANGED <<serving, signalled, cancelled, closing, open, runs, state>>

\* ... and ends when the handlers have returned, or five seconds have passed.
ShutDown ==
    /\ Advance("shutdown", "jobs")
    /\ UNCHANGED <<serving, signalled, cancelled, closing, open, runs, state>>

\* bgWorker.Stop has cancelled the sweep in progress and waits for it.
StopJobs ==
    /\ At(Sweeper, "idle") /\ Advance("jobs", "gate")
    /\ UNCHANGED <<serving, signalled, cancelled, closing, open, runs, state>>

\* The webhook sink's cleanup: close the gate, ...
CloseGate ==
    /\ Advance("gate", "wait")
    /\ closing' = TRUE
    /\ UNCHANGED <<serving, signalled, cancelled, open, runs, state>>

\* ... wait for those inside, cancel, ...
CancelSink ==
    /\ Inside = {} /\ Advance("wait", "drain")
    /\ cancelled' = TRUE
    /\ UNCHANGED <<serving, signalled, closing, open, runs, state>>

NotAwaited == TRUE
WorkerStopped == Worker("done")

\* ... and wait for the worker.
AwaitWorker ==
    /\ WorkerStopped /\ Advance("drain", "close")
    /\ UNCHANGED <<serving, signalled, cancelled, closing, open, runs, state>>

CloseStore ==
    /\ Advance("close", "exit")
    /\ open' = FALSE
    /\ UNCHANGED <<serving, signalled, cancelled, closing, runs, state>>

\* The process ends; only the store is left.
End ==
    /\ phase' = "down" /\ serving' = FALSE
    /\ signalled' = FALSE /\ cancelled' = FALSE /\ closing' = FALSE /\ open' = FALSE
    /\ pc' = [g \in Goroutines |-> "idle"]
    /\ event' = [e \in Emitters |-> NoEvent]
    /\ job' = [c \in Clients |-> NoRequest]
    /\ ring' = <<>> /\ queue' = <<>> /\ owed' = {}
    /\ WorkerTo("done")
    /\ pending' = 0 /\ todo' = [e \in Emitters |-> {}]
    /\ memory' = [i \in Ids |-> None] /\ clash' = {}
    /\ UNCHANGED <<runs, emitted, stored, requests, rows>>

Exit == phase = "exit" /\ End
Kill == phase # "down" /\ End

\* The newest events in the store, oldest first: ReplaceRecentEvents keeps
\* maxEvents of those ListWebhookEvents returns.
Newest(s) ==
    LET kept == {e \in s : Cardinality({f \in s : f > e}) < MaxEvents}
    IN  [k \in 1 .. Cardinality(kept) |-> CHOOSE e \in kept : Cardinality({f \in kept : f <= e}) = k]

\* A new process hydrates its dispatcher from the store.
Start ==
    /\ runs < MaxRuns /\ Advance("down", "serving")
    /\ runs' = runs + 1 /\ serving' = TRUE /\ open' = TRUE
    /\ memory' = rows
    /\ ring' = Newest(stored)
    /\ WorkerTo("select")
    /\ UNCHANGED <<signalled, cancelled, closing, pc, event, emitted, queue, stored, owed,
                   delivery, requests, rows, clash, job>>

Shutdown ==
    \/ StopServing \/ ShutDown \/ StopJobs \/ CloseGate \/ CancelSink
    \/ AwaitWorker \/ CloseStore \/ Exit

Next ==
    \/ \E e \in Emitters : BeginEmit(e) \/ Record(e) \/ EmitStep(e)
    \/ DeliveryWorker
    \/ WorkerStep
    \/ \E c \in Clients :
          (\E r \in Requests : BeginRequest(c, r)) \/ PersistRequest(c) \/ ApplyRequest(c)
    \/ Signal \/ ListenFails \/ Shutdown \/ Kill \/ Start

Spec == Init /\ [][Next]_vars

(***************************************************************************)
(* Goroutines that can run do: the command's own, the persistence worker,  *)
(* the sweeper, whose queries end with its context, and anyone inside the  *)
(* dispatcher.  Nothing is assumed of requests before they emit, nor of    *)
(* the delivery workers, which slow subscribers may occupy.                *)
(***************************************************************************)
Fairness ==
    /\ WF_vars(Shutdown)
    /\ WF_vars(WorkerStep)
    /\ WF_vars(Record(Sweeper))
    /\ \A e \in Emitters : WF_vars(EmitStep(e))

FairSpec == Spec /\ Fairness
===============================================================================
