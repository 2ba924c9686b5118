------------------------- MODULE WebhookEvents_proofs -------------------------
(***************************************************************************)
(* Proofs about the webhook sink and its shutdown, for any number of       *)
(* handlers, clients and events and any sizes of the queues.               *)
(***************************************************************************)
EXTENDS WebhookProps, TLAPS

Stopped == {"gate", "wait", "drain", "close", "exit"}

SinkTypes ==
    /\ phase \in Phases /\ {serving, signalled, cancelled, open} \subseteq BOOLEAN
    /\ pc \in [Goroutines -> Pcs] /\ event \in [Emitters -> Nat] /\ emitted \in Nat
    /\ queue \in Seq(Nat)
    /\ worker \in [at : {"select", "write", "drain", "rest", "done"}, event : Nat]

\* An event that is owed is in the queue or in the worker's hands, and the
\* worker is still there for it.
OwedHeld ==
    \A x \in owed :
        /\ worker.at # "done"
        /\ \/ \E i \in 1 .. Len(queue) : queue[i] = x
           \/ worker.at \in {"write", "rest"} /\ x = worker.event

\* The worker leaves its loop only when the sink is done, the store is closed
\* only after the worker has ended, and by then the sweeper has too.
Ordered ==
    /\ worker.at \in {"drain", "rest", "done"} => SinkDone \/ phase = "down"
    /\ phase \in {"close", "exit", "down"} => worker.at = "done"
    /\ ~open => phase \in {"exit", "down"}
    /\ phase \in Stopped => pc[Sweeper] = "idle"
    /\ phase = "down" => ~serving /\ \A g \in Goroutines : pc[g] = "idle"

SinkInv == SinkTypes /\ OwedHeld /\ Ordered

-----------------------------------------------------------------------------
LEMMA SinkInvInit == Init => SinkInv
<1> SUFFICES ASSUME Init PROVE SinkInv
    OBVIOUS
<1> USE DEF Init
<1>1. SinkTypes
    <2>1. phase \in Phases /\ emitted \in Nat /\ queue \in Seq(Nat)
        BY DEF Phases
    <2>4. {serving, signalled, cancelled, open} \subseteq BOOLEAN
        OBVIOUS
    <2>2. pc \in [Goroutines -> Pcs] /\ event \in [Emitters -> Nat]
        BY DEF Pcs, NoEvent
    <2>3. worker \in [at : {"select", "write", "drain", "rest", "done"}, event : Nat]
        BY DEF NoEvent
    <2> QED
        BY <2>1, <2>2, <2>3, <2>4 DEF SinkTypes
<1>2. OwedHeld /\ Ordered
    BY DEF OwedHeld, Ordered, Stopped
<1> QED
    BY <1>1, <1>2 DEF SinkInv

(***************************************************************************)
(* A goroutine moves: the queue, the worker and the command's life stay.   *)
(***************************************************************************)
LEMMA Moves ==
    ASSUME SinkInv, NEW g \in Goroutines, NEW l \in Pcs, Goto(g, l),
           UNCHANGED <<life, queue, worker, owed>>,
           event' \in [Emitters -> Nat], emitted' \in Nat,
           phase # "down",
           g = Sweeper /\ l # "idle" => phase \notin Stopped
    PROVE  SinkInv'
<1>1. SinkTypes'
    BY DEF SinkInv, SinkTypes, Goto, life
<1>2. OwedHeld'
    BY DEF SinkInv, OwedHeld, life
<1>3. \A h \in Goroutines : pc'[h] = IF h = g THEN l ELSE pc[h]
    BY DEF SinkInv, SinkTypes, Goto
<1>4. Ordered'
    BY <1>3 DEF SinkInv, Ordered, SinkDone, life, Goroutines, Emitters
<1> QED
    BY <1>1, <1>2, <1>4 DEF SinkInv

\* A goroutine that is at work is not of a process that has ended, nor is it
\* the sweeper when that has stopped.
LEMMA AtWork ==
    ASSUME SinkInv, NEW g \in Goroutines, pc[g] # "idle"
    PROVE  phase # "down" /\ (g = Sweeper => phase \notin Stopped)
    BY DEF SinkInv, Ordered

\* An emitter at work that leaves the queue alone.
LEMMA EmitterMoves ==
    ASSUME SinkInv, NEW e \in Emitters, NEW l \in Pcs, Goto(e, l), pc[e] # "idle",
           UNCHANGED <<life, emitted, sink>>,
           \/ UNCHANGED event
           \/ event' = [event EXCEPT ![e] = NoEvent]
    PROVE  SinkInv'
<1>1. event' \in [Emitters -> Nat] /\ emitted' \in Nat
    BY DEF SinkInv, SinkTypes, NoEvent
<1>2. e \in Goroutines
    BY DEF Goroutines
<1> QED
    BY <1>1, <1>2, AtWork, Moves DEF sink

LEMMA Enqueued == ASSUME SinkInv, NEW e \in Emitters, pc[e] # "idle", Enqueue(e) PROVE SinkInv'
<1>1. e \in Goroutines /\ phase # "down" /\ (e = Sweeper => phase \notin Stopped)
    BY AtWork DEF Goroutines
<1>2. /\ UNCHANGED <<life, emitted, worker>> /\ Goto(e, "deliver")
      /\ event' = [event EXCEPT ![e] = NoEvent]
    BY DEF Enqueue, recorded, LeaveSink
<1>3. event[e] \in Nat /\ queue \in Seq(Nat) /\ queue' = Append(queue, event[e])
    BY DEF SinkInv, SinkTypes, Enqueue
<1>4. /\ queue' \in Seq(Nat) /\ Len(queue) \in Nat /\ Len(queue') = Len(queue) + 1
      /\ queue'[Len(queue) + 1] = event[e]
      /\ \A i \in 1 .. Len(queue) : i \in 1 .. Len(queue') /\ queue'[i] = queue[i]
    BY <1>3
<1>5. SinkTypes'
    BY <1>2, <1>4 DEF SinkInv, SinkTypes, Goto, life, NoEvent, Pcs
<1>6. OwedHeld'
    <2>1. \A x \in owed : /\ worker'.at # "done"
                          /\ \/ \E i \in 1 .. Len(queue') : queue'[i] = x
                             \/ worker'.at \in {"write", "rest"} /\ x = worker'.event
        BY <1>2, <1>4 DEF SinkInv, OwedHeld
    <2>2. CASE SinkDone
        BY <2>1, <2>2 DEF Enqueue, OwedHeld
    <2>3. CASE ~SinkDone
        <3>1. worker.at # "done" /\ owed' = owed \cup {event[e]}
            BY <1>1, <2>3 DEF SinkInv, Ordered, Enqueue
        <3>2. Len(queue) + 1 \in 1 .. Len(queue')
            BY <1>4
        <3> QED
            BY <1>2, <1>4, <2>1, <3>1, <3>2 DEF OwedHeld
    <2> QED
        BY <2>2, <2>3
<1>7. \A h \in Goroutines : pc'[h] = IF h = e THEN "deliver" ELSE pc[h]
    BY <1>2 DEF SinkInv, SinkTypes, Goto
<1>8. Ordered'
    BY <1>1, <1>2, <1>7 DEF SinkInv, Ordered, SinkDone, life, Goroutines, Emitters
<1> QED
    BY <1>5, <1>6, <1>8 DEF SinkInv

LEMMA EmitterSteps ==
    ASSUME SinkInv, NEW e \in Emitters, BeginEmit(e) \/ Record(e) \/ EmitStep(e)
    PROVE  SinkInv'
<1> USE DEF recorded, At
<1>0. e \in Goroutines /\ {"record", "gate", "check", "try", "wait", "deliver", "idle"} \subseteq Pcs
    BY DEF Goroutines, Pcs
<1>1. CASE BeginEmit(e)
    <2>1. phase # "down" /\ (e = Sweeper => phase \notin Stopped)
        BY <1>1 DEF BeginEmit, SinkInv, Ordered, Stopped
    <2>2. event' \in [Emitters -> Nat] /\ emitted' \in Nat
        BY <1>1 DEF BeginEmit, SinkInv, SinkTypes
    <2> QED
        BY <1>0, <1>1, <2>1, <2>2, Moves DEF BeginEmit, sink
<1>2. CASE Record(e)
    <2>1. event' \in [Emitters -> Nat] /\ emitted' \in Nat
        BY <1>2 DEF Record, SinkInv, SinkTypes
    <2> QED
        BY <1>0, <1>2, <2>1, AtWork, Moves DEF Record, sink
<1>3. CASE Gate(e) \/ Check(e)
    BY <1>0, <1>3, EmitterMoves DEF Gate, Check, LeaveSink
<1>4. CASE Try(e) \/ Wait(e)
    BY <1>0, <1>4, EmitterMoves, Enqueued DEF Try, Wait, LeaveSink
<1>5. CASE Deliver(e)
    <2>1. CASE Goto(e, "idle")
        BY <1>0, <1>5, <2>1, EmitterMoves DEF Deliver
    <2>2. CASE UNCHANGED pc
        <3>1. Goto(e, "deliver")
            BY <1>5, <2>2 DEF Deliver, Goto, SinkInv, SinkTypes
        <3> QED
            BY <1>0, <1>5, <3>1, EmitterMoves DEF Deliver
    <2> QED
        BY <1>5, <2>1, <2>2 DEF Deliver
<1> QED
    BY <1>1, <1>2, <1>3, <1>4, <1>5 DEF EmitStep

(***************************************************************************)
(* The requests about subscriptions and the delivery workers.              *)
(***************************************************************************)
LEMMA ClientSteps ==
    ASSUME SinkInv, NEW c \in Clients,
           (\E r \in Requests : BeginRequest(c, r)) \/ PersistRequest(c) \/ ApplyRequest(c)
    PROVE  SinkInv'
<1> USE DEF others, At, sink
<1>0. c \in Goroutines /\ c # Sweeper /\ {"persist", "apply", "idle"} \subseteq Pcs
    BY WebhookAssumption DEF Goroutines, Pcs
<1>1. event' \in [Emitters -> Nat] /\ emitted' \in Nat
    BY DEF SinkInv, SinkTypes, BeginRequest, PersistRequest, ApplyRequest
<1>2. CASE \E r \in Requests : BeginRequest(c, r)
    <2>1. phase # "down"
        BY <1>2 DEF BeginRequest, SinkInv, Ordered
    <2> QED
        BY <1>0, <1>1, <1>2, <2>1, Moves DEF BeginRequest
<1>3. CASE PersistRequest(c)
    BY <1>0, <1>1, <1>3, AtWork, Moves DEF PersistRequest, Refused
<1>4. CASE ApplyRequest(c)
    BY <1>0, <1>1, <1>4, AtWork, Moves DEF ApplyRequest
<1> QED
    BY <1>2, <1>3, <1>4

-----------------------------------------------------------------------------
(***************************************************************************)
(* The persistence worker.                                                 *)
(***************************************************************************)
WorkerRow == [at : {"select", "write", "drain", "rest", "done"}, event : Nat]

\* The worker moves; what is owed is still held, and it has a reason to stop.
LEMMA WorkerMoves ==
    ASSUME SinkInv, NEW w \in WorkerRow, worker' = w, UNCHANGED <<life, pc, event, emitted>>,
           queue' \in Seq(Nat), OwedHeld',
           w.at \in {"drain", "rest", "done"} => SinkDone,
           worker.at # "done"
    PROVE  SinkInv'
<1>1. SinkTypes'
    BY DEF SinkInv, SinkTypes, WorkerRow, life
<1>2. Ordered'
    BY DEF SinkInv, Ordered, SinkDone, life
<1> QED
    BY <1>1, <1>2 DEF SinkInv

LEMMA WorkerSteps == ASSUME SinkInv, WorkerStep PROVE SinkInv'
<1> USE DEF around, Worker
<1>0. /\ worker \in WorkerRow /\ queue \in Seq(Nat) /\ Len(queue) \in Nat
      /\ worker.at \in {"drain", "rest"} => SinkDone
    BY DEF SinkInv, SinkTypes, WorkerRow, Ordered
<1>1. CASE Take
    <2> DEFINE l == IF worker.at = "select" THEN "write" ELSE "rest"
               w == [at |-> l, event |-> Head(queue)]
    <2>1. worker.at \in {"select", "drain"} /\ queue # <<>> /\ worker' = w /\ queue' = Tail(queue)
          /\ UNCHANGED <<life, pc, event, emitted, owed>>
        BY <1>1 DEF Take
    <2>2. /\ queue' \in Seq(Nat) /\ Head(queue) \in Nat /\ Head(queue) = queue[1]
          /\ Len(queue') = Len(queue) - 1 /\ \A i \in 1 .. Len(queue') : queue'[i] = queue[i + 1]
        BY <1>0, <2>1
    <2>3. l \in {"write", "rest"} /\ (l = "rest" => worker.at = "drain")
        BY <2>1
    <2>4. w \in WorkerRow /\ w.at = l /\ w.event = queue[1]
        BY <2>2, <2>3 DEF WorkerRow
    <2> HIDE DEF w, l
    <2>5. OwedHeld'
        <3> SUFFICES ASSUME NEW x \in owed
                     PROVE  \/ \E i \in 1 .. Len(queue') : queue'[i] = x
                            \/ x = queue[1]
            BY <2>1, <2>3, <2>4 DEF OwedHeld
        <3>1. PICK i \in 1 .. Len(queue) : queue[i] = x
            BY <2>1 DEF SinkInv, OwedHeld
        <3>2. CASE i # 1
            <4>1. i - 1 \in 1 .. Len(queue') /\ (i - 1) + 1 = i
                BY <1>0, <2>2, <3>1, <3>2
            <4> QED
                BY <2>2, <3>1, <4>1
        <3> QED
            BY <3>1, <3>2
    <2> QED
        BY <1>0, <2>1, <2>2, <2>3, <2>4, <2>5, WorkerMoves
<1>2. CASE Persist
    <2> DEFINE l == IF worker.at = "write" THEN "select" ELSE "drain"
               w == [at |-> l, event |-> NoEvent]
    <2>1. worker.at \in {"write", "rest"} /\ worker' = w /\ owed' = owed \ {worker.event}
          /\ UNCHANGED <<life, pc, event, emitted, queue>>
        BY <1>2 DEF Persist, WorkerTo
    <2>2. l \in {"select", "drain"} /\ (l = "drain" => worker.at = "rest")
        BY <2>1
    <2>3. w \in WorkerRow /\ w.at = l
        BY <2>2 DEF WorkerRow, NoEvent
    <2> HIDE DEF w, l
    <2>4. OwedHeld'
        BY <2>1, <2>2, <2>3 DEF SinkInv, OwedHeld
    <2> QED
        BY <1>0, <2>1, <2>2, <2>3, <2>4, WorkerMoves
<1>3. CASE NoticeDone
    <2> DEFINE w == [at |-> "drain", event |-> NoEvent]
    <2>1. worker.at = "select" /\ SinkDone /\ worker' = w
          /\ UNCHANGED <<life, pc, event, emitted, queue, owed>>
        BY <1>3 DEF NoticeDone, WorkerTo
    <2>2. w \in WorkerRow /\ w.at = "drain"
        BY DEF WorkerRow, NoEvent
    <2> HIDE DEF w
    <2>3. OwedHeld'
        BY <2>1, <2>2 DEF SinkInv, OwedHeld
    <2> QED
        BY <1>0, <2>1, <2>2, <2>3, WorkerMoves
<1>4. CASE StopWorker
    <2> DEFINE w == [at |-> "done", event |-> NoEvent]
    <2>1. worker.at = "drain" /\ worker' = w /\ UNCHANGED <<life, pc, event, emitted, queue>>
        BY <1>4 DEF StopWorker, WorkerTo
    <2>2. w \in WorkerRow
        BY DEF WorkerRow, NoEvent
    <2> HIDE DEF w
    <2>3. owed' = {}
        <3>1. CASE queue = <<>> /\ UNCHANGED owed
            <4>1. \A x \in owed : \E i \in 1 .. 0 : queue[i] = x
                BY <2>1, <3>1 DEF SinkInv, OwedHeld
            <4> QED
                BY <3>1, <4>1
        <3> QED
            BY <1>4, <3>1 DEF StopWorker, Drained
    <2>4. OwedHeld'
        BY <2>3 DEF OwedHeld
    <2> QED
        BY <1>0, <2>1, <2>2, <2>4, WorkerMoves
<1> QED
    BY <1>1, <1>2, <1>3, <1>4 DEF WorkerStep

-----------------------------------------------------------------------------
(***************************************************************************)
(* The life of the process.                                                *)
(***************************************************************************)
LEMMA LifeGoesOn ==
    ASSUME SinkInv, UNCHANGED <<pc, event, emitted, queue, worker, owed>>,
           phase' \in Phases, {serving', signalled', cancelled', open'} \subseteq BOOLEAN,
           SinkDone => SinkDone', phase # "down", phase' # "down",
           phase' \in {"close", "exit"} => worker.at = "done",
           ~open' => phase' = "exit",
           phase' \in Stopped => pc[Sweeper] = "idle"
    PROVE  SinkInv'
<1>1. SinkTypes'
    BY DEF SinkInv, SinkTypes
<1>2. OwedHeld'
    BY DEF SinkInv, OwedHeld
<1>3. Ordered'
    BY DEF SinkInv, Ordered
<1> QED
    BY <1>1, <1>2, <1>3 DEF SinkInv

LEMMA ShutdownSteps ==
    ASSUME SinkInv,
           \/ Signal \/ ListenFails \/ StopServing \/ ShutDown \/ StopJobs \/ CloseGate
           \/ CancelSink \/ AwaitWorker \/ CloseStore
    PROVE  SinkInv'
<1> USE DEF state, sink, Advance
<1>1. /\ phase \in Phases /\ {serving, signalled, cancelled, open} \subseteq BOOLEAN
      /\ phase \in {"close", "exit"} => worker.at = "done"
      /\ ~open /\ phase # "down" => phase = "exit"
      /\ phase \in Stopped => pc[Sweeper] = "idle"
    BY DEF SinkInv, SinkTypes, Ordered
<1>2. CASE Signal
    BY <1>1, <1>2, LifeGoesOn DEF Signal, SinkDone
<1>3. CASE ListenFails
    BY <1>1, <1>3, LifeGoesOn DEF ListenFails, SinkDone, Phases, Stopped
<1>8. CASE StopServing
    BY <1>1, <1>8, LifeGoesOn DEF StopServing, SinkDone, Phases, Stopped
<1>9. CASE ShutDown
    BY <1>1, <1>9, LifeGoesOn DEF ShutDown, SinkDone, Phases, Stopped
<1>4. CASE StopJobs
    BY <1>1, <1>4, LifeGoesOn DEF StopJobs, At, SinkDone, Phases
<1>5. CASE CloseGate
    BY <1>1, <1>5, LifeGoesOn DEF CloseGate, SinkDone, Phases, Stopped
<1>10. CASE CancelSink
    BY <1>1, <1>10, LifeGoesOn DEF CancelSink, SinkDone, Phases, Stopped
<1>6. CASE AwaitWorker
    BY <1>1, <1>6, LifeGoesOn DEF AwaitWorker, WorkerStopped, Worker, SinkDone, Phases, Stopped
<1>7. CASE CloseStore
    BY <1>1, <1>7, LifeGoesOn DEF CloseStore, SinkDone, Phases, Stopped
<1> QED
    BY <1>2, <1>3, <1>4, <1>5, <1>6, <1>7, <1>8, <1>9, <1>10

LEMMA Ends == ASSUME SinkInv, End PROVE SinkInv'
<1> DEFINE w == [at |-> "done", event |-> NoEvent]
<1>1. w \in WorkerRow /\ w.at = "done"
    BY DEF WorkerRow, NoEvent
<1>2. worker' = w
    BY DEF End, WorkerTo
<1> HIDE DEF w
<1>3. phase' \in Phases /\ emitted' \in Nat /\ queue' \in Seq(Nat)
    BY DEF SinkInv, SinkTypes, End, Phases
<1>4. {serving', signalled', cancelled', open'} \subseteq BOOLEAN
    BY DEF End
<1>5. pc' \in [Goroutines -> Pcs] /\ event' \in [Emitters -> Nat]
    BY DEF End, Pcs, NoEvent
<1>6. SinkTypes'
    BY <1>1, <1>2, <1>3, <1>4, <1>5 DEF SinkTypes, WorkerRow
<1>7. OwedHeld'
    BY DEF End, OwedHeld
<1>8. Ordered'
    BY <1>1, <1>2 DEF End, Ordered, Stopped
<1> QED
    BY <1>6, <1>7, <1>8 DEF SinkInv

LEMMA Starts == ASSUME SinkInv, Start PROVE SinkInv'
<1> DEFINE w == [at |-> "select", event |-> NoEvent]
<1>1. w \in WorkerRow /\ w.at = "select"
    BY DEF WorkerRow, NoEvent
<1>2. worker' = w /\ phase = "down" /\ phase' = "serving" /\ serving' = TRUE /\ open' = TRUE
      /\ UNCHANGED <<signalled, cancelled, pc, event, emitted, queue, owed>>
    BY DEF Start, WorkerTo, Advance
<1> HIDE DEF w
<1>3. SinkTypes'
    BY <1>1, <1>2 DEF SinkInv, SinkTypes, WorkerRow, Phases
<1>4. owed = {}
    BY <1>2 DEF SinkInv, OwedHeld, Ordered
<1>5. OwedHeld' /\ Ordered'
    BY <1>1, <1>2, <1>4 DEF OwedHeld, Ordered, Stopped
<1> QED
    BY <1>3, <1>5 DEF SinkInv

LEMMA SinkInvStep == ASSUME SinkInv, [Next]_vars PROVE SinkInv'
<1>1. CASE UNCHANGED vars \/ DeliveryWorker
    <2>1. UNCHANGED <<life, pc, event, emitted, sink>>
        BY <1>1 DEF vars, DeliveryWorker
    <2> QED
        BY <2>1 DEF life, sink, SinkInv, SinkTypes, OwedHeld, Ordered, SinkDone
<1>2. CASE WorkerStep
    BY <1>2, WorkerSteps
<1>3. CASE \E e \in Emitters : BeginEmit(e) \/ Record(e) \/ EmitStep(e)
    BY <1>3, EmitterSteps
<1>4. CASE \E c \in Clients :
              (\E r \in Requests : BeginRequest(c, r)) \/ PersistRequest(c) \/ ApplyRequest(c)
    BY <1>4, ClientSteps
<1>5. CASE Signal \/ ListenFails \/ Shutdown \/ Kill \/ Start
    BY <1>5, ShutdownSteps, Ends, Starts DEF Shutdown, Exit, Kill
<1> QED
    BY <1>1, <1>2, <1>3, <1>4, <1>5 DEF Next

LEMMA SinkHolds == Spec => []SinkInv
    BY SinkInvInit, SinkInvStep, PTL DEF Spec

(***************************************************************************)
(* However many handlers are inside the sink and however long its queue,   *)
(* the cleanup leaves no event behind that was taken on before the sink    *)
(* was told to stop (serve.go:205-262).                                    *)
(***************************************************************************)
THEOREM ShutdownLosesNothing == Spec => []AcceptedAreStored
<1>1. SinkInv => AcceptedAreStored
    BY DEF SinkInv, OwedHeld, Ordered, AcceptedAreStored
<1> QED
    BY <1>1, SinkHolds, PTL

(***************************************************************************)
(* The store is closed after everyone who writes to it has stopped, at     *)
(* whatever moment the server is signalled or killed.                      *)
(***************************************************************************)
THEOREM StoreIsClosedLast == Spec => []StoreClosedLast
<1>1. SinkInv => StoreClosedLast
    BY DEF SinkInv, Ordered, StoreClosedLast, Worker, At, Stopped
<1> QED
    BY <1>1, SinkHolds, PTL

-----------------------------------------------------------------------------
(***************************************************************************)
(* Subscriptions, in the store and in memory.                              *)
(***************************************************************************)
SubTypes ==
    /\ job \in [Clients -> Requests \cup {NoRequest}]
    /\ {rows, memory} \subseteq [Ids -> Urls \cup {None}]

\* While one request at a time works on a subscription, the two copies differ
\* only between its two steps, and then by what it is about to do.
Agrees(i) ==
    /\ \A c, d \in Serving(i) : c = d
    /\ (\A c \in Serving(i) : pc[c] = "persist") => memory[i] = rows[i]
    /\ \A c \in Serving(i) : pc[c] = "apply" => rows[i] = After(job[c])

SubInv == SinkInv /\ SubTypes /\ (phase # "down" => \A i \in Ids \ clash : Agrees(i))

\* A step that no client takes part in.
LEMMA AgreesKept ==
    ASSUME SubInv, UNCHANGED subscriptions, \A c \in Clients : pc'[c] = pc[c], phase # "down"
    PROVE  SubTypes' /\ \A i \in Ids \ clash' : Agrees(i)'
<1>1. SubTypes'
    BY DEF SubInv, SubTypes, subscriptions
<1>2. ASSUME NEW i \in Ids \ clash' PROVE Agrees(i)'
    <2>1. Agrees(i)
        BY <1>2 DEF SubInv, subscriptions
    <2> QED
        BY <2>1 DEF Agrees, Serving, After, subscriptions
<1> QED
    BY <1>1, <1>2

LEMMA ClientAgrees ==
    ASSUME SubInv, NEW c \in Clients,
           (\E r \in Requests : BeginRequest(c, r)) \/ PersistRequest(c) \/ ApplyRequest(c)
    PROVE  SubInv'
<1> USE DEF At
<1>0. /\ SinkInv' /\ phase # "down" /\ phase' = phase /\ c \in Goroutines
      /\ pc \in [Goroutines -> Pcs] /\ Clients \subseteq Goroutines
    <2>1. c \in Goroutines /\ Clients \subseteq Goroutines /\ pc \in [Goroutines -> Pcs]
        BY DEF Goroutines, SubInv, SinkInv, SinkTypes
    <2>2. SinkInv' /\ phase' = phase
        BY ClientSteps DEF SubInv, BeginRequest, PersistRequest, ApplyRequest, others, life
    <2>3. phase # "down"
        BY <2>1 DEF SubInv, SinkInv, Ordered, BeginRequest, PersistRequest, ApplyRequest
    <2> QED
        BY <2>1, <2>2, <2>3
<1>1. ASSUME NEW r \in Requests, BeginRequest(c, r) PROVE SubInv'
    <2>1. /\ job' = [job EXCEPT ![c] = r] /\ job'[c] = r /\ r.id \in Ids
          /\ pc[c] = "idle" /\ pc'[c] = "persist" /\ UNCHANGED <<rows, memory>>
          /\ \A d \in Clients \ {c} : pc'[d] = pc[d] /\ job'[d] = job[d]
          /\ clash' = IF Serving(r.id) = {} THEN clash ELSE clash \cup {r.id}
        BY <1>0, <1>1 DEF BeginRequest, Goto, SubInv, SubTypes, Requests
    <2>2. SubTypes'
        BY <2>1 DEF SubInv, SubTypes
    <2>3. ASSUME NEW i \in Ids \ clash' PROVE Agrees(i)'
        <3>1. Agrees(i) /\ (i = r.id => Serving(i) = {})
            BY <1>0, <2>1 DEF SubInv
        <3>2. CASE i = r.id
            <4>1. \A d \in Serving(i)' : d = c
                BY <2>1, <3>1, <3>2 DEF Serving
            <4>2. memory[i] = rows[i]
                BY <3>1, <3>2 DEF Agrees
            <4> QED
                BY <2>1, <4>1, <4>2 DEF Agrees
        <3>3. CASE i # r.id
            <4>1. c \notin Serving(i) /\ Serving(i)' = Serving(i)
                BY <2>1, <3>3 DEF Serving
            <4>2. \A d \in Serving(i) : d \in Clients \ {c}
                BY <4>1 DEF Serving
            <4> QED
                BY <2>1, <3>1, <4>1, <4>2 DEF Agrees, After
        <3> QED
            BY <3>2, <3>3
    <2> QED
        BY <1>0, <2>2, <2>3 DEF SubInv
<1>2. ASSUME pc[c] \in {"persist", "apply"}, NEW i \in Ids, i # job[c].id,
             pc'[c] \in {"idle", "apply"}, job'[c] \in {job[c], NoRequest},
             pc'[c] # "idle" => job'[c] = job[c],
             rows'[i] = rows[i], memory'[i] = memory[i], Agrees(i),
             \A d \in Clients \ {c} : pc'[d] = pc[d] /\ job'[d] = job[d]
      PROVE  Agrees(i)'
    <2>1. c \notin Serving(i) /\ Serving(i)' = Serving(i)
        BY <1>2 DEF Serving
    <2>2. \A d \in Serving(i) : d \in Clients \ {c}
        BY <2>1 DEF Serving
    <2> QED
        BY <1>2, <2>1, <2>2 DEF Agrees, After
<1>3. CASE PersistRequest(c)
    <2>1. /\ pc[c] = "persist" /\ UNCHANGED <<memory, clash>>
          /\ \A d \in Clients \ {c} : pc'[d] = pc[d] /\ job'[d] = job[d]
          /\ job'[c] = IF pc'[c] = "idle" THEN NoRequest ELSE job[c]
          /\ job' \in [Clients -> Requests \cup {NoRequest}]
        BY <1>0, <1>3 DEF PersistRequest, Goto, SubInv, SubTypes, Refused
    <2>2. \/ pc'[c] = "apply" /\ rows' = [rows EXCEPT ![job[c].id] = After(job[c])]
          \/ pc'[c] = "idle" /\ rows' = rows
        BY <1>0, <1>3 DEF PersistRequest, Goto, Refused
    <2>3. After(job[c]) \in Urls \cup {None}
        BY DEF SubInv, SubTypes, After, Requests, NoRequest
    <2>4. SubTypes'
        BY <2>1, <2>2, <2>3 DEF SubInv, SubTypes
    <2>5. ASSUME NEW i \in Ids \ clash' PROVE Agrees(i)'
        <3>1. Agrees(i)
            BY <1>0, <2>1 DEF SubInv
        <3>2. CASE i = job[c].id
            <4>1. c \in Serving(i) /\ (\A d \in Serving(i) : d = c) /\ memory[i] = rows[i]
                BY <2>1, <3>1, <3>2 DEF Agrees, Serving
            <4>2. CASE pc'[c] = "apply"
                <5>1. \A d \in Serving(i)' : d = c
                    BY <2>1, <4>1 DEF Serving
                <5>2. c \in Serving(i)' /\ rows'[i] = After(job'[c])
                    BY <2>1, <2>2, <3>2, <4>2 DEF Serving, SubInv, SubTypes
                <5>3. After(job[c])' = After(job'[c])
                    BY DEF After
                <5> QED
                    BY <4>2, <5>1, <5>2, <5>3 DEF Agrees, After
            <4>3. CASE pc'[c] = "idle" /\ rows' = rows
                <5>1. Serving(i)' = {}
                    BY <2>1, <4>1, <4>3 DEF Serving
                <5> QED
                    BY <2>1, <4>1, <4>3, <5>1 DEF Agrees
            <4> QED
                BY <2>2, <4>2, <4>3
        <3>3. CASE i # job[c].id
            <4>1. rows'[i] = rows[i] /\ memory'[i] = memory[i]
                BY <2>1, <2>2, <3>3 DEF SubInv, SubTypes
            <4> QED
                BY <1>2, <2>1, <2>2, <3>1, <3>3, <4>1
        <3> QED
            BY <3>2, <3>3
    <2> QED
        BY <1>0, <2>4, <2>5 DEF SubInv
<1>4. CASE ApplyRequest(c)
    <2>1. /\ pc[c] = "apply" /\ pc'[c] = "idle" /\ job'[c] = NoRequest /\ UNCHANGED <<rows, clash>>
          /\ \A d \in Clients \ {c} : pc'[d] = pc[d] /\ job'[d] = job[d]
          /\ job' \in [Clients -> Requests \cup {NoRequest}]
          /\ memory' = [memory EXCEPT ![job[c].id] = After(job[c])]
        BY <1>0, <1>4 DEF ApplyRequest, Goto, SubInv, SubTypes
    <2>2. After(job[c]) \in Urls \cup {None}
        BY DEF SubInv, SubTypes, After, Requests, NoRequest
    <2>3. SubTypes'
        BY <2>1, <2>2 DEF SubInv, SubTypes
    <2>4. ASSUME NEW i \in Ids \ clash' PROVE Agrees(i)'
        <3>1. Agrees(i)
            BY <1>0, <2>1 DEF SubInv
        <3>2. CASE i = job[c].id
            <4>1. c \in Serving(i) /\ (\A d \in Serving(i) : d = c) /\ rows[i] = After(job[c])
                BY <2>1, <3>1, <3>2 DEF Agrees, Serving
            <4>2. Serving(i)' = {}
                BY <2>1, <4>1 DEF Serving
            <4>3. memory'[i] = rows'[i]
                BY <2>1, <3>2, <4>1 DEF SubInv, SubTypes
            <4> QED
                BY <4>2, <4>3 DEF Agrees
        <3>3. CASE i # job[c].id
            <4>1. rows'[i] = rows[i] /\ memory'[i] = memory[i]
                BY <2>1, <3>3 DEF SubInv, SubTypes
            <4> QED
                BY <1>2, <2>1, <3>1, <3>3, <4>1
        <3> QED
            BY <3>2, <3>3
    <2> QED
        BY <1>0, <2>3, <2>4 DEF SubInv
<1> QED
    BY <1>1, <1>3, <1>4

LEMMA SubInvStep == ASSUME SubInv, [Next]_vars PROVE SubInv'
<1>0. SinkInv' /\ pc \in [Goroutines -> Pcs] /\ Clients \subseteq Goroutines
      /\ \A c \in Clients : c \notin Emitters
    BY SinkInvStep, WebhookAssumption DEF SubInv, SinkInv, SinkTypes, Goroutines, Emitters
<1>1. ASSUME UNCHANGED subscriptions, \A c \in Clients : pc'[c] = pc[c],
             phase = "down" => phase' = "down"
      PROVE  SubInv'
    <2>1. SubTypes'
        BY <1>1 DEF SubInv, SubTypes, subscriptions
    <2> QED
        BY <1>0, <1>1, <2>1, AgreesKept DEF SubInv
<1>2. CASE UNCHANGED vars \/ DeliveryWorker \/ WorkerStep
    <2>1. UNCHANGED <<life, pc, subscriptions>>
        BY <1>2 DEF vars, DeliveryWorker, WorkerStep, Take, Persist, NoticeDone, StopWorker, around
    <2> QED
        BY <1>1, <2>1 DEF life
<1>3. ASSUME NEW e \in Emitters, BeginEmit(e) \/ Record(e) \/ EmitStep(e) PROVE SubInv'
    <2>1. UNCHANGED <<life, subscriptions>>
        BY <1>3 DEF BeginEmit, Record, EmitStep, Gate, Check, Try, Wait, Enqueue, Deliver, recorded
    <2>2. (\E l \in Pcs : Goto(e, l)) \/ UNCHANGED pc
        BY <1>3 DEF BeginEmit, Record, EmitStep, Gate, Check, Try, Wait, Enqueue, Deliver, LeaveSink,
           Goto, Pcs
    <2>3. \A c \in Clients : pc'[c] = pc[c]
        BY <1>0, <2>2 DEF Goto
    <2> QED
        BY <1>1, <2>1, <2>3 DEF life
<1>4. CASE \E c \in Clients :
              (\E r \in Requests : BeginRequest(c, r)) \/ PersistRequest(c) \/ ApplyRequest(c)
    BY <1>4, ClientAgrees
<1>5. CASE Signal \/ ListenFails \/ (Shutdown /\ ~End)
    <2>1. UNCHANGED <<pc, subscriptions>> /\ phase # "down"
        BY <1>5 DEF Signal, ListenFails, Shutdown, StopServing, ShutDown, StopJobs, CloseGate,
           CancelSink, AwaitWorker, CloseStore, Exit, Advance, state
    <2> QED
        BY <1>1, <2>1
<1>6. CASE End
    <2>1. job' = [c \in Clients |-> NoRequest] /\ memory' = [i \in Ids |-> None] /\ rows' = rows
        BY <1>6 DEF End
    <2>2. SubTypes'
        BY <2>1 DEF SubInv, SubTypes
    <2> QED
        BY <1>0, <1>6, <2>2 DEF SubInv, End
<1>7. CASE Start
    <2>1. memory' = rows /\ rows' = rows /\ UNCHANGED <<clash, job, pc>>
        BY <1>7 DEF Start
    <2>2. \A c \in Clients : pc[c] = "idle"
        BY <1>0, <1>7 DEF SubInv, SinkInv, Ordered, Start, Advance
    <2>3. SubTypes'
        BY <2>1 DEF SubInv, SubTypes
    <2>4. ASSUME NEW i \in Ids PROVE Agrees(i)'
        BY <2>1, <2>2 DEF Agrees, Serving
    <2> QED
        BY <1>0, <2>3, <2>4 DEF SubInv
<1> QED
    BY <1>2, <1>3, <1>4, <1>5, <1>6, <1>7 DEF Next, Shutdown, Exit, Kill

(***************************************************************************)
(* Errors of the store, restarts and kills included, what a lone request   *)
(* was told of its subscription is what the store and the dispatcher hold  *)
(* (webhook_handlers.go:57-120).                                           *)
(***************************************************************************)
THEOREM SubscriptionsStayEqual == Spec => []SubscriptionsAgree
<1>1. Init => SubInv
    <2> SUFFICES ASSUME Init PROVE SubInv
        OBVIOUS
    <2>1. SubTypes
        BY WebhookAssumption DEF Init, SubTypes
    <2>2. \A i \in Ids : Agrees(i)
        BY DEF Init, Agrees, Serving, Goroutines
    <2> QED
        BY <2>1, <2>2, SinkInvInit DEF SubInv
<1>2. SubInv => SubscriptionsAgree
    BY DEF SubInv, SubscriptionsAgree, Agrees
<1> QED
    BY <1>1, <1>2, SubInvStep, PTL DEF Spec

===============================================================================
