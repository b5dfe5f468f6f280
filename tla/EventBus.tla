------------------------------ MODULE EventBus ------------------------------
(***************************************************************************)
(* The agent's Event Bus: src/src/security_agent/event_bus.                *)
(*                                                                         *)
(* asyncio runs one task at a time and a task gives way only where it      *)
(* really suspends: in a subscriber's handler, in the 1 ms sleep of a put  *)
(* into a full queue, in get() on an empty queue and in the gather of      *)
(* shutdown().  The queue's lock is never held across such a point.  The   *)
(* actions below are the pieces of code between two of them.               *)
(*                                                                         *)
(* Metrics (counters, latencies, peak depth) and logging are left out.     *)
(***************************************************************************)
EXTENDS Naturals, SequencesExt

CONSTANTS Types,        \* the EventTypes in use
          Events,       \* the events that may be published, each once (event_id)
          Subscribers,  \* the subscriptions that may be made
          NoEvent,      \* not an event
          TypeOf,       \* event_type of an event
          PriorityOf,   \* priority of an event
          Interest,     \* the event type a subscription is for
          QueueSize,    \* event_bus_queue_size; 0 is an unbounded queue
          HandlersCancel \* TRUE: a handler may end with CancelledError of its own

Priorities == 0..4      \* CRITICAL .. BACKGROUND

ASSUME BusAssumption ==
    /\ NoEvent \notin Events
    /\ TypeOf \in [Events -> Types]
    /\ PriorityOf \in [Events -> Priorities]
    /\ Interest \in [Subscribers -> Types]
    /\ QueueSize \in Nat
    /\ HandlersCancel \in BOOLEAN

VARIABLES
    started, shuttingDown,
    subs,      \* subs[t]: the registry's list of subscriptions to t
    keys,      \* the event types that have a queue, in the order they got it
    queue,     \* queue[t][p]: the deque of priority p of t's queue
    call,      \* call[e]: the publish() call of e
    worker,    \* worker[t]: the dispatch task of t
    down,      \* the shutdown() call
    \* History, read by the properties only:
    fate,      \* fate[e]: what became of an event that was published
    audience,  \* audience[e]: the subscribers found when its delivery began
    heard,     \* heard[e]: the subscribers that ran to an end, in order
    arrived    \* the events in the order they were put into their queues

history == <<fate, audience, heard, arrived>>
vars == <<started, shuttingDown, subs, keys, queue, call, worker, down, history>>

\* A delivery under way: the event and the handlers still to end, the first of
\* which is running.
Idle == [ev |-> NoEvent, todo |-> <<>>]
Delivery == [ev : Events \cup {NoEvent}, todo : Seq(Subscribers)]

WorkerPc == {"none", "ready", "waiting", "busy", "stopped"}
DownPc == {"off", "draining", "gather", "done", "aborted"}

NoQueue == [p \in Priorities |-> <<>>]

Init ==
    /\ started = FALSE /\ shuttingDown = FALSE
    /\ subs = [t \in Types |-> <<>>]
    /\ keys = <<>>
    /\ queue = [t \in Types |-> NoQueue]
    /\ call = [e \in Events |-> "idle"]
    /\ worker = [t \in Types |-> [pc |-> "none", job |-> Idle]]
    /\ down = [pc |-> "off", next |-> 1, size |-> 0, drained |-> <<>>, job |-> Idle]
    /\ fate = [e \in Events |-> "pending"]
    /\ audience = [e \in Events |-> {}]
    /\ heard = [e \in Events |-> <<>>]
    /\ arrived = <<>>

-----------------------------------------------------------------------------
(* The priority queue.                                                     *)

\* All the events of a queue, the most urgent level first: what drain() returns.
Contents(q) == q[0] \o q[1] \o q[2] \o q[3] \o q[4]

Total(q) == Len(Contents(q))
HasRoomOffByOne(t) == QueueSize = 0 \/ Total(queue[t]) <= QueueSize
HasRoom(t) == QueueSize = 0 \/ Total(queue[t]) < QueueSize
IsEmpty(q) == \A p \in Priorities : q[p] = <<>>

\* The level _dequeue_highest_priority takes from.
LevelReversed(q) == CHOOSE p \in Priorities :
                        q[p] # <<>> /\ \A r \in Priorities : r > p => q[r] = <<>>
Level(q) == CHOOSE p \in Priorities :
                q[p] # <<>> /\ \A r \in Priorities : r < p => q[r] = <<>>
First(q) == Head(q[Level(q)])
Rest(q) == [q EXCEPT ![Level(q)] = Tail(@)]

Put(e) ==
    /\ queue' = [queue EXCEPT ![TypeOf[e]][PriorityOf[e]] = Append(@, e)]
    /\ arrived' = Append(arrived, e)
    /\ call' = [call EXCEPT ![e] = "returned"]

-----------------------------------------------------------------------------
(* Life cycle, subscriptions and publishing.                               *)

Start ==
    /\ ~started
    /\ started' = TRUE
    /\ UNCHANGED <<shuttingDown, subs, keys, queue, call, worker, down, history>>

\* A queue is made with the first subscription to a type, and the type's worker
\* with the first one made after start().
Subscribe(s) ==
    LET t == Interest[s] IN
    /\ s \notin Range(subs[t])
    /\ subs' = [subs EXCEPT ![t] = Append(@, s)]
    /\ keys' = IF t \in Range(keys) THEN keys ELSE Append(keys, t)
    /\ worker' = IF worker[t].pc = "none" /\ started
                 THEN [worker EXCEPT ![t].pc = "ready"] ELSE worker
    /\ UNCHANGED <<started, shuttingDown, queue, call, down, history>>

Unsubscribe(s) ==
    LET t == Interest[s] IN
    /\ s \in Range(subs[t])
    /\ \E i \in DOMAIN subs[t] :
          subs[t][i] = s /\ subs' = [subs EXCEPT ![t] = RemoveAt(@, i)]
    /\ UNCHANGED <<started, shuttingDown, keys, queue, call, worker, down, history>>

PublishUnchecked(e) ==
    /\ call[e] = "idle"
    /\ \/ TypeOf[e] \notin Range(keys) /\ call' = [call EXCEPT ![e] = "dropped"]
                                       /\ UNCHANGED <<queue, arrived>>
       \/ TypeOf[e] \in Range(keys) /\ HasRoom(TypeOf[e]) /\ Put(e)
    /\ UNCHANGED <<started, shuttingDown, subs, keys, worker, down, fate, audience, heard>>

\* publish() up to the point where it returns, raises or first sleeps.
Publish(e) ==
    /\ call[e] = "idle"
    /\ \/ /\ shuttingDown
          /\ call' = [call EXCEPT ![e] = "refused"]
          /\ UNCHANGED <<queue, arrived>>
       \/ /\ ~shuttingDown /\ TypeOf[e] \notin Range(keys)
          /\ call' = [call EXCEPT ![e] = "dropped"]
          /\ UNCHANGED <<queue, arrived>>
       \/ /\ ~shuttingDown /\ TypeOf[e] \in Range(keys) /\ HasRoom(TypeOf[e])
          /\ Put(e)
       \/ /\ ~shuttingDown /\ TypeOf[e] \in Range(keys) /\ ~HasRoom(TypeOf[e])
          /\ call' = [call EXCEPT ![e] = "blocked"]
          /\ UNCHANGED <<queue, arrived>>
    /\ UNCHANGED <<started, shuttingDown, subs, keys, worker, down, fate, audience, heard>>

\* A publisher wakes from its sleep and finds room.  It holds the queue itself:
\* neither shutting_down nor the table of queues is looked at again.
Retry(e) ==
    /\ call[e] = "blocked"
    /\ HasRoom(TypeOf[e])
    /\ Put(e)
    /\ UNCHANGED <<started, shuttingDown, subs, keys, worker, down, fate, audience, heard>>

-----------------------------------------------------------------------------
(* Dispatch: one worker per event type.                                    *)

\* _deliver finds the subscribers of e; with none the event is dropped.
Unheard(e) == subs[TypeOf[e]] = <<>>
Begin(e) == IF Unheard(e) THEN Idle ELSE [ev |-> e, todo |-> subs[TypeOf[e]]]
NoteBegin(e) ==
    /\ fate' = IF Unheard(e) THEN [fate EXCEPT ![e] = "unheard"] ELSE fate
    /\ audience' = [audience EXCEPT ![e] = Range(subs[TypeOf[e]])]
    /\ UNCHANGED <<heard, arrived>>

Take(t) ==
    LET e == First(queue[t]) IN
    /\ queue' = [queue EXCEPT ![t] = Rest(@)]
    /\ worker' = [worker EXCEPT ![t] =
                     [pc |-> IF Unheard(e) THEN "ready" ELSE "busy", job |-> Begin(e)]]
    /\ NoteBegin(e)
    /\ UNCHANGED <<started, shuttingDown, subs, keys, call, down>>

\* The head of the dispatch loop.
Turn(t) ==
    /\ worker[t].pc = "ready"
    /\ \/ ~shuttingDown /\ ~IsEmpty(queue[t]) /\ Take(t)
       \/ /\ shuttingDown \/ IsEmpty(queue[t])
          /\ worker' = [worker EXCEPT ![t].pc = IF shuttingDown THEN "stopped" ELSE "waiting"]
          /\ UNCHANGED <<started, shuttingDown, subs, keys, queue, call, down, history>>

\* A worker inside get() is woken; it does not look at shutting_down again.
WakeNever(t) == worker[t].pc = "waiting" /\ FALSE /\ Take(t)
Wake(t) == worker[t].pc = "waiting" /\ ~IsEmpty(queue[t]) /\ Take(t)

\* A handler returns or raises an Exception: either way the next one runs.
AfterOneStops(job) == Idle
AfterOne(job) == IF Len(job.todo) = 1 THEN Idle ELSE [job EXCEPT !.todo = Tail(@)]
NoteEnd(job) ==
    /\ heard' = [heard EXCEPT ![job.ev] = Append(@, Head(job.todo))]
    /\ fate' = IF AfterOne(job) = Idle THEN [fate EXCEPT ![job.ev] = "handled"] ELSE fate
    /\ UNCHANGED <<audience, arrived>>

HandlerEnds(t) ==
    LET left == AfterOne(worker[t].job) IN
    /\ worker[t].pc = "busy"
    /\ worker' = [worker EXCEPT ![t] =
                     [pc |-> IF left = Idle THEN "ready" ELSE "busy", job |-> left]]
    /\ NoteEnd(worker[t].job)
    /\ UNCHANGED <<started, shuttingDown, subs, keys, queue, call, down>>

\* A handler ends with CancelledError: _deliver raises it and the loop ends.
HandlerCancelled(t) ==
    /\ HandlersCancel
    /\ worker[t].pc = "busy"
    /\ worker' = [worker EXCEPT ![t] = [pc |-> "stopped", job |-> Idle]]
    /\ fate' = [fate EXCEPT ![worker[t].job.ev] = "cut"]
    /\ UNCHANGED <<started, shuttingDown, subs, keys, queue, call, down, audience, heard, arrived>>

-----------------------------------------------------------------------------
(* Shutdown, in the task of its caller and beside the workers.             *)

\* The loop over the queues from the i-th on: the next one that holds events is
\* drained; after the last one every worker task is cancelled, which ends it
\* wherever it is.
Loaded(i) == {j \in i..Len(keys) : ~IsEmpty(queue[keys[j]])}

CancelWorkers ==
    LET cut == {worker[t].job.ev : t \in Types} IN
    /\ worker' = [t \in Types |->
                     IF worker[t].pc = "none" THEN worker[t]
                     ELSE [pc |-> "stopped", job |-> Idle]]
    /\ fate' = [e \in Events |-> IF e \in cut THEN "cut" ELSE fate[e]]
    /\ UNCHANGED <<queue, audience, heard, arrived>>

DrainFrom(i) ==
    \/ /\ \E j \in Loaded(i) :
          /\ \A k \in Loaded(i) : j <= k
          /\ down' = [pc |-> "draining", next |-> j + 1, size |-> Len(keys),
                      drained |-> Contents(queue[keys[j]]), job |-> Idle]
          /\ queue' = [queue EXCEPT ![keys[j]] = NoQueue]
       /\ UNCHANGED <<worker, history>>
    \/ /\ Loaded(i) = {}
       /\ down' = [down EXCEPT !.pc = "gather", !.next = i]
       /\ CancelWorkers

Shutdown ==
    /\ ~shuttingDown
    /\ shuttingDown' = TRUE
    /\ DrainFrom(1)
    /\ UNCHANGED <<started, subs, keys, call>>

DrainBusy == down.pc = "draining" /\ down.job # Idle

DownDeliver ==
    /\ down.pc = "draining" /\ down.job = Idle /\ down.drained # <<>>
    /\ down' = [down EXCEPT !.drained = Tail(@), !.job = Begin(Head(down.drained))]
    /\ NoteBegin(Head(down.drained))
    /\ UNCHANGED <<started, shuttingDown, subs, keys, queue, call, worker>>

DownHandlerEnds ==
    /\ DrainBusy
    /\ down' = [down EXCEPT !.job = AfterOne(@)]
    /\ NoteEnd(down.job)
    /\ UNCHANGED <<started, shuttingDown, subs, keys, queue, call, worker>>

\* CancelledError of a handler leaves shutdown() with the loop unfinished.
DownHandlerCancelled ==
    /\ HandlersCancel
    /\ DrainBusy
    /\ down' = [down EXCEPT !.pc = "aborted", !.job = Idle]
    /\ fate' = [fate EXCEPT ![down.job.ev] = "cut"]
    /\ UNCHANGED <<started, shuttingDown, subs, keys, queue, call, worker, audience, heard, arrived>>

\* Back at the loop over _queues.items(): a queue added meanwhile makes Python
\* raise RuntimeError.
DownNext ==
    /\ down.pc = "draining" /\ down.job = Idle /\ down.drained = <<>>
    /\ \/ /\ Len(keys) # down.size
          /\ down' = [down EXCEPT !.pc = "aborted"]
          /\ UNCHANGED <<queue, worker, history>>
       \/ /\ Len(keys) = down.size
          /\ DrainFrom(down.next)
    /\ UNCHANGED <<started, shuttingDown, subs, keys, call>>

\* The workers are gone: both tables are cleared.
DownClear ==
    /\ down.pc = "gather"
    /\ down' = [down EXCEPT !.pc = "done"]
    /\ worker' = [t \in Types |-> [pc |-> "none", job |-> Idle]]
    /\ keys' = <<>>
    /\ UNCHANGED <<started, shuttingDown, subs, queue, call, history>>

-----------------------------------------------------------------------------
\* Between two events shutdown() does not suspend: it holds the event loop.
LoopIsFree == ~(down.pc = "draining" /\ down.job = Idle)

WorkerStep(t) == LoopIsFree /\ (Turn(t) \/ Wake(t) \/ HandlerEnds(t))
RetryStep(e) == LoopIsFree /\ Retry(e)
DownStep == DownDeliver \/ DownHandlerEnds \/ DownNext \/ DownClear
CallerStep ==
    /\ LoopIsFree
    /\ \/ Start \/ Shutdown
       \/ \E s \in Subscribers : Subscribe(s) \/ Unsubscribe(s)
       \/ \E e \in Events : Publish(e)
       \/ \E t \in Types : HandlerCancelled(t)

Next ==
    \/ CallerStep
    \/ \E e \in Events : RetryStep(e)
    \/ \E t \in Types : WorkerStep(t)
    \/ DownStep \/ DownHandlerCancelled

Spec == Init /\ [][Next]_vars

\* The event loop runs every task that can go on, and handlers return.
Fairness ==
    /\ \A t \in Types : WF_vars(WorkerStep(t))
    /\ \A e \in Events : WF_vars(RetryStep(e))
    /\ WF_vars(DownStep)

FairSpec == Spec /\ Fairness

-----------------------------------------------------------------------------
(* Properties.                                                             *)

\* Every variable has the shape the code gives it.
TypeOK ==
    /\ started \in BOOLEAN /\ shuttingDown \in BOOLEAN
    /\ subs \in [Types -> Seq(Subscribers)]
    /\ keys \in Seq(Types)
    /\ queue \in [Types -> [Priorities -> Seq(Events)]]
    /\ call \in [Events -> {"idle", "blocked", "returned", "refused", "dropped"}]
    /\ worker \in [Types -> [pc : WorkerPc, job : Delivery]]
    /\ down \in [pc : DownPc, next : Nat \ {0}, size : Nat, drained : Seq(Events), job : Delivery]
    /\ fate \in [Events -> {"pending", "handled", "unheard", "cut"}]
    /\ audience \in [Events -> SUBSET Subscribers]
    /\ heard \in [Events -> Seq(Subscribers)]
    /\ arrived \in Seq(Events)

\* Where an event is: the places of the queues, of the drained list and of the
\* deliveries under way that hold it.
QueuePlaces(e) == UNION {{<<t, p, i>> : i \in {j \in DOMAIN queue[t][p] : queue[t][p][j] = e}} :
                            t \in Types, p \in Priorities}
DrainedPlaces(e) == {i \in DOMAIN down.drained : down.drained[i] = e}
Holders(e) == {t \in Types : worker[t].job.ev = e}
Places(e) == ({"queue"} \X QueuePlaces(e)) \cup ({"drained"} \X DrainedPlaces(e))
                \cup ({"worker"} \X Holders(e)) \cup (IF down.job.ev = e THEN {<<"shutdown", e>>} ELSE {})

\* No event is lost or doubled between the queues, the workers and shutdown():
\* one whose publish() returned is in exactly one place until its delivery ended,
\* was cut off or found no subscriber, and in none from then on or before.
Conservation ==
    \A e \in Events :
        IF call[e] = "returned" /\ fate[e] = "pending" THEN \E x \in Places(e) : Places(e) = {x}
        ELSE Places(e) = {}

\* "One failing subscriber never affects others": the subscribers found at the
\* start of a delivery hear the event once each, and all of them do unless the
\* delivery is cut off.
EveryoneHearsOnce ==
    \A e \in Events :
        /\ IsInjective(heard[e])
        /\ Range(heard[e]) \subseteq audience[e]
        /\ fate[e] = "handled" => Range(heard[e]) = audience[e] /\ audience[e] # {}

\* "Backpressure prevents OOM": also the publishers that come back from their
\* sleep, before or after the drain, never overfill a queue.
Backpressure == QueueSize > 0 => \A t \in Types : Total(queue[t]) <= QueueSize

Queued(e) == QueuePlaces(e) # {}
Begun(e) == ~Queued(e) /\ e \notin Range(down.drained)

\* FIFO within a priority, from publish() to the start of the delivery.
InOrder ==
    \A j \in DOMAIN arrived : \A i \in 1..(j - 1) :
        /\ TypeOf[arrived[i]] = TypeOf[arrived[j]]
        /\ PriorityOf[arrived[i]] = PriorityOf[arrived[j]]
        /\ Begun(arrived[j])
        => Begun(arrived[i])

\* Until shutdown() the events of one type and priority begin in the order they
\* were put, whatever publishers were held back in between.
FifoWhileRunning == ~shuttingDown => InOrder

\* Together: of what was published, each subscriber hears each event that concerns it once, and
\* in order, whatever fails or is cancelled between.
DeliveryIsSound == Conservation /\ EveryoneHearsOnce /\ FifoWhileRunning

\* "Higher priority events are dequeued before lower priority ones": an event
\* leaves its queue for a worker only when no more urgent one is left there.
UrgentStep ==
    \A t \in Types, e \in Events :
        worker[t].job.ev # e /\ worker'[t].job.ev = e =>
           \A f \in Events : Queued(f)' /\ TypeOf[f] = t => PriorityOf[e] <= PriorityOf[f]
UrgentFirst == [][UrgentStep]_vars

\* Each event lives the life EventLifecycle promises.
StatusOf(e) ==
    CASE call[e] = "idle" -> "new"
      [] call[e] = "blocked" -> "waiting"
      [] call[e] \in {"refused", "dropped"} -> call[e]
      [] call[e] = "returned" /\ fate[e] # "pending" -> fate[e]
      [] call[e] = "returned" /\ fate[e] = "pending" /\ Queued(e) -> "accepted"
      [] OTHER -> "taken"

Lifecycle == INSTANCE EventLifecycle WITH
                 status <- [e \in Events |-> StatusOf(e)], closing <- shuttingDown
ImplementsLifecycle == Lifecycle!Spec

\* A published event whose type has a worker is taken up and its delivery ends,
\* unless the bus is shut down or a handler has ended the worker first.
WorkerLives(t) == worker[t].pc \notin {"none", "stopped"}
EventuallyDelivered ==
    \A e \in Events :
        (call[e] = "returned" /\ WorkerLives(TypeOf[e]))
            ~> (fate[e] # "pending" \/ shuttingDown \/ ~WorkerLives(TypeOf[e]))

\* A publisher held back by a full queue gets its event in, unless the bus is
\* shut down or a handler has ended the worker first.
BackpressureEnds ==
    \A e \in Events :
        (call[e] = "blocked" /\ WorkerLives(TypeOf[e]))
            ~> (call[e] = "returned" \/ shuttingDown \/ ~WorkerLives(TypeOf[e]))

\* shutdown() comes to an end, whatever it meets.
ShutdownEnds == shuttingDown ~> down.pc \in {"done", "aborted"}

\* Together: nothing waits for ever, be it an event, a publisher or a shutdown.
EveryWaitEnds == EventuallyDelivered /\ BackpressureEnds /\ ShutdownEnds

-----------------------------------------------------------------------------
(* What the source says of itself and the code does not do.                *)

\* "Graceful shutdown drains all queues".
ShutdownDrainsAll == down.pc = "done" => \A t \in Types : IsEmpty(queue[t])
=============================================================================
