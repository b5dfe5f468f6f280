--------------------------- MODULE EventBus_proofs ---------------------------
(* Theorems about EventBus.tla, for every set of types, events, subscribers *)
(* and every queue size.                                                    *)
EXTENDS EventBus, TLAPS

\* The queue discipline: what is taken from a queue that is not empty is an event
\* of that queue, and what stays is a queue.
LEMMA LevelOfQueue ==
    ASSUME NEW q \in [Priorities -> Seq(Events)], ~IsEmpty(q)
    PROVE  /\ Level(q) \in Priorities
           /\ q[Level(q)] # <<>>
           /\ \A r \in Priorities : r < Level(q) => q[r] = <<>>
<1> DEFINE Best(p) == q[p] # <<>> /\ \A r \in Priorities : r < p => q[r] = <<>>
<1>1. \E p \in Priorities : Best(p)
  <2>1. PICK p \in Priorities : q[p] # <<>>
    BY DEF IsEmpty
  <2>2. CASE q[0] # <<>>
    BY <2>2 DEF Priorities
  <2>3. CASE q[0] = <<>> /\ q[1] # <<>>
    BY <2>3 DEF Priorities
  <2>4. CASE q[0] = <<>> /\ q[1] = <<>> /\ q[2] # <<>>
    BY <2>4 DEF Priorities
  <2>5. CASE q[0] = <<>> /\ q[1] = <<>> /\ q[2] = <<>> /\ q[3] # <<>>
    BY <2>5 DEF Priorities
  <2>6. CASE q[0] = <<>> /\ q[1] = <<>> /\ q[2] = <<>> /\ q[3] = <<>>
    BY <2>1, <2>6 DEF Priorities
  <2> QED
    BY <2>2, <2>3, <2>4, <2>5, <2>6
<1> QED
  BY <1>1 DEF Level

LEMMA TakeTyped ==
    ASSUME NEW q \in [Priorities -> Seq(Events)], ~IsEmpty(q)
    PROVE  First(q) \in Events /\ Rest(q) \in [Priorities -> Seq(Events)]
BY LevelOfQueue DEF First, Rest

LEMMA ContentsTyped ==
    ASSUME NEW q \in [Priorities -> Seq(Events)]
    PROVE  Contents(q) \in Seq(Events)
<1>1. q[0] \in Seq(Events) /\ q[1] \in Seq(Events) /\ q[2] \in Seq(Events)
      /\ q[3] \in Seq(Events) /\ q[4] \in Seq(Events)
  BY DEF Priorities
<1> QED
  BY <1>1 DEF Contents

\* A job that goes on stays a job.
LEMMA JobTyped ==
    ASSUME NEW job \in Delivery, job # Idle, Len(job.todo) > 0
    PROVE  AfterOne(job) \in Delivery
BY DEF AfterOne, Delivery, Idle

-----------------------------------------------------------------------------
(* Type correctness.                                                       *)

\* A delivery under way has an event and a handler left to run; a task that
\* delivers nothing holds the idle job.
JobOK(job) == job = Idle \/ (job.ev \in Events /\ job.todo # <<>>)
BusyOK ==
    /\ \A t \in Types : JobOK(worker[t].job)
    /\ \A t \in Types : worker[t].pc = "busy" => worker[t].job # Idle
    /\ JobOK(down.job)

IInv == TypeOK /\ BusyOK

USE BusAssumption

LEMMA InitIInv == Init => IInv
<1> SUFFICES ASSUME Init PROVE IInv
  OBVIOUS
<1>1. NoQueue \in [Priorities -> Seq(Events)] /\ Idle \in Delivery
  BY DEF NoQueue, Idle, Delivery
<1>2. started \in BOOLEAN /\ shuttingDown \in BOOLEAN
  BY Zenon DEF Init
<1>3. worker \in [Types -> [pc : WorkerPc, job : Delivery]]
  BY <1>1 DEF Init, WorkerPc
<1>4. down \in [pc : DownPc, next : Nat \ {0}, size : Nat, drained : Seq(Events), job : Delivery]
  BY <1>1 DEF Init, DownPc
<1>5. TypeOK
  BY <1>1, <1>2, <1>3, <1>4 DEF Init, TypeOK
<1>6. BusyOK
  BY DEF Init, BusyOK, JobOK
<1> QED
  BY <1>5, <1>6 DEF IInv

LEMMA BeginTyped ==
    ASSUME TypeOK, NEW e \in Events
    PROVE  /\ Begin(e) \in Delivery
           /\ JobOK(Begin(e))
           /\ ~Unheard(e) => Begin(e) # Idle
<1>1. subs[TypeOf[e]] \in Seq(Subscribers)
  BY DEF TypeOK
<1> QED
  BY <1>1 DEF Begin, Unheard, Idle, Delivery, JobOK

LEMMA AfterOneTyped ==
    ASSUME NEW job \in Delivery, JobOK(job), job # Idle
    PROVE  /\ AfterOne(job) \in Delivery /\ JobOK(AfterOne(job))
           /\ Head(job.todo) \in Subscribers /\ job.ev \in Events
<1>1. job.todo \in Seq(Subscribers) /\ job.todo # <<>> /\ job.ev \in Events
  BY DEF Delivery, JobOK
<1>2. Head(job.todo) \in Subscribers /\ Tail(job.todo) \in Seq(Subscribers)
  BY <1>1
<1>3. CASE Len(job.todo) = 1
  BY <1>1, <1>2, <1>3 DEF AfterOne, Delivery, Idle, JobOK
<1>4. CASE Len(job.todo) # 1
  <2>1. Tail(job.todo) # <<>>
    <3>1. Len(job.todo) \in Nat /\ Len(job.todo) # 0
      BY <1>1
    <3>2. Len(Tail(job.todo)) = Len(job.todo) - 1
      BY <1>1
    <3>3. Len(Tail(job.todo)) # 0
      BY <1>4, <3>1, <3>2
    <3>4. Len(<<>>) = 0
      OBVIOUS
    <3> QED
      BY <3>3, <3>4
  <2>2. AfterOne(job) = [job EXCEPT !.todo = Tail(@)]
    BY <1>4 DEF AfterOne
  <2> QED
    BY <1>1, <1>2, <2>1, <2>2 DEF Delivery, JobOK
<1> QED
  BY <1>3, <1>4

LEMMA PutTyped ==
    ASSUME TypeOK, NEW e \in Events, Put(e)
    PROVE  /\ queue' \in [Types -> [Priorities -> Seq(Events)]]
           /\ arrived' \in Seq(Events)
           /\ call' \in [Events -> {"idle", "blocked", "returned", "refused", "dropped"}]
BY DEF TypeOK, Put

LEMMA NoteBeginTyped ==
    ASSUME TypeOK, NEW e \in Events, NoteBegin(e)
    PROVE  /\ fate' \in [Events -> {"pending", "handled", "unheard", "cut"}]
           /\ audience' \in [Events -> SUBSET Subscribers]
           /\ heard' = heard /\ arrived' = arrived
<1>1. Range(subs[TypeOf[e]]) \subseteq Subscribers
  <2>1. subs[TypeOf[e]] \in Seq(Subscribers)
    BY DEF TypeOK
  <2> QED
    BY <2>1 DEF Range
<1> QED
  BY <1>1 DEF TypeOK, NoteBegin

LEMMA NoteEndTyped ==
    ASSUME TypeOK, NEW job \in Delivery, JobOK(job), job # Idle, NoteEnd(job)
    PROVE  /\ fate' \in [Events -> {"pending", "handled", "unheard", "cut"}]
           /\ heard' \in [Events -> Seq(Subscribers)]
           /\ audience' = audience /\ arrived' = arrived
BY AfterOneTyped, SMTT(30) DEF TypeOK, NoteEnd

LEMMA StartIInv == ASSUME IInv, Start PROVE IInv'
BY DEF IInv, TypeOK, BusyOK, Start, history

LEMMA SubscribeIInv == ASSUME IInv, NEW s \in Subscribers, Subscribe(s) PROVE IInv'
<1> DEFINE t == Interest[s]
<1>1. t \in Types
  OBVIOUS
<1>2. subs' \in [Types -> Seq(Subscribers)] /\ keys' \in Seq(Types)
  BY <1>1 DEF IInv, TypeOK, Subscribe
<1>3. worker' \in [Types -> [pc : WorkerPc, job : Delivery]]
  <2>1. worker[t] \in [pc : WorkerPc, job : Delivery]
    BY <1>1 DEF IInv, TypeOK
  <2>2. [worker[t] EXCEPT !.pc = "ready"] \in [pc : WorkerPc, job : Delivery]
    BY <2>1 DEF WorkerPc
  <2>3. \/ worker' = worker
        \/ worker' = [worker EXCEPT ![t] = [worker[t] EXCEPT !.pc = "ready"]]
    BY DEF Subscribe
  <2> QED
    BY <1>1, <2>2, <2>3 DEF IInv, TypeOK
<1>4. BusyOK'
  BY <1>1 DEF IInv, TypeOK, BusyOK, Subscribe
<1> QED
  BY <1>2, <1>3, <1>4 DEF IInv, TypeOK, Subscribe, history

LEMMA UnsubscribeIInv == ASSUME IInv, NEW s \in Subscribers, Unsubscribe(s) PROVE IInv'
<1> DEFINE t == Interest[s]
<1>1. t \in Types /\ subs[t] \in Seq(Subscribers)
  BY DEF IInv, TypeOK
<1>2. subs' \in [Types -> Seq(Subscribers)]
  <2>1. PICK i \in DOMAIN subs[t] : subs' = [subs EXCEPT ![t] = RemoveAt(subs[t], i)]
    BY DEF Unsubscribe
  <2>2. RemoveAt(subs[t], i) \in Seq(Subscribers)
    BY <1>1 DEF RemoveAt
  <2> QED
    BY <1>1, <2>1, <2>2 DEF IInv, TypeOK
<1> QED
  BY <1>2 DEF IInv, TypeOK, BusyOK, Unsubscribe, history

LEMMA PublishIInv == ASSUME IInv, NEW e \in Events, Publish(e) \/ Retry(e) PROVE IInv'
<1>1. CASE Put(e)
  BY <1>1, PutTyped DEF IInv, TypeOK, BusyOK, Publish, Retry
<1>2. CASE ~Put(e)
  BY <1>2 DEF IInv, TypeOK, BusyOK, Publish, Retry
<1> QED
  BY <1>1, <1>2

LEMMA TakeIInv == ASSUME IInv, NEW t \in Types, ~IsEmpty(queue[t]), Take(t) PROVE IInv'
<1> DEFINE e == First(queue[t])
<1>1. e \in Events /\ Rest(queue[t]) \in [Priorities -> Seq(Events)]
  BY TakeTyped DEF IInv, TypeOK
<1>2. /\ Begin(e) \in Delivery /\ JobOK(Begin(e)) /\ (~Unheard(e) => Begin(e) # Idle)
      /\ NoteBegin(e)
  BY <1>1, BeginTyped DEF IInv, Take
<1>3. worker' \in [Types -> [pc : WorkerPc, job : Delivery]]
  BY <1>2 DEF IInv, TypeOK, Take, WorkerPc
<1>4. queue' \in [Types -> [Priorities -> Seq(Events)]]
  BY <1>1 DEF IInv, TypeOK, Take
<1>5. BusyOK'
  BY <1>2 DEF IInv, TypeOK, BusyOK, Take
<1> QED
  BY <1>1, <1>2, <1>3, <1>4, <1>5, NoteBeginTyped DEF IInv, TypeOK, Take

LEMMA TurnIInv == ASSUME IInv, NEW t \in Types, Turn(t) PROVE IInv'
<1>1. CASE ~IsEmpty(queue[t]) /\ Take(t)
  BY <1>1, TakeIInv
<1>2. CASE /\ worker[t].pc = "ready"
           /\ worker' = [worker EXCEPT ![t].pc = IF shuttingDown THEN "stopped" ELSE "waiting"]
           /\ UNCHANGED <<started, shuttingDown, subs, keys, queue, call, down, history>>
  <2> DEFINE pc == IF shuttingDown THEN "stopped" ELSE "waiting"
  <2>1. worker[t] \in [pc : WorkerPc, job : Delivery]
    BY DEF IInv, TypeOK
  <2>2. pc \in WorkerPc /\ pc # "busy"
    BY DEF WorkerPc
  <2>3. [worker[t] EXCEPT !.pc = pc] \in [pc : WorkerPc, job : Delivery]
    BY <2>1, <2>2
  <2>4. worker' = [worker EXCEPT ![t] = [worker[t] EXCEPT !.pc = pc]]
    BY <1>2
  <2> HIDE DEF pc
  <2>5. /\ worker'[t].pc = pc /\ worker'[t].job = worker[t].job
        /\ \A u \in Types : u # t => worker'[u] = worker[u]
    BY <2>1, <2>4 DEF IInv, TypeOK
  <2>6. BusyOK'
    BY <1>2, <2>2, <2>5 DEF IInv, BusyOK
  <2>7. worker' \in [Types -> [pc : WorkerPc, job : Delivery]]
    BY <2>3, <2>4 DEF IInv, TypeOK
  <2>8. started' \in BOOLEAN /\ shuttingDown' \in BOOLEAN
    BY <1>2 DEF IInv, TypeOK
  <2> QED
    BY <1>2, <2>6, <2>7, <2>8 DEF IInv, TypeOK, history
<1> QED
  BY <1>1, <1>2 DEF Turn

LEMMA HandlerEndsIInv == ASSUME IInv, NEW t \in Types, HandlerEnds(t) PROVE IInv'
<1> DEFINE job == worker[t].job
           left == AfterOne(job)
<1>1. job \in Delivery /\ JobOK(job) /\ job # Idle
  BY DEF IInv, TypeOK, BusyOK, HandlerEnds
<1>2. left \in Delivery /\ JobOK(left) /\ NoteEnd(job)
  BY <1>1, AfterOneTyped DEF HandlerEnds
<1>3. worker' \in [Types -> [pc : WorkerPc, job : Delivery]]
  BY <1>2 DEF IInv, TypeOK, HandlerEnds, WorkerPc
<1>4. BusyOK'
  BY <1>2 DEF IInv, TypeOK, BusyOK, HandlerEnds
<1> QED
  BY <1>1, <1>2, <1>3, <1>4, NoteEndTyped DEF IInv, TypeOK, HandlerEnds

LEMMA HandlerCancelledIInv == ASSUME IInv, NEW t \in Types, HandlerCancelled(t) PROVE IInv'
<1>1. Idle \in Delivery /\ JobOK(Idle)
  BY DEF Idle, Delivery, JobOK
<1>2. worker' \in [Types -> [pc : WorkerPc, job : Delivery]]
  BY <1>1 DEF IInv, TypeOK, HandlerCancelled, WorkerPc
<1>3. BusyOK'
  BY <1>1 DEF IInv, TypeOK, BusyOK, HandlerCancelled
<1>4. fate' \in [Events -> {"pending", "handled", "unheard", "cut"}]
  BY DEF IInv, TypeOK, HandlerCancelled
<1> QED
  BY <1>2, <1>3, <1>4 DEF IInv, TypeOK, HandlerCancelled

LEMMA DrainFromIInv ==
    ASSUME IInv, NEW i \in Nat \ {0}, DrainFrom(i),
           shuttingDown' \in BOOLEAN,
           UNCHANGED <<started, subs, keys, call>>
    PROVE  IInv'
<1>1. Idle \in Delivery /\ JobOK(Idle)
  BY DEF Idle, Delivery, JobOK
<1>2. ASSUME NEW j \in Loaded(i), UNCHANGED <<worker, history>>,
             queue' = [queue EXCEPT ![keys[j]] = NoQueue],
             down' = [pc |-> "draining", next |-> j + 1, size |-> Len(keys),
                      drained |-> Contents(queue[keys[j]]), job |-> Idle]
      PROVE  IInv'
  <2>1. j \in Nat /\ keys[j] \in Types /\ Len(keys) \in Nat
    BY DEF IInv, TypeOK, Loaded
  <2>2. Contents(queue[keys[j]]) \in Seq(Events)
    BY <2>1, ContentsTyped DEF IInv, TypeOK
  <2>3. NoQueue \in [Priorities -> Seq(Events)]
    BY DEF NoQueue
  <2>4. down' \in [pc : DownPc, next : Nat \ {0}, size : Nat, drained : Seq(Events), job : Delivery]
    BY <1>1, <1>2, <2>1, <2>2 DEF DownPc
  <2>5. queue' \in [Types -> [Priorities -> Seq(Events)]]
    BY <1>2, <2>1, <2>3 DEF IInv, TypeOK
  <2>6. BusyOK'
    BY <1>1, <1>2 DEF IInv, BusyOK
  <2> QED
    BY <1>2, <2>4, <2>5, <2>6 DEF IInv, TypeOK, history
<1>3. CASE CancelWorkers /\ down' = [down EXCEPT !.pc = "gather", !.next = i]
  <2>1. worker' \in [Types -> [pc : WorkerPc, job : Delivery]]
    BY <1>1, <1>3 DEF IInv, TypeOK, CancelWorkers, WorkerPc
  <2>2. down' \in [pc : DownPc, next : Nat \ {0}, size : Nat, drained : Seq(Events), job : Delivery]
        /\ down'.job = down.job
    BY <1>3 DEF IInv, TypeOK, DownPc
  <2>3. BusyOK'
    BY <1>1, <1>3, <2>2 DEF IInv, TypeOK, BusyOK, CancelWorkers
  <2>4. fate' \in [Events -> {"pending", "handled", "unheard", "cut"}]
    BY <1>3 DEF IInv, TypeOK, CancelWorkers
  <2> QED
    BY <1>3, <2>1, <2>2, <2>3, <2>4 DEF IInv, TypeOK, CancelWorkers
<1> QED
  BY <1>2, <1>3 DEF DrainFrom

LEMMA ShutdownIInv == ASSUME IInv, Shutdown PROVE IInv'
BY DrainFromIInv DEF Shutdown

LEMMA DownNextIInv == ASSUME IInv, DownNext PROVE IInv'
<1>1. CASE Len(keys) = down.size
  <2>1. down.next \in Nat \ {0} /\ shuttingDown' \in BOOLEAN
    BY DEF IInv, TypeOK, DownNext
  <2> QED
    BY <1>1, <2>1, DrainFromIInv DEF DownNext
<1>2. CASE Len(keys) # down.size
  <2>1. /\ down' = [down EXCEPT !.pc = "aborted"]
        /\ UNCHANGED <<started, shuttingDown, subs, keys, call, queue, worker, history>>
    BY <1>2 DEF DownNext
  <2>2. /\ down' \in [pc : DownPc, next : Nat \ {0}, size : Nat, drained : Seq(Events), job : Delivery]
        /\ down'.job = down.job
    BY <2>1 DEF IInv, TypeOK, DownPc
  <2> QED
    BY <2>1, <2>2 DEF IInv, TypeOK, BusyOK, history
<1> QED
  BY <1>1, <1>2

LEMMA DownDeliverIInv == ASSUME IInv, DownDeliver PROVE IInv'
<1> DEFINE e == Head(down.drained)
<1>1. e \in Events /\ Tail(down.drained) \in Seq(Events)
  BY DEF IInv, TypeOK, DownDeliver
<1>2. Begin(e) \in Delivery /\ JobOK(Begin(e)) /\ NoteBegin(e)
  BY <1>1, BeginTyped DEF IInv, DownDeliver
<1>3. /\ down' \in [pc : DownPc, next : Nat \ {0}, size : Nat, drained : Seq(Events), job : Delivery]
      /\ down'.job = Begin(e)
  BY <1>1, <1>2 DEF IInv, TypeOK, DownDeliver
<1> QED
  BY <1>1, <1>2, <1>3, NoteBeginTyped DEF IInv, TypeOK, BusyOK, DownDeliver

LEMMA DownHandlerEndsIInv == ASSUME IInv, DownHandlerEnds PROVE IInv'
<1>1. down.job \in Delivery /\ JobOK(down.job) /\ down.job # Idle
  BY DEF IInv, TypeOK, BusyOK, DownHandlerEnds, DrainBusy
<1>2. AfterOne(down.job) \in Delivery /\ JobOK(AfterOne(down.job)) /\ NoteEnd(down.job)
  BY <1>1, AfterOneTyped DEF DownHandlerEnds
<1>3. /\ down' \in [pc : DownPc, next : Nat \ {0}, size : Nat, drained : Seq(Events), job : Delivery]
      /\ down'.job = AfterOne(down.job)
  BY <1>2 DEF IInv, TypeOK, DownHandlerEnds
<1> QED
  BY <1>1, <1>2, <1>3, NoteEndTyped DEF IInv, TypeOK, BusyOK, DownHandlerEnds

LEMMA DownHandlerCancelledIInv == ASSUME IInv, DownHandlerCancelled PROVE IInv'
<1>1. Idle \in Delivery /\ JobOK(Idle)
  BY DEF Idle, Delivery, JobOK
<1>2. /\ down' \in [pc : DownPc, next : Nat \ {0}, size : Nat, drained : Seq(Events), job : Delivery]
      /\ down'.job = Idle
  BY <1>1 DEF IInv, TypeOK, DownHandlerCancelled, DownPc
<1>3. fate' \in [Events -> {"pending", "handled", "unheard", "cut"}]
  BY DEF IInv, TypeOK, DownHandlerCancelled
<1> QED
  BY <1>1, <1>2, <1>3 DEF IInv, TypeOK, BusyOK, DownHandlerCancelled

LEMMA DownClearIInv == ASSUME IInv, DownClear PROVE IInv'
<1>1. Idle \in Delivery /\ JobOK(Idle)
  BY DEF Idle, Delivery, JobOK
<1>2. /\ down' \in [pc : DownPc, next : Nat \ {0}, size : Nat, drained : Seq(Events), job : Delivery]
      /\ down'.job = down.job
  BY DEF IInv, TypeOK, DownClear, DownPc
<1>3. worker' \in [Types -> [pc : WorkerPc, job : Delivery]]
  BY <1>1 DEF DownClear, WorkerPc
<1> QED
  BY <1>1, <1>2, <1>3 DEF IInv, TypeOK, BusyOK, DownClear, history

\* One step keeps the inductive invariant, whichever action it is.
LEMMA NextIInv == IInv /\ [Next]_vars => IInv'
<1> SUFFICES ASSUME IInv, [Next]_vars PROVE IInv'
  OBVIOUS
<1>1. CASE CallerStep
  <2>1. CASE Start
    BY <2>1, StartIInv
  <2>2. CASE Shutdown
    BY <2>2, ShutdownIInv
  <2>3. CASE \E s \in Subscribers : Subscribe(s) \/ Unsubscribe(s)
    BY <2>3, SubscribeIInv, UnsubscribeIInv
  <2>4. CASE \E e \in Events : Publish(e)
    BY <2>4, PublishIInv
  <2>5. CASE \E t \in Types : HandlerCancelled(t)
    BY <2>5, HandlerCancelledIInv
  <2> QED
    BY <1>1, <2>1, <2>2, <2>3, <2>4, <2>5 DEF CallerStep
<1>2. CASE \E e \in Events : RetryStep(e)
  BY <1>2, PublishIInv DEF RetryStep
<1>3. CASE \E t \in Types : WorkerStep(t)
  <2>1. ASSUME NEW t \in Types, Wake(t) PROVE IInv'
    BY <2>1, TakeIInv DEF Wake
  <2> QED
    BY <1>3, <2>1, TurnIInv, HandlerEndsIInv DEF WorkerStep
<1>4. CASE DownStep \/ DownHandlerCancelled
  BY <1>4, DownDeliverIInv, DownHandlerEndsIInv, DownNextIInv, DownClearIInv,
     DownHandlerCancelledIInv DEF DownStep
<1>5. CASE UNCHANGED vars
  BY <1>5 DEF vars, history, IInv, TypeOK, BusyOK
<1> QED
  BY <1>1, <1>2, <1>3, <1>4, <1>5 DEF Next

LEMMA InvariantIInv == Spec => []IInv
<1>1. Init => IInv
  BY InitIInv
<1>2. IInv /\ [Next]_vars => IInv'
  BY NextIInv
<1> QED
  BY <1>1, <1>2, PTL DEF Spec

\* The bus never holds a value of the wrong shape: the queues hold events only,
\* deliveries have an event and a list of subscribers, every task is in a state
\* the code knows.
THEOREM TypeCorrect == Spec => []TypeOK
<1>1. IInv => TypeOK
  BY DEF IInv
<1> QED
  BY <1>1, InvariantIInv, PTL

-----------------------------------------------------------------------------
(* The bound on the queues.                                                *)

LEMMA TotalIsSum ==
    ASSUME NEW q \in [Priorities -> Seq(Events)]
    PROVE  /\ Total(q) = Len(q[0]) + Len(q[1]) + Len(q[2]) + Len(q[3]) + Len(q[4])
           /\ Total(q) \in Nat
           /\ \A p \in Priorities : Len(q[p]) \in Nat
<1>1. q[0] \in Seq(Events) /\ q[1] \in Seq(Events) /\ q[2] \in Seq(Events)
      /\ q[3] \in Seq(Events) /\ q[4] \in Seq(Events)
  BY DEF Priorities
<1>2. Total(q) = Len(q[0]) + Len(q[1]) + Len(q[2]) + Len(q[3]) + Len(q[4])
  BY <1>1 DEF Total, Contents
<1>3. \A p \in Priorities : Len(q[p]) \in Nat
  OBVIOUS
<1>4. /\ Len(q[0]) \in Nat /\ Len(q[1]) \in Nat /\ Len(q[2]) \in Nat
      /\ Len(q[3]) \in Nat /\ Len(q[4]) \in Nat
  BY <1>1
<1>5. \A a, b, c, d, e \in Nat : a + b + c + d + e \in Nat
  OBVIOUS
<1>6. Len(q[0]) + Len(q[1]) + Len(q[2]) + Len(q[3]) + Len(q[4]) \in Nat
  BY <1>4, <1>5
<1> QED
  BY <1>2, <1>3, <1>6

\* Sums of five numbers that differ in one place, of numbers and of functions.
LEMMA SumsDiffer ==
    ASSUME NEW a0 \in Nat, NEW a1 \in Nat, NEW a2 \in Nat, NEW a3 \in Nat, NEW a4 \in Nat,
           NEW b0 \in Nat, NEW b1 \in Nat, NEW b2 \in Nat, NEW b3 \in Nat, NEW b4 \in Nat,
           NEW p \in 0..4, NEW d \in Int,
           p # 0 => a0 = b0, p # 1 => a1 = b1, p # 2 => a2 = b2, p # 3 => a3 = b3, p # 4 => a4 = b4,
           p = 0 => d = b0 - a0, p = 1 => d = b1 - a1, p = 2 => d = b2 - a2,
           p = 3 => d = b3 - a3, p = 4 => d = b4 - a4
    PROVE  (b0 + b1 + b2 + b3 + b4) - (a0 + a1 + a2 + a3 + a4) = d
OBVIOUS

LEMMA FunctionSumsDiffer ==
    ASSUME NEW a \in [0..4 -> Nat], NEW b \in [0..4 -> Nat], NEW p \in 0..4,
           \A i \in 0..4 : i # p => b[i] = a[i]
    PROVE  (b[0] + b[1] + b[2] + b[3] + b[4]) - (a[0] + a[1] + a[2] + a[3] + a[4]) = b[p] - a[p]
<1>1. a[0] \in Nat /\ a[1] \in Nat /\ a[2] \in Nat /\ a[3] \in Nat /\ a[4] \in Nat
  OBVIOUS
<1>2. b[0] \in Nat /\ b[1] \in Nat /\ b[2] \in Nat /\ b[3] \in Nat /\ b[4] \in Nat
  OBVIOUS
<1>3. /\ (p # 0 => a[0] = b[0]) /\ (p # 1 => a[1] = b[1]) /\ (p # 2 => a[2] = b[2])
      /\ (p # 3 => a[3] = b[3]) /\ (p # 4 => a[4] = b[4])
  OBVIOUS
<1>4. b[p] - a[p] \in Int
  OBVIOUS
<1> QED
  BY <1>1, <1>2, <1>3, <1>4, SumsDiffer

\* Two queues that differ in one level differ in size as these levels do.
LEMMA TotalChange ==
    ASSUME NEW q \in [Priorities -> Seq(Events)], NEW r \in [Priorities -> Seq(Events)],
           NEW p \in Priorities, \A i \in Priorities : i # p => r[i] = q[i]
    PROVE  Total(r) - Total(q) = Len(r[p]) - Len(q[p])
<1> DEFINE a == [i \in 0..4 |-> Len(q[i])]
           b == [i \in 0..4 |-> Len(r[i])]
<1>1. a \in [0..4 -> Nat] /\ b \in [0..4 -> Nat]
  BY DEF Priorities
<1>2. p \in 0..4 /\ \A i \in 0..4 : i # p => b[i] = a[i]
  BY DEF Priorities
<1>3. /\ Total(q) = a[0] + a[1] + a[2] + a[3] + a[4]
      /\ Total(r) = b[0] + b[1] + b[2] + b[3] + b[4]
  <2>1. /\ a[0] = Len(q[0]) /\ a[1] = Len(q[1]) /\ a[2] = Len(q[2])
        /\ a[3] = Len(q[3]) /\ a[4] = Len(q[4])
        /\ b[0] = Len(r[0]) /\ b[1] = Len(r[1]) /\ b[2] = Len(r[2])
        /\ b[3] = Len(r[3]) /\ b[4] = Len(r[4])
    OBVIOUS
  <2> HIDE DEF a, b
  <2> QED
    BY <2>1, TotalIsSum, Zenon
<1>4. a[p] = Len(q[p]) /\ b[p] = Len(r[p])
  BY <1>2
<1> HIDE DEF a, b
<1>5. (b[0] + b[1] + b[2] + b[3] + b[4]) - (a[0] + a[1] + a[2] + a[3] + a[4]) = b[p] - a[p]
  BY <1>1, <1>2, FunctionSumsDiffer
<1> QED
  BY <1>3, <1>4, <1>5

LEMMA TotalAfterPut ==
    ASSUME NEW q \in [Priorities -> Seq(Events)], NEW p \in Priorities, NEW e \in Events
    PROVE  Total([q EXCEPT ![p] = Append(@, e)]) = Total(q) + 1
<1> DEFINE r == [q EXCEPT ![p] = Append(@, e)]
<1>1. r \in [Priorities -> Seq(Events)]
  OBVIOUS
<1>2. Len(r[p]) = Len(q[p]) + 1 /\ \A i \in Priorities : i # p => r[i] = q[i]
  OBVIOUS
<1>3. Total(r) - Total(q) = Len(r[p]) - Len(q[p])
  BY <1>1, <1>2, TotalChange
<1>4. Total(r) \in Nat /\ Total(q) \in Nat /\ Len(q[p]) \in Nat
  BY <1>1, TotalIsSum
<1> QED
  BY <1>2, <1>3, <1>4

LEMMA TotalAfterTake ==
    ASSUME NEW q \in [Priorities -> Seq(Events)], ~IsEmpty(q)
    PROVE  Total(Rest(q)) <= Total(q)
<1> DEFINE p == Level(q)
<1>1. p \in Priorities /\ q[p] # <<>> /\ Rest(q) \in [Priorities -> Seq(Events)]
  BY LevelOfQueue, TakeTyped
<1>2. Len(Rest(q)[p]) = Len(q[p]) - 1 /\ \A i \in Priorities : i # p => Rest(q)[i] = q[i]
  BY <1>1 DEF Rest
<1>3. Total(Rest(q)) - Total(q) = Len(Rest(q)[p]) - Len(q[p])
  BY <1>1, <1>2, TotalChange
<1>4. Total(Rest(q)) \in Nat /\ Total(q) \in Nat /\ Len(q[p]) \in Nat
  BY <1>1, TotalIsSum
<1> QED
  BY <1>2, <1>3, <1>4

LEMMA TotalOfNoQueue == Total(NoQueue) = 0
<1>1. NoQueue \in [Priorities -> Seq(Events)]
  BY DEF NoQueue
<1>2. /\ Len(NoQueue[0]) = 0 /\ Len(NoQueue[1]) = 0 /\ Len(NoQueue[2]) = 0
      /\ Len(NoQueue[3]) = 0 /\ Len(NoQueue[4]) = 0
  BY DEF NoQueue, Priorities
<1>3. Total(NoQueue) = Len(NoQueue[0]) + Len(NoQueue[1]) + Len(NoQueue[2])
                          + Len(NoQueue[3]) + Len(NoQueue[4])
  BY <1>1, TotalIsSum
<1> QED
  BY <1>2, <1>3

LEMMA PutKeepsBackpressure ==
    ASSUME TypeOK, Backpressure, NEW e \in Events, HasRoom(TypeOf[e]), Put(e)
    PROVE  Backpressure'
<1> SUFFICES ASSUME QueueSize > 0, NEW t \in Types PROVE Total(queue'[t]) <= QueueSize
  BY DEF Backpressure
<1> DEFINE q == queue[t]
<1>1. q \in [Priorities -> Seq(Events)] /\ Total(q) <= QueueSize
  BY DEF TypeOK, Backpressure
<1>2. CASE t = TypeOf[e]
  <2>1. queue'[t] = [q EXCEPT ![PriorityOf[e]] = Append(@, e)]
    BY <1>2 DEF TypeOK, Put
  <2>2. Total(q) < QueueSize
    BY <1>2 DEF HasRoom
  <2>4. Total(q) \in Nat
    BY <1>1, TotalIsSum
  <2>3. Total([q EXCEPT ![PriorityOf[e]] = Append(@, e)]) = Total(q) + 1
    BY <1>1, TotalAfterPut
  <2> QED
    BY <2>1, <2>2, <2>3, <2>4
<1>3. CASE t # TypeOf[e]
  BY <1>1, <1>3 DEF TypeOK, Put
<1> QED
  BY <1>2, <1>3

LEMMA TakeKeepsBackpressure ==
    ASSUME TypeOK, Backpressure, NEW t \in Types, ~IsEmpty(queue[t]), Take(t)
    PROVE  Backpressure'
<1> SUFFICES ASSUME QueueSize > 0, NEW u \in Types PROVE Total(queue'[u]) <= QueueSize
  BY DEF Backpressure
<1>1. queue[t] \in [Priorities -> Seq(Events)] /\ queue' = [queue EXCEPT ![t] = Rest(queue[t])]
  BY DEF TypeOK, Take
<1>2. Rest(queue[t]) \in [Priorities -> Seq(Events)] /\ Total(Rest(queue[t])) <= Total(queue[t])
  BY <1>1, TakeTyped, TotalAfterTake
<1>3. Total(Rest(queue[t])) \in Nat /\ Total(queue[t]) \in Nat
  BY <1>1, <1>2, TotalIsSum
<1>4. Total(queue[t]) <= QueueSize /\ Total(queue[u]) <= QueueSize
  BY DEF Backpressure
<1> QED
  BY <1>1, <1>2, <1>3, <1>4 DEF TypeOK

LEMMA DrainKeepsBackpressure ==
    ASSUME TypeOK, Backpressure, NEW i \in Nat \ {0}, DrainFrom(i)
    PROVE  Backpressure'
<1> SUFFICES ASSUME QueueSize > 0, NEW u \in Types PROVE Total(queue'[u]) <= QueueSize
  BY DEF Backpressure
<1>1. queue'[u] = queue[u] \/ queue'[u] = NoQueue
  BY DEF DrainFrom, CancelWorkers, TypeOK
<1>2. Total(queue[u]) <= QueueSize
  BY DEF Backpressure
<1> QED
  BY <1>1, <1>2, TotalOfNoQueue

LEMMA NextBackpressure == TypeOK /\ Backpressure /\ [Next]_vars => Backpressure'
<1> SUFFICES ASSUME TypeOK, Backpressure, [Next]_vars PROVE Backpressure'
  OBVIOUS
<1>1. CASE UNCHANGED queue
  BY <1>1 DEF Backpressure
<1>2. ASSUME NEW e \in Events, Publish(e) \/ Retry(e) PROVE Backpressure'
  BY <1>1, <1>2, PutKeepsBackpressure DEF Publish, Retry
<1>3. ASSUME NEW t \in Types, Turn(t) \/ Wake(t) PROVE Backpressure'
  BY <1>1, <1>3, TakeKeepsBackpressure DEF Turn, Wake
<1>4. CASE Shutdown
  BY <1>4, DrainKeepsBackpressure DEF Shutdown
<1>5. CASE DownNext
  <2>1. down.next \in Nat \ {0}
    BY DEF TypeOK
  <2> QED
    BY <1>1, <1>5, <2>1, DrainKeepsBackpressure DEF DownNext
<1>6. CASE CallerStep
  BY <1>1, <1>2, <1>4, <1>6 DEF CallerStep, Start, Subscribe, Unsubscribe, HandlerCancelled
<1>7. ASSUME NEW t \in Types, HandlerEnds(t) PROVE UNCHANGED queue
  BY <1>7 DEF HandlerEnds
<1>8. CASE DownDeliver \/ DownHandlerEnds \/ DownClear \/ DownHandlerCancelled
  BY <1>1, <1>8 DEF DownDeliver, DownHandlerEnds, DownClear, DownHandlerCancelled
<1> QED
  BY <1>1, <1>2, <1>3, <1>5, <1>6, <1>7, <1>8 DEF Next, RetryStep, WorkerStep, DownStep, vars

\* However many publishers wait in front of a full queue, and whether they come
\* back before or after shutdown() emptied it, no queue ever holds more than
\* event_bus_queue_size events.
THEOREM QueuesStayBounded == Spec => []Backpressure
<1>1. Init => Backpressure
  BY TotalOfNoQueue DEF Init, Backpressure
<1>2. TypeOK /\ Backpressure /\ [Next]_vars => Backpressure'
  BY NextBackpressure
<1> QED
  BY <1>1, <1>2, TypeCorrect, PTL DEF Spec

-----------------------------------------------------------------------------
(* The order of the queues.                                                *)

\* A queue holds events of its own type, each at the level of its priority.
Filed(t, q) == \A p \in Priorities : \A i \in DOMAIN q[p] :
                  TypeOf[q[p][i]] = t /\ PriorityOf[q[p][i]] = p
AllFiled == \A t \in Types : Filed(t, queue[t])

LEMMA PutFiled ==
    ASSUME TypeOK, AllFiled, NEW e \in Events, Put(e)
    PROVE  AllFiled'
<1> SUFFICES ASSUME NEW t \in Types, NEW p \in Priorities, NEW i \in DOMAIN queue'[t][p]
             PROVE  TypeOf[queue'[t][p][i]] = t /\ PriorityOf[queue'[t][p][i]] = p
  BY DEF AllFiled, Filed
<1>1. queue[t][p] \in Seq(Events)
  BY DEF TypeOK
<1>2. CASE t = TypeOf[e] /\ p = PriorityOf[e]
  <2>1. queue'[t][p] = Append(queue[t][p], e)
    BY <1>2 DEF Put, TypeOK
  <2>2. i \in DOMAIN queue[t][p] \/ queue'[t][p][i] = e
    BY <1>1, <2>1
  <2>3. i \in DOMAIN queue[t][p] => queue'[t][p][i] = queue[t][p][i]
    BY <1>1, <2>1
  <2> QED
    BY <1>2, <2>2, <2>3 DEF AllFiled, Filed
<1>3. CASE ~(t = TypeOf[e] /\ p = PriorityOf[e])
  <2>1. queue'[t][p] = queue[t][p]
    BY <1>3 DEF Put, TypeOK
  <2> QED
    BY <2>1 DEF AllFiled, Filed
<1> QED
  BY <1>2, <1>3

LEMMA RestFiled ==
    ASSUME NEW t \in Types, NEW q \in [Priorities -> Seq(Events)], ~IsEmpty(q), Filed(t, q)
    PROVE  Filed(t, Rest(q))
<1> SUFFICES ASSUME NEW p \in Priorities, NEW i \in DOMAIN Rest(q)[p]
             PROVE  TypeOf[Rest(q)[p][i]] = t /\ PriorityOf[Rest(q)[p][i]] = p
  BY DEF Filed
<1>1. q[p] \in Seq(Events) /\ Level(q) \in Priorities /\ q[Level(q)] # <<>>
  BY LevelOfQueue
<1>2. CASE p = Level(q)
  <2>1. Rest(q)[p] = Tail(q[p])
    BY <1>2 DEF Rest
  <2>2. i + 1 \in DOMAIN q[p] /\ Rest(q)[p][i] = q[p][i + 1]
    BY <1>1, <1>2, <2>1
  <2> QED
    BY <2>2 DEF Filed
<1>3. CASE p # Level(q)
  BY <1>1, <1>3 DEF Rest, Filed
<1> QED
  BY <1>2, <1>3

LEMMA TakeFiled ==
    ASSUME TypeOK, AllFiled, NEW t \in Types, ~IsEmpty(queue[t]), Take(t)
    PROVE  AllFiled'
<1>1. queue[t] \in [Priorities -> Seq(Events)] /\ queue' = [queue EXCEPT ![t] = Rest(queue[t])]
  BY DEF TypeOK, Take
<1>2. Filed(t, Rest(queue[t]))
  BY <1>1, RestFiled DEF AllFiled
<1>3. \A u \in Types : queue'[u] = IF u = t THEN Rest(queue[t]) ELSE queue[u]
  BY <1>1 DEF TypeOK
<1>4. ASSUME NEW u \in Types PROVE Filed(u, queue'[u])
  BY <1>2, <1>3 DEF AllFiled
<1> QED
  BY <1>4 DEF AllFiled, Filed

LEMMA DrainFiled ==
    ASSUME TypeOK, AllFiled, NEW i \in Nat \ {0}, DrainFrom(i)
    PROVE  AllFiled'
<1>1. ASSUME NEW u \in Types PROVE Filed(u, queue'[u])
  <2>1. queue'[u] = queue[u] \/ queue'[u] = NoQueue
    BY DEF DrainFrom, CancelWorkers, TypeOK
  <2>2. Filed(u, NoQueue)
    BY DEF Filed, NoQueue
  <2> QED
    BY <2>1, <2>2 DEF AllFiled
<1> QED
  BY <1>1 DEF AllFiled, Filed

LEMMA NextFiled == TypeOK /\ AllFiled /\ [Next]_vars => AllFiled'
<1> SUFFICES ASSUME TypeOK, AllFiled, [Next]_vars PROVE AllFiled'
  OBVIOUS
<1>1. CASE UNCHANGED queue
  BY <1>1 DEF AllFiled, Filed
<1>2. ASSUME NEW e \in Events, Publish(e) \/ Retry(e) PROVE AllFiled'
  BY <1>1, <1>2, PutFiled DEF Publish, Retry
<1>3. ASSUME NEW t \in Types, Turn(t) \/ Wake(t) PROVE AllFiled'
  BY <1>1, <1>3, TakeFiled DEF Turn, Wake
<1>4. CASE Shutdown
  BY <1>4, DrainFiled DEF Shutdown
<1>5. CASE DownNext
  <2>1. down.next \in Nat \ {0}
    BY DEF TypeOK
  <2> QED
    BY <1>1, <1>5, <2>1, DrainFiled DEF DownNext
<1>6. CASE CallerStep
  BY <1>1, <1>2, <1>4, <1>6 DEF CallerStep, Start, Subscribe, Unsubscribe, HandlerCancelled
<1>7. ASSUME NEW t \in Types, HandlerEnds(t) PROVE UNCHANGED queue
  BY <1>7 DEF HandlerEnds
<1>8. CASE DownDeliver \/ DownHandlerEnds \/ DownClear \/ DownHandlerCancelled
  BY <1>1, <1>8 DEF DownDeliver, DownHandlerEnds, DownClear, DownHandlerCancelled
<1> QED
  BY <1>1, <1>2, <1>3, <1>5, <1>6, <1>7, <1>8 DEF Next, RetryStep, WorkerStep, DownStep, vars

LEMMA QueuedFiled ==
    ASSUME AllFiled', NEW f \in Events, Queued(f)'
    PROVE  \E i \in DOMAIN queue'[TypeOf[f]][PriorityOf[f]] : queue'[TypeOf[f]][PriorityOf[f]][i] = f
<1>1. PICK t \in Types, p \in Priorities : \E i \in DOMAIN queue'[t][p] : queue'[t][p][i] = f
  BY DEF Queued, QueuePlaces
<1> QED
  BY <1>1 DEF AllFiled, Filed

LEMMA TakeUrgent ==
    ASSUME TypeOK, AllFiled, AllFiled', NEW t \in Types, ~IsEmpty(queue[t]), Take(t)
    PROVE  UrgentStep
<1> DEFINE q == queue[t]
<1>1. /\ q \in [Priorities -> Seq(Events)] /\ Filed(t, q)
      /\ queue' = [queue EXCEPT ![t] = Rest(q)]
  BY DEF TypeOK, AllFiled, Take
<1>2. /\ Level(q) \in Priorities /\ q[Level(q)] \in Seq(Events) /\ q[Level(q)] # <<>>
      /\ \A r \in Priorities : r < Level(q) => q[r] = <<>>
  BY <1>1, LevelOfQueue
<1>3. PriorityOf[First(q)] = Level(q) /\ First(q) \in Events
  <2>1. First(q) = q[Level(q)][1] /\ 1 \in DOMAIN q[Level(q)]
    BY <1>2 DEF First
  <2> QED
    BY <1>1, <1>2, <2>1 DEF Filed
<1>4. /\ worker'[t].job = Begin(First(q))
      /\ \A u \in Types : u # t => worker'[u] = worker[u]
  BY DEF TypeOK, Take
<1>5. ASSUME NEW f \in Events, Queued(f)', TypeOf[f] = t
      PROVE  Level(q) <= PriorityOf[f]
  <2>1. queue'[t][PriorityOf[f]] # <<>>
    BY <1>5, QueuedFiled
  <2>2. PriorityOf[f] \in Priorities /\ queue'[t] = Rest(q)
    BY <1>1 DEF TypeOK
  <2>3. PriorityOf[f] < Level(q) => Rest(q)[PriorityOf[f]] = <<>>
    BY <1>1, <1>2, <2>2 DEF Rest, Priorities
  <2> QED
    BY <1>2, <2>1, <2>2, <2>3 DEF Priorities
<1>6. ASSUME NEW u \in Types, NEW e \in Events,
             worker[u].job.ev # e, worker'[u].job.ev = e
      PROVE  u = t /\ e = First(q)
  BY <1>4, <1>6 DEF Begin, Idle
<1> QED
  BY <1>3, <1>5, <1>6 DEF UrgentStep

LEMMA CalmStep ==
    ASSUME \A t \in Types : worker'[t].job.ev \in {worker[t].job.ev, NoEvent}
    PROVE  UrgentStep
BY DEF UrgentStep

LEMMA NextUrgent == IInv /\ AllFiled /\ AllFiled' /\ [Next]_vars => UrgentStep
<1> SUFFICES ASSUME IInv, AllFiled, AllFiled', [Next]_vars PROVE UrgentStep
  OBVIOUS
<1> DEFINE Calm == \A t \in Types : worker'[t].job.ev \in {worker[t].job.ev, NoEvent}
<1>1. CASE UNCHANGED worker
  BY <1>1, CalmStep
<1>2. ASSUME NEW t \in Types, Turn(t) \/ Wake(t) PROVE UrgentStep
  <2>1. CASE ~IsEmpty(queue[t]) /\ Take(t)
    BY <2>1, TakeUrgent DEF IInv
  <2>2. CASE ~Take(t)
    <3>1. UNCHANGED worker \/ worker' = [worker EXCEPT ![t].pc = IF shuttingDown THEN "stopped" ELSE "waiting"]
      BY <1>2, <2>2 DEF Turn, Wake
    <3>2. worker \in [Types -> [pc : WorkerPc, job : Delivery]]
      BY DEF IInv, TypeOK
    <3>3. \A u \in Types : worker'[u].job = worker[u].job
      BY <3>1, <3>2
    <3> QED
      BY <3>3, CalmStep
  <2>3. CASE IsEmpty(queue[t])
    <3>1. UNCHANGED worker \/ worker' = [worker EXCEPT ![t].pc = IF shuttingDown THEN "stopped" ELSE "waiting"]
      BY <1>2, <2>3 DEF Turn, Wake
    <3>2. worker \in [Types -> [pc : WorkerPc, job : Delivery]]
      BY DEF IInv, TypeOK
    <3>3. \A u \in Types : worker'[u].job = worker[u].job
      BY <3>1, <3>2
    <3> QED
      BY <3>3, CalmStep
  <2> QED
    BY <2>1, <2>2, <2>3
<1>3. ASSUME NEW t \in Types, HandlerEnds(t) \/ HandlerCancelled(t) PROVE UrgentStep
  <2>1. worker \in [Types -> [pc : WorkerPc, job : Delivery]]
    BY DEF IInv, TypeOK
  <2>2. AfterOne(worker[t].job).ev \in {worker[t].job.ev, NoEvent} /\ Idle.ev = NoEvent
    BY <2>1 DEF AfterOne, Idle, Delivery
  <2>3. /\ worker'[t].job \in {AfterOne(worker[t].job), Idle}
        /\ \A u \in Types : u # t => worker'[u] = worker[u]
    BY <1>3, <2>1 DEF HandlerEnds, HandlerCancelled
  <2>4. Calm
    BY <2>2, <2>3
  <2> QED
    BY <2>4, CalmStep
<1>4. ASSUME NEW s \in Subscribers, Subscribe(s) PROVE UrgentStep
  <2>1. Calm
    BY <1>4 DEF Subscribe, IInv, TypeOK
  <2> QED
    BY <2>1, CalmStep
<1>5. ASSUME NEW i \in Nat, DrainFrom(i) PROVE UrgentStep
  <2>1. Calm
    BY <1>5 DEF DrainFrom, CancelWorkers, Idle
  <2> QED
    BY <2>1, CalmStep
<1>6. CASE Shutdown
  BY <1>5, <1>6 DEF Shutdown
<1>7. CASE DownNext
  BY <1>1, <1>5, <1>7 DEF DownNext, IInv, TypeOK
<1>8. CASE DownClear
  <2>1. Calm
    BY <1>8 DEF DownClear, Idle
  <2> QED
    BY <2>1, CalmStep
<1>9. CASE CallerStep
  BY <1>1, <1>3, <1>4, <1>6, <1>9 DEF CallerStep, Start, Unsubscribe, Publish
<1>10. CASE \E e \in Events : RetryStep(e)
  BY <1>1, <1>10 DEF RetryStep, Retry
<1>11. CASE DownDeliver \/ DownHandlerEnds \/ DownHandlerCancelled
  BY <1>1, <1>11 DEF DownDeliver, DownHandlerEnds, DownHandlerCancelled
<1> QED
  BY <1>1, <1>2, <1>3, <1>7, <1>8, <1>9, <1>10, <1>11 DEF Next, WorkerStep, DownStep, vars

\* A worker never takes an event while a more urgent one of the same type waits
\* in the queue, whatever publishers, subscribers and shutdown() do meanwhile.
THEOREM UrgentEventsFirst == Spec => UrgentFirst
<1>1. Init => AllFiled
  BY DEF Init, AllFiled, Filed, NoQueue
<1>2. TypeOK /\ AllFiled /\ [Next]_vars => AllFiled'
  BY NextFiled
<1>3. Spec => []AllFiled
  BY <1>1, <1>2, TypeCorrect, PTL DEF Spec
<1>4. IInv /\ AllFiled /\ AllFiled' /\ [Next]_vars => [UrgentStep]_vars
  BY NextUrgent
<1>5. Spec => [][UrgentStep]_vars
  BY <1>3, <1>4, InvariantIInv, PTL DEF Spec
<1> QED
  BY <1>5, PTL DEF UrgentFirst

-----------------------------------------------------------------------------
(* Members of sequences.                                                   *)

In(x, s) == \E i \in DOMAIN s : s[i] = x
Once(s) == \A i, j \in DOMAIN s : s[i] = s[j] => i = j

LEMMA InAppend ==
    ASSUME NEW S, NEW s \in Seq(S), NEW e \in S
    PROVE  /\ \A x : In(x, Append(s, e)) <=> In(x, s) \/ x = e
           /\ Once(s) /\ ~In(e, s) => Once(Append(s, e))
<1>1. /\ DOMAIN Append(s, e) = 1..Len(s) + 1 /\ DOMAIN s = 1..Len(s) /\ Len(s) \in Nat
      /\ Append(s, e)[Len(s) + 1] = e
      /\ \A i \in 1..Len(s) : Append(s, e)[i] = s[i]
  OBVIOUS
<1>2. \A i \in 1..Len(s) + 1 : i \in 1..Len(s) \/ i = Len(s) + 1
  BY <1>1
<1>3. \A i \in 1..Len(s) : i \in 1..Len(s) + 1
  BY <1>1
<1>4. Len(s) + 1 \in 1..Len(s) + 1
  BY <1>1
<1> QED
  BY <1>1, <1>2, <1>3, <1>4, Zenon DEF In, Once

LEMMA InTail ==
    ASSUME NEW S, NEW s \in Seq(S), s # <<>>, Once(s)
    PROVE  /\ \A x : In(x, Tail(s)) <=> In(x, s) /\ x # Head(s)
           /\ In(Head(s), s)
           /\ Once(Tail(s))
<1>1. /\ DOMAIN s = 1..Len(s) /\ Len(s) \in Nat \ {0} /\ Head(s) = s[1]
      /\ DOMAIN Tail(s) = 1..Len(s) - 1
      /\ \A i \in 1..Len(s) - 1 : Tail(s)[i] = s[i + 1]
  OBVIOUS
<1>2. ASSUME NEW x, In(x, Tail(s)) PROVE In(x, s) /\ x # Head(s)
  <2>1. PICK i \in 1..Len(s) - 1 : s[i + 1] = x
    BY <1>1, <1>2 DEF In
  <2>2. i + 1 \in 1..Len(s) /\ 1 \in 1..Len(s) /\ i + 1 # 1
    BY <1>1
  <2> QED
    BY <1>1, <2>1, <2>2 DEF In, Once
<1>3. ASSUME NEW x, In(x, s), x # Head(s) PROVE In(x, Tail(s))
  <2>1. PICK i \in 1..Len(s) : s[i] = x
    BY <1>1, <1>3 DEF In
  <2>2. i - 1 \in 1..Len(s) - 1 /\ (i - 1) + 1 = i
    BY <1>1, <1>3, <2>1
  <2>3. Tail(s)[i - 1] = x
    BY <1>1, <2>1, <2>2
  <2> QED
    BY <1>1, <2>2, <2>3 DEF In
<1>4. In(Head(s), s)
  <2>1. 1 \in 1..Len(s)
    BY <1>1
  <2> QED
    BY <1>1, <2>1 DEF In
<1>5. Once(Tail(s))
  <2> SUFFICES ASSUME NEW i \in 1..Len(s) - 1, NEW j \in 1..Len(s) - 1, s[i + 1] = s[j + 1]
               PROVE  i = j
    BY <1>1 DEF Once
  <2>1. i + 1 \in 1..Len(s) /\ j + 1 \in 1..Len(s)
    BY <1>1
  <2>2. i + 1 = j + 1
    BY <1>1, <2>1 DEF Once
  <2> QED
    BY <2>2
<1> QED
  BY <1>2, <1>3, <1>4, <1>5

LEMMA InConcat ==
    ASSUME NEW S, NEW s \in Seq(S), NEW t \in Seq(S)
    PROVE  /\ \A x : In(x, s \o t) <=> In(x, s) \/ In(x, t)
           /\ Once(s) /\ Once(t) /\ (\A x : ~(In(x, s) /\ In(x, t))) => Once(s \o t)
<1> DEFINE m == Len(s)
           n == Len(t)
<1>1. /\ m \in Nat /\ n \in Nat /\ DOMAIN s = 1..m /\ DOMAIN t = 1..n /\ DOMAIN (s \o t) = 1..m + n
      /\ \A i \in 1..m : (s \o t)[i] = s[i]
      /\ \A i \in m + 1..m + n : (s \o t)[i] = t[i - m]
  OBVIOUS
<1> HIDE DEF m, n
<1>2. \A i \in 1..m + n : i \in 1..m \/ (i \in m + 1..m + n /\ i - m \in 1..n)
  BY <1>1
<1>3. \A i \in 1..m : i \in 1..m + n
  BY <1>1
<1>4. \A i \in 1..n : i + m \in 1..m + n /\ i + m \in m + 1..m + n /\ (i + m) - m = i
  BY <1>1
<1>5. ASSUME NEW x, In(x, s \o t) PROVE In(x, s) \/ In(x, t)
  BY <1>1, <1>2, <1>5, Zenon DEF In
<1>6. ASSUME NEW x, In(x, s) PROVE In(x, s \o t)
  BY <1>1, <1>3, <1>6, Zenon DEF In
<1>7. ASSUME NEW x, In(x, t) PROVE In(x, s \o t)
  <2>1. PICK i \in 1..n : t[i] = x
    BY <1>1, <1>7, Zenon DEF In
  <2>2. (s \o t)[i + m] = t[(i + m) - m]
    BY <1>1, <1>4
  <2>3. (s \o t)[i + m] = x
    BY <1>4, <2>1, <2>2
  <2> QED
    BY <1>1, <1>4, <2>3, Zenon DEF In
<1>8. ASSUME Once(s), Once(t), \A x : ~(In(x, s) /\ In(x, t)) PROVE Once(s \o t)
  <2> SUFFICES ASSUME NEW i \in 1..m + n, NEW j \in 1..m + n, (s \o t)[i] = (s \o t)[j]
               PROVE  i = j
    BY <1>1 DEF Once
  <2>1. CASE i \in 1..m /\ j \in 1..m
    BY <1>1, <1>8, <2>1 DEF Once
  <2>2. CASE i - m \in 1..n /\ j - m \in 1..n /\ i \in m + 1..m + n /\ j \in m + 1..m + n
    <3>1. (s \o t)[i] = t[i - m] /\ (s \o t)[j] = t[j - m]
      BY <1>1, <2>2
    <3>2. i - m = j - m
      BY <1>1, <1>8, <2>2, <3>1 DEF Once
    <3>3. i \in Int /\ j \in Int
      OBVIOUS
    <3> QED
      BY <1>1, <3>2, <3>3
  <2>3. CASE i \in 1..m /\ j - m \in 1..n /\ j \in m + 1..m + n
    BY <1>1, <1>8, <2>3 DEF In
  <2>4. CASE j \in 1..m /\ i - m \in 1..n /\ i \in m + 1..m + n
    BY <1>1, <1>8, <2>4 DEF In
  <2> QED
    BY <1>2, <2>1, <2>2, <2>3, <2>4
<1> QED
  BY <1>5, <1>6, <1>7, <1>8

LEMMA InContents ==
    ASSUME NEW t \in Types, NEW q \in [Priorities -> Seq(Events)], Filed(t, q),
           \A p \in Priorities : Once(q[p])
    PROVE  /\ \A x : In(x, Contents(q)) <=> \E p \in Priorities : In(x, q[p])
           /\ Once(Contents(q))
<1>1. /\ q[0] \in Seq(Events) /\ q[1] \in Seq(Events) /\ q[2] \in Seq(Events)
      /\ q[3] \in Seq(Events) /\ q[4] \in Seq(Events)
      /\ Once(q[0]) /\ Once(q[1]) /\ Once(q[2]) /\ Once(q[3]) /\ Once(q[4])
  BY DEF Priorities
<1>2. \A p, r \in Priorities : p # r => \A x : ~(In(x, q[p]) /\ In(x, q[r]))
  BY DEF Filed, In
<1> DEFINE a == q[0] \o q[1]
           b == a \o q[2]
           c == b \o q[3]
<1>3. a \in Seq(Events) /\ b \in Seq(Events) /\ c \in Seq(Events) /\ Contents(q) = c \o q[4]
  BY <1>1 DEF Contents
<1>4. 0 \in Priorities /\ 1 \in Priorities /\ 2 \in Priorities /\ 3 \in Priorities /\ 4 \in Priorities
  BY DEF Priorities
<1>10. /\ \A x : ~(In(x, q[0]) /\ In(x, q[1]))
       /\ \A x : (~(In(x, q[0]) /\ In(x, q[2])) /\ ~(In(x, q[1]) /\ In(x, q[2])))
       /\ \A x : (~(In(x, q[0]) /\ In(x, q[3])) /\ ~(In(x, q[1]) /\ In(x, q[3]))
                 /\ ~(In(x, q[2]) /\ In(x, q[3])))
       /\ \A x : (~(In(x, q[0]) /\ In(x, q[4])) /\ ~(In(x, q[1]) /\ In(x, q[4]))
                 /\ ~(In(x, q[2]) /\ In(x, q[4])) /\ ~(In(x, q[3]) /\ In(x, q[4])))
  <2>1. 0 # 1 /\ 0 # 2 /\ 1 # 2 /\ 0 # 3 /\ 1 # 3 /\ 2 # 3 /\ 0 # 4 /\ 1 # 4 /\ 2 # 4 /\ 3 # 4
    OBVIOUS
  <2> QED
    BY <1>2, <1>4, <2>1, Zenon
<1>5. (\A x : In(x, a) <=> In(x, q[0]) \/ In(x, q[1])) /\ Once(a)
  <2>1. \A x : ~(In(x, q[0]) /\ In(x, q[1]))
    BY <1>10, Zenon
  <2> QED
    BY <1>1, <2>1, InConcat
<1> HIDE DEF a
<1>6. (\A x : In(x, b) <=> In(x, a) \/ In(x, q[2])) /\ Once(b)
  <2>1. \A x : ~(In(x, a) /\ In(x, q[2]))
    BY <1>10, <1>5, Zenon
  <2> QED
    BY <1>1, <1>3, <1>5, <2>1, InConcat
<1> HIDE DEF b
<1>7. (\A x : In(x, c) <=> In(x, b) \/ In(x, q[3])) /\ Once(c)
  <2>1. \A x : ~(In(x, b) /\ In(x, q[3]))
    BY <1>10, <1>5, <1>6, Zenon
  <2> QED
    BY <1>1, <1>3, <1>6, <2>1, InConcat
<1> HIDE DEF c
<1>8. (\A x : In(x, Contents(q)) <=> In(x, c) \/ In(x, q[4])) /\ Once(Contents(q))
  <2>1. \A x : ~(In(x, c) /\ In(x, q[4]))
    BY <1>10, <1>5, <1>6, <1>7, Zenon
  <2> QED
    BY <1>1, <1>3, <1>7, <2>1, InConcat
<1>9. ASSUME NEW x
      PROVE  In(x, Contents(q)) <=> \E p \in Priorities : In(x, q[p])
  <2>1. \A p \in Priorities : p = 0 \/ p = 1 \/ p = 2 \/ p = 3 \/ p = 4
    BY DEF Priorities
  <2> QED
    BY <1>4, <1>5, <1>6, <1>7, <1>8, <2>1, Zenon
<1> QED
  BY <1>8, <1>9

-----------------------------------------------------------------------------
(* The place of an event.                                                  *)

InQueue(e) == In(e, queue[TypeOf[e]][PriorityOf[e]])
InDrained(e) == In(e, down.drained)
AtWorker(e) == worker[TypeOf[e]].job.ev = e
AtShutdown(e) == down.job.ev = e
Under(e) == call[e] = "returned" /\ fate[e] = "pending"

OnePlace(e) ==
    /\ InQueue(e) \/ InDrained(e) \/ AtWorker(e) \/ AtShutdown(e) <=> Under(e)
    /\ InQueue(e) => ~InDrained(e) /\ ~AtWorker(e) /\ ~AtShutdown(e)
    /\ InDrained(e) => ~AtWorker(e) /\ ~AtShutdown(e)
    /\ AtWorker(e) => ~AtShutdown(e)
    /\ fate[e] # "pending" => call[e] = "returned"
Placed == \A e \in Events : OnePlace(e)

\* Nothing is in a list twice, and each worker delivers events of its own type only.
Listed ==
    /\ \A t \in Types : \A p \in Priorities : Once(queue[t][p])
    /\ Once(down.drained)
    /\ \A t \in Types : worker[t].job.ev \in Events => TypeOf[worker[t].job.ev] = t

\* What the tasks hold by the point they have come to.
Phased ==
    /\ \A t \in Types : worker[t].pc # "busy" => worker[t].job = Idle
    /\ down.pc = "off" <=> ~shuttingDown
    /\ down.pc \notin {"draining", "aborted"} => down.drained = <<>>
    /\ down.pc # "draining" => down.job = Idle
    /\ down.pc \in {"gather", "done"} => \A t \in Types : worker[t].pc \notin {"busy", "waiting"}

PInv == IInv /\ AllFiled /\ Listed /\ Phased /\ Placed

Stays(e) ==
    /\ InQueue(e)' <=> InQueue(e)
    /\ InDrained(e)' <=> InDrained(e)
    /\ AtWorker(e)' <=> AtWorker(e)
    /\ AtShutdown(e)' <=> AtShutdown(e)
    /\ call'[e] = call[e] /\ fate'[e] = fate[e]

LEMMA StaysPlaced == ASSUME NEW e \in Events, OnePlace(e), Stays(e) PROVE OnePlace(e)'
BY DEF OnePlace, Stays, Under

\* The phases, action by action.
LEMMA InitPhased == Init => Listed /\ Phased /\ Placed
<1> SUFFICES ASSUME Init PROVE Listed /\ Phased /\ Placed
  OBVIOUS
<1>1. Listed
  BY DEF Init, Listed, NoQueue, Once, Idle
<1>2. Phased
  BY DEF Init, Phased
<1>3. Placed
  BY DEF Init, Placed, OnePlace, InQueue, InDrained, AtWorker, AtShutdown, Under, In, NoQueue, Idle
<1> QED
  BY <1>1, <1>2, <1>3

LEMMA NextPhased == ASSUME PInv, [Next]_vars PROVE Phased'
<1> USE DEF Phased
<1>1. IInv /\ IInv' /\ Phased
  BY NextIInv DEF PInv
<1>2. worker \in [Types -> [pc : WorkerPc, job : Delivery]]
  BY <1>1 DEF IInv, TypeOK
<1>3. down \in [pc : DownPc, next : Nat \ {0}, size : Nat, drained : Seq(Events), job : Delivery]
  BY <1>1 DEF IInv, TypeOK
<1>4. ASSUME NEW s \in Subscribers, Subscribe(s) PROVE Phased'
  <2>1. \A t \in Types : worker'[t] = worker[t]
          \/ (worker[t].pc = "none" /\ worker'[t].pc = "ready" /\ worker'[t].job = worker[t].job)
    BY <1>2, <1>4 DEF Subscribe
  <2>2. UNCHANGED <<shuttingDown, down>>
    BY <1>4 DEF Subscribe
  <2> QED
    BY <1>1, <2>1, <2>2
<1>5. ASSUME UNCHANGED <<shuttingDown, worker, down>> PROVE Phased'
  BY <1>1, <1>5
<1>6. ASSUME NEW t \in Types, Turn(t) PROVE Phased'
  <2>1. UNCHANGED <<shuttingDown, down>>
    BY <1>6 DEF Turn, Take
  <2>2. ASSUME NEW u \in Types, u # t PROVE worker'[u] = worker[u]
    BY <1>2, <1>6, <2>2 DEF Turn, Take
  <2>3. worker'[t].pc # "busy" => worker'[t].job = Idle
    BY <1>1, <1>2, <1>6 DEF Turn, Take, Begin
  <2>4. shuttingDown => worker'[t].pc \notin {"busy", "waiting"}
    BY <1>2, <1>6 DEF Turn
  <2> QED
    BY <1>1, <2>1, <2>2, <2>3, <2>4
<1>7. ASSUME NEW t \in Types, Wake(t) PROVE Phased'
  BY <1>1, <1>2, <1>7 DEF Wake, Take, Begin
<1>8. ASSUME NEW t \in Types, HandlerEnds(t) \/ HandlerCancelled(t) PROVE Phased'
  BY <1>1, <1>2, <1>8 DEF HandlerEnds, HandlerCancelled
<1>9. ASSUME NEW i \in Nat, DrainFrom(i), shuttingDown', down.job = Idle,
             down.drained = <<>>, down.pc \in {"off", "draining"}
      PROVE  Phased'
  <2>1. CASE down'.pc = "draining" /\ UNCHANGED worker
    BY <1>1, <1>9, <2>1 DEF DrainFrom
  <2>2. CASE CancelWorkers /\ down' = [down EXCEPT !.pc = "gather", !.next = i]
    <3>1. \A t \in Types : worker'[t].pc \notin {"busy", "waiting"} /\ worker'[t].job = Idle
      BY <1>1, <1>2, <2>2 DEF CancelWorkers
    <3>2. down'.pc = "gather" /\ down'.job = Idle /\ down'.drained = <<>>
      BY <1>3, <1>9, <2>2
    <3> QED
      BY <1>9, <3>1, <3>2
  <2> QED
    BY <1>9, <2>1, <2>2 DEF DrainFrom
<1>10. CASE Shutdown
  BY <1>1, <1>9, <1>10 DEF Shutdown
<1>11. CASE DownNext
  <2>1. CASE Len(keys) = down.size
    <3>1. shuttingDown' /\ down.next \in Nat
      BY <1>1, <1>3, <1>11 DEF DownNext
    <3> QED
      BY <1>9, <1>11, <2>1, <3>1 DEF DownNext
  <2>2. CASE Len(keys) # down.size
    BY <1>1, <1>3, <1>11, <2>2 DEF DownNext, history
  <2> QED
    BY <2>1, <2>2
<1>12. CASE DownDeliver \/ DownHandlerEnds \/ DownHandlerCancelled
  BY <1>1, <1>3, <1>12 DEF DownDeliver, DownHandlerEnds, DownHandlerCancelled, DrainBusy
<1>13. CASE DownClear
  BY <1>1, <1>3, <1>13 DEF DownClear
<1>14. CASE CallerStep
  BY <1>4, <1>5, <1>8, <1>10, <1>14 DEF CallerStep, Start, Unsubscribe, Publish
<1>15. CASE \E e \in Events : RetryStep(e)
  BY <1>5, <1>15 DEF RetryStep, Retry
<1> QED
  BY <1>5, <1>6, <1>7, <1>8, <1>11, <1>12, <1>13, <1>14, <1>15
     DEF Next, WorkerStep, DownStep, vars

\* What a step does to the places of the events, operation by operation.
LEMMA PutMoves ==
    ASSUME PInv, NEW e \in Events, Put(e), call[e] # "returned", UNCHANGED <<worker, down, fate>>
    PROVE  /\ Listed'
           /\ \A f \in Events \ {e} : Stays(f)
           /\ InQueue(e)' /\ ~InDrained(e)' /\ ~AtWorker(e)' /\ ~AtShutdown(e)'
           /\ call'[e] = "returned" /\ fate[e] = "pending" /\ fate'[e] = "pending"
<1> DEFINE t == TypeOf[e]
           p == PriorityOf[e]
<1>1. /\ t \in Types /\ p \in Priorities
      /\ queue \in [Types -> [Priorities -> Seq(Events)]]
      /\ queue' = [queue EXCEPT ![t] = [queue[t] EXCEPT ![p] = Append(queue[t][p], e)]]
      /\ call' = [call EXCEPT ![e] = "returned"]
  BY DEF PInv, IInv, TypeOK, Put
<1>2. /\ queue[t][p] \in Seq(Events) /\ queue'[t][p] = Append(queue[t][p], e)
      /\ \A u \in Types, r \in Priorities : ~(u = t /\ r = p) => queue'[u][r] = queue[u][r]
  BY <1>1
<1>3. ~InQueue(e) /\ ~InDrained(e) /\ ~AtWorker(e) /\ ~AtShutdown(e)
  BY DEF PInv, Placed, OnePlace, Under
<1>4. /\ \A x : In(x, queue'[t][p]) <=> In(x, queue[t][p]) \/ x = e
      /\ Once(queue'[t][p])
  <2>1. Once(queue[t][p]) /\ ~In(e, queue[t][p])
    BY <1>1, <1>3 DEF PInv, Listed, InQueue
  <2> QED
    BY <1>2, <2>1, InAppend
<1>5. Listed'
  <2>1. \A u \in Types : \A r \in Priorities : Once(queue'[u][r])
    BY <1>2, <1>4 DEF PInv, Listed
  <2> QED
    BY <2>1 DEF PInv, Listed
<1>6. ASSUME NEW f \in Events \ {e} PROVE Stays(f)
  <2>1. InQueue(f)' <=> InQueue(f)
    <3>1. CASE TypeOf[f] = t /\ PriorityOf[f] = p
      BY <1>4, <3>1 DEF InQueue
    <3>2. CASE ~(TypeOf[f] = t /\ PriorityOf[f] = p)
      <4>1. TypeOf[f] \in Types /\ PriorityOf[f] \in Priorities
        OBVIOUS
      <4> QED
        BY <1>2, <3>2, <4>1 DEF InQueue
    <3> QED
      BY <3>1, <3>2
  <2>2. call'[f] = call[f]
    BY <1>1 DEF PInv, IInv, TypeOK
  <2> QED
    BY <2>1, <2>2 DEF Stays, InDrained, AtWorker, AtShutdown
<1>7. InQueue(e)' /\ ~InDrained(e)' /\ ~AtWorker(e)' /\ ~AtShutdown(e)'
  BY <1>3, <1>4 DEF InQueue, InDrained, AtWorker, AtShutdown
<1>8. call'[e] = "returned"
  BY <1>1 DEF PInv, IInv, TypeOK
<1>9. fate[e] = "pending" /\ fate'[e] = "pending"
  BY DEF PInv, Placed, OnePlace
<1> QED
  BY <1>5, <1>6, <1>7, <1>8, <1>9

LEMMA TakeMoves ==
    ASSUME PInv, NEW t \in Types, worker[t].pc \in {"ready", "waiting"}, ~IsEmpty(queue[t]), Take(t),
           NEW e \in Events, e = First(queue[t])
    PROVE  /\ Listed'
           /\ InQueue(e)
           /\ \A f \in Events \ {e} : Stays(f)
           /\ ~InQueue(e)' /\ ~InDrained(e)' /\ ~AtShutdown(e)'
           /\ AtWorker(e)' <=> ~Unheard(e)
           /\ call'[e] = call[e]
           /\ fate'[e] = IF Unheard(e) THEN "unheard" ELSE fate[e]
<1> DEFINE q == queue[t]
           l == Level(q)
<1>1. /\ q \in [Priorities -> Seq(Events)] /\ Filed(t, q) /\ worker[t].job = Idle
      /\ queue \in [Types -> [Priorities -> Seq(Events)]]
      /\ worker \in [Types -> [pc : WorkerPc, job : Delivery]]
      /\ fate \in [Events -> {"pending", "handled", "unheard", "cut"}]
  BY DEF PInv, IInv, TypeOK, AllFiled, Phased
<1>2. l \in Priorities /\ q[l] # <<>> /\ q[l] \in Seq(Events) /\ Once(q[l]) /\ e = Head(q[l])
  BY <1>1, LevelOfQueue DEF PInv, Listed, First
<1>3. /\ \A x : In(x, Tail(q[l])) <=> In(x, q[l]) /\ x # e
      /\ In(e, q[l]) /\ Once(Tail(q[l]))
  BY <1>2, InTail
<1>4. TypeOf[e] = t /\ PriorityOf[e] = l
  BY <1>1, <1>2, <1>3 DEF Filed, In
<1>5. /\ queue' = [queue EXCEPT ![t] = [q EXCEPT ![l] = Tail(q[l])]]
      /\ worker' = [worker EXCEPT ![t] = [pc |-> IF Unheard(e) THEN "ready" ELSE "busy", job |-> Begin(e)]]
      /\ fate' = IF Unheard(e) THEN [fate EXCEPT ![e] = "unheard"] ELSE fate
      /\ UNCHANGED <<call, down>>
  BY DEF Take, Rest, NoteBegin
<1> HIDE DEF q, l
<1>6. /\ queue'[t][l] = Tail(q[l])
      /\ \A u \in Types, r \in Priorities : ~(u = t /\ r = l) => queue'[u][r] = queue[u][r]
  BY <1>1, <1>2, <1>5 DEF q
<1>7. worker'[t].job = Begin(e) /\ \A u \in Types : u # t => worker'[u] = worker[u]
  BY <1>1, <1>5
<1>8. InQueue(e) /\ ~InDrained(e) /\ ~AtWorker(e) /\ ~AtShutdown(e)
  <2>1. InQueue(e)
    BY <1>3, <1>4 DEF InQueue, q
  <2> QED
    BY <1>3, <2>1 DEF PInv, Placed, OnePlace
<1>9. Begin(e).ev = IF Unheard(e) THEN NoEvent ELSE e
  BY DEF Begin, Idle
<1>10. Listed'
  <2>1. \A u \in Types : \A r \in Priorities : Once(queue'[u][r])
    BY <1>3, <1>6 DEF PInv, Listed
  <2>2. \A u \in Types : worker'[u].job.ev \in Events => TypeOf[worker'[u].job.ev] = u
    BY <1>4, <1>7, <1>9 DEF PInv, Listed
  <2> QED
    BY <1>5, <2>1, <2>2 DEF PInv, Listed
<1>11. ASSUME NEW f \in Events \ {e} PROVE Stays(f)
  <2>1. InQueue(f)' <=> InQueue(f)
    <3>1. CASE TypeOf[f] = t /\ PriorityOf[f] = l
      BY <1>3, <1>6, <3>1 DEF InQueue, q
    <3>2. CASE ~(TypeOf[f] = t /\ PriorityOf[f] = l)
      <4>1. TypeOf[f] \in Types /\ PriorityOf[f] \in Priorities
        OBVIOUS
      <4> QED
        BY <1>6, <3>2, <4>1 DEF InQueue
    <3> QED
      BY <3>1, <3>2
  <2>2. AtWorker(f)' <=> AtWorker(f)
    <3>1. CASE TypeOf[f] = t
      BY <1>1, <1>7, <1>9, <3>1 DEF AtWorker, Idle
    <3>2. CASE TypeOf[f] # t
      BY <1>7, <3>2 DEF AtWorker
    <3> QED
      BY <3>1, <3>2
  <2>3. call'[f] = call[f] /\ fate'[f] = fate[f]
    BY <1>1, <1>5
  <2> QED
    BY <1>5, <2>1, <2>2, <2>3 DEF Stays, InDrained, AtShutdown
<1>12. ~InQueue(e)' /\ ~InDrained(e)' /\ ~AtShutdown(e)' /\ (AtWorker(e)' <=> ~Unheard(e))
  BY <1>3, <1>4, <1>5, <1>6, <1>7, <1>8, <1>9 DEF InQueue, InDrained, AtWorker, AtShutdown
<1>13. call'[e] = call[e] /\ fate'[e] = IF Unheard(e) THEN "unheard" ELSE fate[e]
  BY <1>1, <1>3, <1>5
<1> QED
  BY <1>8, <1>10, <1>11, <1>12, <1>13

LEMMA HandlerEndsMoves ==
    ASSUME PInv, NEW t \in Types, HandlerEnds(t) \/ HandlerCancelled(t),
           NEW e \in Events, e = worker[t].job.ev
    PROVE  /\ Listed'
           /\ AtWorker(e)
           /\ \A f \in Events \ {e} : Stays(f)
           /\ ~InQueue(e)' /\ ~InDrained(e)' /\ ~AtShutdown(e)' /\ call'[e] = call[e]
           /\ \/ AtWorker(e)' /\ fate'[e] = fate[e]
              \/ ~AtWorker(e)' /\ fate'[e] \in {"handled", "cut"}
<1> DEFINE job == worker[t].job
<1>1. /\ worker \in [Types -> [pc : WorkerPc, job : Delivery]]
      /\ fate \in [Events -> {"pending", "handled", "unheard", "cut"}]
      /\ job # Idle /\ JobOK(job) /\ worker[t].pc = "busy"
  BY DEF PInv, IInv, TypeOK, BusyOK, HandlerEnds, HandlerCancelled
<1>2. TypeOf[e] = t /\ AtWorker(e)
  BY <1>1 DEF JobOK, PInv, Listed, AtWorker
<1>3. ~InQueue(e) /\ ~InDrained(e) /\ ~AtShutdown(e)
  BY <1>2 DEF PInv, Placed, OnePlace
<1>4. UNCHANGED <<queue, down, call>>
  BY DEF HandlerEnds, HandlerCancelled
<1>5. \A u \in Types : u # t => worker'[u] = worker[u]
  BY <1>1 DEF HandlerEnds, HandlerCancelled
<1>6. \/ worker'[t].job.ev = e /\ fate'[e] = fate[e]
      \/ worker'[t].job = Idle /\ fate'[e] \in {"handled", "cut"}
  <2>1. CASE HandlerCancelled(t)
    BY <1>1, <1>2, <2>1 DEF HandlerCancelled
  <2>2. CASE HandlerEnds(t) /\ AfterOne(job) = Idle
    BY <1>1, <1>2, <2>2 DEF HandlerEnds, NoteEnd
  <2>3. CASE HandlerEnds(t) /\ AfterOne(job) # Idle
    <3>1. AfterOne(job).ev = e
      BY <1>1, <2>3 DEF AfterOne, Delivery
    <3> QED
      BY <1>1, <1>2, <2>3, <3>1 DEF HandlerEnds, NoteEnd
  <2> QED
    BY <2>1, <2>2, <2>3
<1>7. \A f \in Events \ {e} : fate'[f] = fate[f]
  BY <1>1, <1>2 DEF HandlerEnds, HandlerCancelled, NoteEnd
<1> HIDE DEF job
<1>8. Listed'
  BY <1>2, <1>4, <1>5, <1>6 DEF PInv, Listed, Idle
<1>9. ASSUME NEW f \in Events \ {e} PROVE Stays(f)
  <2>1. AtWorker(f)' <=> AtWorker(f)
    BY <1>2, <1>5, <1>6, <1>9 DEF AtWorker, Idle
  <2> QED
    BY <1>4, <1>7, <2>1 DEF Stays, InQueue, InDrained, AtShutdown
<1>10. AtWorker(e)' <=> worker'[t].job.ev = e
  BY <1>2 DEF AtWorker
<1>11. Idle.ev # e
  BY <1>2 DEF Idle
<1> QED
  BY <1>2, <1>3, <1>4, <1>6, <1>8, <1>9, <1>10, <1>11 DEF InQueue, InDrained, AtShutdown

LEMMA DrainMoves ==
    ASSUME PInv, NEW i \in Nat \ {0}, NEW j \in Loaded(i), down.drained = <<>>,
           down'.drained = Contents(queue[keys[j]]), down'.job = Idle, down.job = Idle,
           queue' = [queue EXCEPT ![keys[j]] = NoQueue], UNCHANGED <<worker, call, fate>>
    PROVE  /\ Listed'
           /\ \A f \in Events :
                 /\ InQueue(f)' <=> InQueue(f) /\ TypeOf[f] # keys[j]
                 /\ InDrained(f)' <=> InQueue(f) /\ TypeOf[f] = keys[j]
                 /\ AtWorker(f)' <=> AtWorker(f)
                 /\ ~AtShutdown(f)'
<1> DEFINE u == keys[j]
           q == queue[u]
<1>1. j \in DOMAIN keys /\ u \in Types
  BY DEF PInv, IInv, TypeOK, Loaded
<1>2. /\ q \in [Priorities -> Seq(Events)] /\ Filed(u, q) /\ \A p \in Priorities : Once(q[p])
      /\ queue \in [Types -> [Priorities -> Seq(Events)]]
  BY <1>1 DEF PInv, IInv, TypeOK, AllFiled, Listed
<1>3. /\ \A x : In(x, Contents(q)) <=> \E p \in Priorities : In(x, q[p])
      /\ Once(Contents(q))
  BY <1>1, <1>2, InContents
<1>4. queue'[u] = NoQueue /\ \A t \in Types : t # u => queue'[t] = queue[t]
  BY <1>1, <1>2
<1>5. \A p \in Priorities : Once(NoQueue[p]) /\ \A x : ~In(x, NoQueue[p])
  BY DEF NoQueue, Once, In
<1>6. Listed'
  <2>1. \A t \in Types : \A p \in Priorities : Once(queue'[t][p])
    BY <1>4, <1>5 DEF PInv, Listed
  <2> QED
    BY <1>3, <2>1 DEF PInv, Listed
<1>7. ASSUME NEW f \in Events
      PROVE  /\ InQueue(f)' <=> InQueue(f) /\ TypeOf[f] # u
             /\ InDrained(f)' <=> InQueue(f) /\ TypeOf[f] = u
  <2>1. TypeOf[f] \in Types /\ PriorityOf[f] \in Priorities
    OBVIOUS
  <2>2. InQueue(f)' <=> InQueue(f) /\ TypeOf[f] # u
    BY <1>4, <1>5, <2>1 DEF InQueue
  <2>3. ASSUME NEW p \in Priorities, In(f, q[p]) PROVE TypeOf[f] = u /\ PriorityOf[f] = p
    BY <1>2, <2>3 DEF Filed, In
  <2>4. InDrained(f)' <=> \E p \in Priorities : In(f, q[p])
    BY <1>3 DEF InDrained
  <2>5. (\E p \in Priorities : In(f, q[p])) <=> InQueue(f) /\ TypeOf[f] = u
    BY <2>1, <2>3 DEF InQueue
  <2> QED
    BY <2>2, <2>4, <2>5
<1> QED
  BY <1>6, <1>7 DEF AtWorker, AtShutdown, Idle

LEMMA CancelMoves ==
    ASSUME PInv, CancelWorkers, UNCHANGED <<call, down.drained, down.job>>
    PROVE  /\ Listed'
           /\ \A f \in Events :
                 /\ InQueue(f)' <=> InQueue(f)
                 /\ InDrained(f)' <=> InDrained(f)
                 /\ AtShutdown(f)' <=> AtShutdown(f)
                 /\ ~AtWorker(f)'
                 /\ fate'[f] = IF AtWorker(f) THEN "cut" ELSE fate[f]
<1> DEFINE cut == {worker[t].job.ev : t \in Types}
<1>1. /\ worker \in [Types -> [pc : WorkerPc, job : Delivery]]
      /\ fate' = [e \in Events |-> IF e \in cut THEN "cut" ELSE fate[e]]
      /\ UNCHANGED queue
  BY DEF PInv, IInv, TypeOK, CancelWorkers
<1>2. \A t \in Types : worker'[t].job = Idle
  BY <1>1 DEF PInv, Phased, CancelWorkers
<1>3. ASSUME NEW f \in Events PROVE f \in cut <=> AtWorker(f)
  <2>1. TypeOf[f] \in Types
    OBVIOUS
  <2> QED
    BY <2>1 DEF PInv, Listed, AtWorker
<1>4. \A f \in Events : ~AtWorker(f)'
  BY <1>2 DEF AtWorker, Idle
<1>5. \A f \in Events : fate'[f] = IF AtWorker(f) THEN "cut" ELSE fate[f]
  BY <1>1, <1>3
<1>6. Listed'
  BY <1>1, <1>2 DEF PInv, Listed, Idle
<1> QED
  BY <1>1, <1>4, <1>5, <1>6 DEF InQueue, InDrained, AtShutdown

LEMMA DownDeliverMoves ==
    ASSUME PInv, DownDeliver, NEW e \in Events, e = Head(down.drained)
    PROVE  /\ Listed'
           /\ InDrained(e)
           /\ \A f \in Events \ {e} : Stays(f)
           /\ ~InQueue(e)' /\ ~InDrained(e)' /\ ~AtWorker(e)' /\ call'[e] = call[e]
           /\ AtShutdown(e)' <=> ~Unheard(e)
           /\ fate'[e] = IF Unheard(e) THEN "unheard" ELSE fate[e]
<1>1. /\ down \in [pc : DownPc, next : Nat \ {0}, size : Nat, drained : Seq(Events), job : Delivery]
      /\ fate \in [Events -> {"pending", "handled", "unheard", "cut"}]
      /\ Once(down.drained) /\ down.drained # <<>> /\ down.job = Idle
  BY DEF PInv, IInv, TypeOK, Listed, DownDeliver
<1>2. /\ \A x : In(x, Tail(down.drained)) <=> In(x, down.drained) /\ x # e
      /\ In(e, down.drained) /\ Once(Tail(down.drained))
  BY <1>1, InTail
<1>3. /\ down'.drained = Tail(down.drained) /\ down'.job = Begin(e)
      /\ fate' = IF Unheard(e) THEN [fate EXCEPT ![e] = "unheard"] ELSE fate
      /\ UNCHANGED <<queue, worker, call>>
  BY <1>1 DEF DownDeliver, NoteBegin
<1>4. ~InQueue(e) /\ ~AtWorker(e) /\ InDrained(e)
  BY <1>2 DEF PInv, Placed, OnePlace, InDrained
<1>5. Begin(e).ev = (IF Unheard(e) THEN NoEvent ELSE e) /\ Idle.ev = NoEvent
  BY DEF Begin, Idle
<1>6. Listed'
  BY <1>2, <1>3 DEF PInv, Listed
<1>7. ASSUME NEW f \in Events \ {e} PROVE Stays(f)
  <2>1. fate'[f] = fate[f]
    BY <1>1, <1>3
  <2> QED
    BY <1>1, <1>2, <1>3, <1>5, <2>1 DEF Stays, InQueue, InDrained, AtWorker, AtShutdown
<1>8. fate'[e] = IF Unheard(e) THEN "unheard" ELSE fate[e]
  BY <1>1, <1>3
<1> QED
  BY <1>2, <1>3, <1>4, <1>5, <1>6, <1>7, <1>8 DEF InQueue, InDrained, AtWorker, AtShutdown

LEMMA DownHandlerMoves ==
    ASSUME PInv, DownHandlerEnds \/ DownHandlerCancelled, NEW e \in Events, e = down.job.ev
    PROVE  /\ Listed'
           /\ AtShutdown(e)
           /\ \A f \in Events \ {e} : Stays(f)
           /\ ~InQueue(e)' /\ ~InDrained(e)' /\ ~AtWorker(e)' /\ call'[e] = call[e]
           /\ \/ AtShutdown(e)' /\ fate'[e] = fate[e]
              \/ ~AtShutdown(e)' /\ fate'[e] \in {"handled", "cut"}
<1> DEFINE job == down.job
<1>1. /\ down \in [pc : DownPc, next : Nat \ {0}, size : Nat, drained : Seq(Events), job : Delivery]
      /\ fate \in [Events -> {"pending", "handled", "unheard", "cut"}]
      /\ job # Idle
  BY DEF PInv, IInv, TypeOK, DownHandlerEnds, DownHandlerCancelled, DrainBusy
<1>2. ~InQueue(e) /\ ~InDrained(e) /\ ~AtWorker(e) /\ AtShutdown(e)
  BY DEF PInv, Placed, OnePlace, AtShutdown
<1>3. UNCHANGED <<queue, worker, call, down.drained>>
  BY <1>1 DEF DownHandlerEnds, DownHandlerCancelled
<1>4. \/ down'.job.ev = e /\ fate'[e] = fate[e]
      \/ down'.job = Idle /\ fate'[e] \in {"handled", "cut"}
  <2>1. CASE DownHandlerCancelled
    BY <1>1, <2>1 DEF DownHandlerCancelled
  <2>2. CASE DownHandlerEnds /\ AfterOne(job) = Idle
    BY <1>1, <2>2 DEF DownHandlerEnds, NoteEnd
  <2>3. CASE DownHandlerEnds /\ AfterOne(job) # Idle
    <3>1. AfterOne(job).ev = e
      BY <1>1, <2>3 DEF AfterOne, Delivery
    <3> QED
      BY <1>1, <2>3, <3>1 DEF DownHandlerEnds, NoteEnd
  <2> QED
    BY <2>1, <2>2, <2>3
<1>5. \A f \in Events \ {e} : fate'[f] = fate[f]
  BY <1>1 DEF DownHandlerEnds, DownHandlerCancelled, NoteEnd
<1>6. Listed'
  BY <1>3 DEF PInv, Listed
<1>7. Idle.ev \notin Events
  BY DEF Idle
<1>8. ASSUME NEW f \in Events \ {e} PROVE Stays(f)
  BY <1>3, <1>4, <1>5, <1>7 DEF Stays, InQueue, InDrained, AtWorker, AtShutdown
<1> QED
  BY <1>2, <1>3, <1>4, <1>6, <1>7, <1>8 DEF InQueue, InDrained, AtWorker, AtShutdown

\* The jobs and the heads of lists that the steps begin with.
LEMMA BusEvents ==
    ASSUME PInv
    PROVE  /\ \A t \in Types : ~IsEmpty(queue[t]) => First(queue[t]) \in Events
           /\ \A t \in Types : worker[t].job # Idle => worker[t].job.ev \in Events
           /\ down.drained # <<>> => Head(down.drained) \in Events
           /\ down.job # Idle => down.job.ev \in Events
<1>1. /\ queue \in [Types -> [Priorities -> Seq(Events)]]
      /\ down.drained \in Seq(Events)
      /\ BusyOK
  BY DEF PInv, IInv, TypeOK
<1>2. \A t \in Types : ~IsEmpty(queue[t]) => First(queue[t]) \in Events
  BY <1>1, TakeTyped
<1> QED
  BY <1>1, <1>2 DEF BusyOK, JobOK

LEMMA OthersPlaced ==
    ASSUME PInv, NEW e \in Events, \A f \in Events \ {e} : Stays(f), OnePlace(e)'
    PROVE  Placed'
BY StaysPlaced DEF PInv, Placed

LEMMA PutPlaced ==
    ASSUME PInv, NEW e \in Events, Put(e), call[e] # "returned", UNCHANGED <<worker, down, fate>>
    PROVE  Listed' /\ Placed'
<1>1. OnePlace(e)'
  BY PutMoves DEF OnePlace, Under
<1> QED
  BY <1>1, PutMoves, OthersPlaced

LEMMA TakePlaced ==
    ASSUME PInv, NEW t \in Types, worker[t].pc \in {"ready", "waiting"}, ~IsEmpty(queue[t]), Take(t)
    PROVE  Listed' /\ Placed'
<1>1. PICK e \in Events : e = First(queue[t])
  BY BusEvents
<1>2. OnePlace(e)
  BY DEF PInv, Placed
<1>3. OnePlace(e)'
  BY <1>1, <1>2, TakeMoves DEF OnePlace, Under
<1> QED
  BY <1>1, <1>3, TakeMoves, OthersPlaced

LEMMA HandlerPlaced ==
    ASSUME PInv, NEW t \in Types, HandlerEnds(t) \/ HandlerCancelled(t)
    PROVE  Listed' /\ Placed'
<1>1. worker[t].job # Idle
  BY DEF PInv, IInv, BusyOK, HandlerEnds, HandlerCancelled
<1>2. PICK e \in Events : e = worker[t].job.ev
  BY <1>1, BusEvents
<1>3. OnePlace(e)
  BY DEF PInv, Placed
<1>4. OnePlace(e)'
  BY <1>2, <1>3, HandlerEndsMoves DEF OnePlace, Under
<1> QED
  BY <1>2, <1>4, HandlerEndsMoves, OthersPlaced

LEMMA DrainPlaced ==
    ASSUME PInv, NEW i \in Nat \ {0}, DrainFrom(i), UNCHANGED call,
           down.drained = <<>>, down.job = Idle
    PROVE  Listed' /\ Placed'
<1>1. down \in [pc : DownPc, next : Nat \ {0}, size : Nat, drained : Seq(Events), job : Delivery]
  BY DEF PInv, IInv, TypeOK
<1>2. ASSUME NEW j \in Loaded(i), UNCHANGED <<worker, history>>,
             queue' = [queue EXCEPT ![keys[j]] = NoQueue],
             down' = [pc |-> "draining", next |-> j + 1, size |-> Len(keys),
                      drained |-> Contents(queue[keys[j]]), job |-> Idle]
      PROVE  Listed' /\ Placed'
  <2>1. /\ Listed'
        /\ \A f \in Events :
              /\ InQueue(f)' <=> InQueue(f) /\ TypeOf[f] # keys[j]
              /\ InDrained(f)' <=> InQueue(f) /\ TypeOf[f] = keys[j]
              /\ AtWorker(f)' <=> AtWorker(f)
              /\ ~AtShutdown(f)'
    <3>1. down'.drained = Contents(queue[keys[j]]) /\ down'.job = Idle /\ UNCHANGED <<worker, call, fate>>
      BY <1>2 DEF history
    <3> QED
      BY <1>2, <3>1, DrainMoves
  <2>2. \A f \in Events : ~InDrained(f) /\ ~AtShutdown(f)
    BY DEF InDrained, AtShutdown, In, Idle
  <2>3. UNCHANGED <<call, fate>>
    BY <1>2 DEF history
  <2>4. ASSUME NEW f \in Events PROVE OnePlace(f)'
    <3>1. OnePlace(f)
      BY DEF PInv, Placed
    <3> QED
      BY <2>1, <2>2, <2>3, <3>1 DEF OnePlace, Under
  <2> QED
    BY <2>1, <2>4 DEF Placed
<1>3. ASSUME CancelWorkers, down' = [down EXCEPT !.pc = "gather", !.next = i]
      PROVE  Listed' /\ Placed'
  <2>1. UNCHANGED <<call, down.drained, down.job>>
    BY <1>1, <1>3
  <2>2. ASSUME NEW f \in Events PROVE OnePlace(f)'
    <3>1. OnePlace(f)
      BY DEF PInv, Placed
    <3> QED
      BY <1>3, <2>1, <3>1, CancelMoves DEF OnePlace, Under
  <2> QED
    BY <1>3, <2>1, <2>2, CancelMoves DEF Placed
<1> QED
  BY <1>2, <1>3 DEF DrainFrom

LEMMA DownPlaced ==
    ASSUME PInv, DownDeliver \/ DownHandlerEnds \/ DownHandlerCancelled
    PROVE  Listed' /\ Placed'
<1>1. CASE DownDeliver
  <2>1. PICK e \in Events : e = Head(down.drained)
    BY <1>1, BusEvents DEF DownDeliver
  <2>2. OnePlace(e)
    BY DEF PInv, Placed
  <2>3. OnePlace(e)'
    BY <1>1, <2>1, <2>2, DownDeliverMoves DEF OnePlace, Under
  <2> QED
    BY <1>1, <2>1, <2>3, DownDeliverMoves, OthersPlaced
<1>2. CASE DownHandlerEnds \/ DownHandlerCancelled
  <2>1. PICK e \in Events : e = down.job.ev
    BY <1>2, BusEvents DEF DownHandlerEnds, DownHandlerCancelled, DrainBusy
  <2>2. OnePlace(e)
    BY DEF PInv, Placed
  <2>3. OnePlace(e)'
    BY <1>2, <2>1, <2>2, DownHandlerMoves DEF OnePlace, Under
  <2> QED
    BY <1>2, <2>1, <2>3, DownHandlerMoves, OthersPlaced
<1> QED
  BY <1>1, <1>2

LEMMA QuietPlaced ==
    ASSUME PInv, UNCHANGED <<queue, down.drained, down.job, fate>>,
           \A t \in Types : worker'[t].job = worker[t].job,
           \A f \in Events : call'[f] = call[f] \/ (call[f] # "returned" /\ call'[f] # "returned")
    PROVE  Listed' /\ Placed'
<1>1. Listed'
  BY DEF PInv, Listed
<1>2. ASSUME NEW f \in Events PROVE OnePlace(f)'
  <2>1. OnePlace(f)
    BY DEF PInv, Placed
  <2> QED
    BY <2>1 DEF OnePlace, Under, InQueue, InDrained, AtWorker, AtShutdown
<1> QED
  BY <1>1, <1>2 DEF Placed

LEMMA NextPlaced == ASSUME PInv, [Next]_vars PROVE Listed' /\ Placed'
<1>1. /\ worker \in [Types -> [pc : WorkerPc, job : Delivery]]
      /\ down \in [pc : DownPc, next : Nat \ {0}, size : Nat, drained : Seq(Events), job : Delivery]
      /\ call \in [Events -> {"idle", "blocked", "returned", "refused", "dropped"}]
      /\ Phased
  BY DEF PInv, IInv, TypeOK
<1>2. ASSUME UNCHANGED <<queue, down, fate, call, worker>> PROVE Listed' /\ Placed'
  BY <1>2, QuietPlaced
<1>3. ASSUME NEW s \in Subscribers, Subscribe(s) PROVE Listed' /\ Placed'
  <2>1. \A t \in Types : worker'[t].job = worker[t].job
    BY <1>1, <1>3 DEF Subscribe
  <2> QED
    BY <1>3, <2>1, QuietPlaced DEF Subscribe, history
<1>4. ASSUME NEW e \in Events, Publish(e) PROVE Listed' /\ Placed'
  <2>1. CASE Put(e)
    BY <1>4, <2>1, PutPlaced DEF Publish
  <2>2. CASE ~Put(e)
    <3>1. \A f \in Events : call'[f] = call[f] \/ (call[f] # "returned" /\ call'[f] # "returned")
      BY <1>1, <1>4, <2>2 DEF Publish
    <3> QED
      BY <1>4, <2>2, <3>1, QuietPlaced DEF Publish
  <2> QED
    BY <2>1, <2>2
<1>5. ASSUME NEW e \in Events, Retry(e) PROVE Listed' /\ Placed'
  BY <1>5, PutPlaced DEF Retry
<1>6. ASSUME NEW t \in Types, Turn(t) \/ Wake(t) PROVE Listed' /\ Placed'
  <2>1. CASE ~IsEmpty(queue[t]) /\ Take(t)
    BY <1>6, <2>1, TakePlaced DEF Turn, Wake
  <2>2. CASE /\ worker' = [worker EXCEPT ![t].pc = IF shuttingDown THEN "stopped" ELSE "waiting"]
             /\ UNCHANGED <<started, shuttingDown, subs, keys, queue, call, down, history>>
    <3>1. \A u \in Types : worker'[u].job = worker[u].job
      BY <1>1, <2>2
    <3> QED
      BY <2>2, <3>1, QuietPlaced DEF history
  <2> QED
    BY <1>6, <2>1, <2>2 DEF Turn, Wake
<1>7. CASE Shutdown
  <2>1. down.drained = <<>> /\ down.job = Idle
    BY <1>1, <1>7 DEF Phased, Shutdown
  <2> QED
    BY <1>7, <2>1, DrainPlaced DEF Shutdown
<1>8. CASE DownNext
  <2>1. CASE Len(keys) = down.size
    BY <1>1, <1>8, <2>1, DrainPlaced DEF DownNext
  <2>2. CASE Len(keys) # down.size
    <3>1. UNCHANGED <<down.drained, down.job, queue, worker, call, fate>>
      BY <1>1, <1>8, <2>2 DEF DownNext, history
    <3> QED
      BY <3>1, QuietPlaced
  <2> QED
    BY <2>1, <2>2
<1>9. CASE DownClear
  <2>1. \A t \in Types : worker'[t].job = worker[t].job
    BY <1>1, <1>9 DEF DownClear, Phased
  <2>2. UNCHANGED <<down.drained, down.job, queue, call, fate>>
    BY <1>1, <1>9 DEF DownClear, history
  <2> QED
    BY <2>1, <2>2, QuietPlaced
<1>10. CASE CallerStep
  BY <1>2, <1>3, <1>4, <1>7, <1>10, HandlerPlaced DEF CallerStep, Start, Unsubscribe, history
<1>11. CASE UNCHANGED vars
  BY <1>2, <1>11 DEF vars, history
<1> QED
  BY <1>5, <1>6, <1>8, <1>9, <1>10, <1>11, HandlerPlaced, DownPlaced
     DEF Next, RetryStep, WorkerStep, DownStep

LEMMA InvariantPInv == Spec => []PInv
<1>1. Init => PInv
  BY InitIInv, InitPhased DEF PInv, Init, AllFiled, Filed, NoQueue
<1>2. PInv /\ [Next]_vars => PInv'
  BY NextIInv, NextFiled, NextPhased, NextPlaced DEF PInv, IInv
<1> QED
  BY <1>1, <1>2, PTL DEF Spec

LEMMA InQueuePlaces ==
    ASSUME NEW e
    PROVE  \A x : x \in QueuePlaces(e) <=>
               \E t \in Types, p \in Priorities : \E i \in DOMAIN queue[t][p] :
                   queue[t][p][i] = e /\ x = <<t, p, i>>
<1> DEFINE Of(t, p) == {<<t, p, i>> : i \in {j \in DOMAIN queue[t][p] : queue[t][p][j] = e}}
<1>1. QueuePlaces(e) = UNION {Of(t, p) : t \in Types, p \in Priorities}
  BY DEF QueuePlaces
<1>2. ASSUME NEW x, NEW t, NEW p
      PROVE  x \in Of(t, p) <=> \E i \in DOMAIN queue[t][p] : queue[t][p][i] = e /\ x = <<t, p, i>>
  OBVIOUS
<1> HIDE DEF Of
<1>3. \A x : x \in QueuePlaces(e) <=> \E t \in Types, p \in Priorities : x \in Of(t, p)
  BY <1>1
<1> QED
  BY <1>2, <1>3

LEMMA QueuePlacesOf ==
    ASSUME PInv, NEW e \in Events
    PROVE  LET t == TypeOf[e]
               p == PriorityOf[e] IN
           /\ QueuePlaces(e) = {<<t, p, i>> : i \in {j \in DOMAIN queue[t][p] : queue[t][p][j] = e}}
           /\ Queued(e) <=> InQueue(e)
<1> DEFINE u == TypeOf[e]
           r == PriorityOf[e]
<1>1. \A t \in Types, p \in Priorities : \A i \in DOMAIN queue[t][p] :
         queue[t][p][i] = e => t = u /\ p = r
  BY DEF PInv, AllFiled, Filed
<1>2. u \in Types /\ r \in Priorities
  OBVIOUS
<1>3. \A x : x \in QueuePlaces(e) <=>
                \E i \in DOMAIN queue[u][r] : queue[u][r][i] = e /\ x = <<u, r, i>>
  BY <1>1, <1>2, InQueuePlaces
<1> HIDE DEF u, r
<1>4. QueuePlaces(e) = {<<u, r, i>> : i \in {j \in DOMAIN queue[u][r] : queue[u][r][j] = e}}
  BY <1>3, Zenon
<1>5. Queued(e) <=> \E i \in DOMAIN queue[u][r] : queue[u][r][i] = e
  BY <1>3, Zenon DEF Queued
<1> QED
  BY <1>4, <1>5 DEF u, r, InQueue, In

LEMMA PlacedConserves == PInv => Conservation
<1> SUFFICES ASSUME PInv, NEW e \in Events
             PROVE  IF Under(e) THEN \E x \in Places(e) : Places(e) = {x} ELSE Places(e) = {}
  BY DEF Conservation, Under
<1> DEFINE t == TypeOf[e]
           p == PriorityOf[e]
           A == {"queue"} \X QueuePlaces(e)
           B == {"drained"} \X DrainedPlaces(e)
           C == {"worker"} \X Holders(e)
           D == IF down.job.ev = e THEN {<<"shutdown", e>>} ELSE {}
<1>1. Places(e) = A \cup B \cup C \cup D
  BY DEF Places
<1>2. OnePlace(e) /\ t \in Types /\ p \in Priorities /\ Once(queue[t][p]) /\ Once(down.drained)
  BY DEF PInv, Placed, Listed
<1>3. QueuePlaces(e) = {<<t, p, i>> : i \in {j \in DOMAIN queue[t][p] : queue[t][p][j] = e}}
  BY QueuePlacesOf
<1>4. ASSUME InQueue(e) PROVE \E x : A = {x}
  <2>1. PICK i \in DOMAIN queue[t][p] : queue[t][p][i] = e
    BY <1>4 DEF InQueue, In
  <2>2. {j \in DOMAIN queue[t][p] : queue[t][p][j] = e} = {i}
    BY <1>2, <2>1 DEF Once
  <2>3. QueuePlaces(e) = {<<t, p, i>>}
    BY <1>3, <2>2
  <2>4. A = {<<"queue", <<t, p, i>>>>}
    BY <2>3
  <2> QED
    BY <2>4
<1>5. ~InQueue(e) => A = {}
  BY <1>3 DEF InQueue, In
<1>6. ASSUME InDrained(e) PROVE \E x : B = {x}
  <2>1. PICK i \in DOMAIN down.drained : down.drained[i] = e
    BY <1>6 DEF InDrained, In
  <2>2. DrainedPlaces(e) = {i}
    BY <1>2, <2>1 DEF Once, DrainedPlaces
  <2>3. B = {<<"drained", i>>}
    BY <2>2
  <2> QED
    BY <2>3
<1>7. ~InDrained(e) => B = {}
  BY DEF InDrained, In, DrainedPlaces
<1>8. ASSUME AtWorker(e) PROVE \E x : C = {x}
  <2>1. Holders(e) = {t}
    BY <1>2, <1>8 DEF Holders, AtWorker, PInv, Listed
  <2>2. C = {<<"worker", t>>}
    BY <2>1
  <2> QED
    BY <2>2
<1>9. ~AtWorker(e) => C = {}
  BY DEF Holders, AtWorker, PInv, Listed
<1>10. (AtShutdown(e) => \E x : D = {x}) /\ (~AtShutdown(e) => D = {})
  BY DEF AtShutdown
<1> HIDE DEF A, B, C, D
<1>11. \A x : Places(e) = {x} => x \in Places(e)
  OBVIOUS
<1>12. CASE InQueue(e)
  <2>1. Places(e) = A
    BY <1>1, <1>2, <1>7, <1>9, <1>10, <1>12 DEF OnePlace
  <2> QED
    BY <1>2, <1>4, <1>11, <1>12, <2>1 DEF OnePlace
<1>13. CASE InDrained(e)
  <2>1. Places(e) = B
    BY <1>1, <1>2, <1>5, <1>9, <1>10, <1>13 DEF OnePlace
  <2> QED
    BY <1>2, <1>6, <1>11, <1>13, <2>1 DEF OnePlace
<1>14. CASE AtWorker(e)
  <2>1. Places(e) = C
    BY <1>1, <1>2, <1>5, <1>7, <1>10, <1>14 DEF OnePlace
  <2> QED
    BY <1>2, <1>8, <1>11, <1>14, <2>1 DEF OnePlace
<1>15. CASE AtShutdown(e)
  <2>1. Places(e) = D
    BY <1>1, <1>2, <1>5, <1>7, <1>9, <1>15 DEF OnePlace
  <2> QED
    BY <1>2, <1>10, <1>11, <1>15, <2>1 DEF OnePlace
<1>16. CASE ~InQueue(e) /\ ~InDrained(e) /\ ~AtWorker(e) /\ ~AtShutdown(e)
  BY <1>1, <1>2, <1>5, <1>7, <1>9, <1>10, <1>16 DEF OnePlace
<1> QED
  BY <1>12, <1>13, <1>14, <1>15, <1>16

-----------------------------------------------------------------------------
(* The life of an event.                                                   *)

LEMMA QueuedIsInQueue == PInv => \A e \in Events : Queued(e) <=> InQueue(e)
BY QueuePlacesOf

LEMMA QueuedIsInQueueNext == PInv' => (\A e \in Events : Queued(e) <=> InQueue(e))'
BY QueuedIsInQueue, PTL

\* The status of an event by its place.
StatusByPlace(e) ==
    /\ call[e] = "idle" => StatusOf(e) = "new"
    /\ call[e] = "blocked" => StatusOf(e) = "waiting"
    /\ call[e] \in {"refused", "dropped"} => StatusOf(e) = call[e]
    /\ call[e] = "returned" /\ fate[e] # "pending" => StatusOf(e) = fate[e]
    /\ InQueue(e) => StatusOf(e) = "accepted"
    /\ InDrained(e) \/ AtWorker(e) \/ AtShutdown(e) => StatusOf(e) = "taken"

LEMMA StatusIsByPlace == PInv => \A e \in Events : StatusByPlace(e)
<1> SUFFICES ASSUME PInv, NEW e \in Events PROVE StatusByPlace(e)
  OBVIOUS
<1>1. OnePlace(e) /\ (Queued(e) <=> InQueue(e))
  BY QueuedIsInQueue DEF PInv, Placed
<1>2. call[e] \in {"idle", "blocked", "returned", "refused", "dropped"}
      /\ fate[e] \in {"pending", "handled", "unheard", "cut"}
  BY DEF PInv, IInv, TypeOK
<1> QED
  BY <1>1, <1>2 DEF OnePlace, Under, StatusOf, StatusByPlace

LEMMA StatusIsByPlaceNext == PInv' => (\A e \in Events : StatusByPlace(e))'
BY StatusIsByPlace, PTL

LEMMA StaysStatus ==
    ASSUME PInv, PInv', NEW e \in Events, Stays(e)
    PROVE  StatusOf(e)' = StatusOf(e)
<1>1. (Queued(e) <=> InQueue(e)) /\ (Queued(e)' <=> InQueue(e)')
  BY QueuedIsInQueue, QueuedIsInQueueNext
<1> QED
  BY <1>1 DEF Stays, StatusOf

\* A step that changes no status, and one that changes the status of one event.
LEMMA StutterStep ==
    ASSUME \A f \in Events : StatusOf(f)' = StatusOf(f), UNCHANGED shuttingDown
    PROVE  [Lifecycle!Next]_(Lifecycle!vars)
BY DEF Lifecycle!vars

LEMMA MoveStep ==
    ASSUME NEW e \in Events, NEW from, NEW to,
           \A f \in Events \ {e} : StatusOf(f)' = StatusOf(f),
           StatusOf(e) = from, StatusOf(e)' = to, UNCHANGED shuttingDown
    PROVE  Lifecycle!Move(e, from, to)
BY DEF Lifecycle!Move

LEMMA StaysMoveStep ==
    ASSUME PInv, PInv', NEW e \in Events, NEW from, NEW to,
           \A f \in Events \ {e} : Stays(f),
           StatusOf(e) = from, StatusOf(e)' = to, UNCHANGED shuttingDown
    PROVE  Lifecycle!Move(e, from, to)
BY StaysStatus, MoveStep

LEMMA FinishStep ==
    ASSUME PInv, PInv', NEW e \in Events, \A f \in Events \ {e} : Stays(f),
           InDrained(e) \/ AtWorker(e) \/ AtShutdown(e), UNCHANGED shuttingDown,
           \/ InDrained(e)' \/ AtWorker(e)' \/ AtShutdown(e)'
           \/ call'[e] = "returned" /\ fate'[e] \in {"handled", "unheard", "cut"}
    PROVE  [Lifecycle!Next]_(Lifecycle!vars)
<1>1. StatusOf(e) = "taken"
  BY StatusIsByPlace DEF StatusByPlace
<1>2. CASE InDrained(e)' \/ AtWorker(e)' \/ AtShutdown(e)'
  <2>1. StatusOf(e)' = "taken"
    BY <1>2, StatusIsByPlaceNext DEF StatusByPlace
  <2> QED
    BY <1>1, <2>1, StaysStatus, StutterStep
<1>3. CASE call'[e] = "returned" /\ fate'[e] \in {"handled", "unheard", "cut"}
  <2>1. StatusOf(e)' = fate'[e]
    BY <1>3, StatusIsByPlaceNext DEF StatusByPlace
  <2>2. Lifecycle!Move(e, "taken", fate'[e])
    BY <1>1, <2>1, StaysMoveStep
  <2>3. \E to \in {"handled", "unheard", "cut"} : Lifecycle!Move(e, "taken", to)
    BY <1>3, <2>2
  <2> QED
    BY <2>3 DEF Lifecycle!Next, Lifecycle!Finish
<1> QED
  BY <1>2, <1>3

LEMMA PutStep ==
    ASSUME PInv, PInv', NEW e \in Events, Put(e), UNCHANGED <<worker, down, fate, shuttingDown>>,
           \/ call[e] = "idle" /\ ~shuttingDown
           \/ call[e] = "blocked"
    PROVE  [Lifecycle!Next]_(Lifecycle!vars)
<1>1. (\A f \in Events \ {e} : Stays(f)) /\ InQueue(e)'
  BY PutMoves
<1>2. StatusOf(e)' = "accepted"
  BY <1>1, StatusIsByPlaceNext DEF StatusByPlace
<1>3. CASE call[e] = "idle" /\ ~shuttingDown
  <2>1. StatusOf(e) = "new"
    BY <1>3, StatusIsByPlace DEF StatusByPlace
  <2>2. Lifecycle!Move(e, "new", "accepted")
    BY <1>1, <1>2, <2>1, StaysMoveStep
  <2>3. Lifecycle!Submit(e)
    BY <1>3, <2>2 DEF Lifecycle!Submit
  <2> QED
    BY <2>3 DEF Lifecycle!Next
<1>4. CASE call[e] = "blocked"
  <2>1. StatusOf(e) = "waiting"
    BY <1>4, StatusIsByPlace DEF StatusByPlace
  <2>2. Lifecycle!Accept(e)
    BY <1>1, <1>2, <2>1, StaysMoveStep DEF Lifecycle!Accept
  <2> QED
    BY <2>2 DEF Lifecycle!Next
<1> QED
  BY <1>3, <1>4

\* publish() that puts nothing.
LEMMA AnswerStep ==
    ASSUME PInv, PInv', NEW e \in Events, Publish(e), ~Put(e)
    PROVE  [Lifecycle!Next]_(Lifecycle!vars)
<1>1. call \in [Events -> {"idle", "blocked", "returned", "refused", "dropped"}]
  BY DEF PInv, IInv, TypeOK
<1>2. /\ UNCHANGED <<queue, worker, down, fate, shuttingDown>>
      /\ \A f \in Events \ {e} : call'[f] = call[f]
      /\ call[e] = "idle"
      /\ \/ shuttingDown /\ call'[e] = "refused"
         \/ ~shuttingDown /\ call'[e] \in {"dropped", "blocked"}
  BY <1>1 DEF Publish
<1>3. \A f \in Events \ {e} : Stays(f)
  BY <1>2 DEF Stays, InQueue, InDrained, AtWorker, AtShutdown
<1>4. StatusOf(e) = "new"
  BY <1>2, StatusIsByPlace DEF StatusByPlace
<1>5. CASE shuttingDown /\ call'[e] = "refused"
  <2>1. StatusOf(e)' = "refused"
    BY <1>5, StatusIsByPlaceNext DEF StatusByPlace
  <2>2. Lifecycle!Refuse(e)
    BY <1>2, <1>3, <1>4, <1>5, <2>1, StaysMoveStep DEF Lifecycle!Refuse
  <2> QED
    BY <2>2 DEF Lifecycle!Next
<1>6. CASE ~shuttingDown /\ call'[e] \in {"dropped", "blocked"}
  <2>1. StatusOf(e)' \in {"dropped", "waiting"}
    BY <1>6, StatusIsByPlaceNext DEF StatusByPlace
  <2>2. Lifecycle!Move(e, "new", StatusOf(e)')
    BY <1>2, <1>3, <1>4, StaysMoveStep
  <2>3. \E to \in {"waiting", "accepted", "dropped"} : Lifecycle!Move(e, "new", to)
    BY <2>1, <2>2
  <2>4. Lifecycle!Submit(e)
    BY <1>6, <2>3 DEF Lifecycle!Submit
  <2> QED
    BY <2>4 DEF Lifecycle!Next
<1> QED
  BY <1>2, <1>5, <1>6

LEMMA TakeStep ==
    ASSUME PInv, PInv', NEW t \in Types, worker[t].pc \in {"ready", "waiting"},
           ~IsEmpty(queue[t]), Take(t)
    PROVE  [Lifecycle!Next]_(Lifecycle!vars)
<1>1. PICK e \in Events : e = First(queue[t])
  BY BusEvents
<1>2. /\ InQueue(e)
      /\ \A f \in Events \ {e} : Stays(f)
      /\ AtWorker(e)' <=> ~Unheard(e)
      /\ call'[e] = call[e]
      /\ fate'[e] = IF Unheard(e) THEN "unheard" ELSE fate[e]
  BY <1>1, TakeMoves
<1>3. StatusOf(e) = "accepted" /\ call[e] = "returned" /\ UNCHANGED shuttingDown
  BY <1>2, StatusIsByPlace DEF StatusByPlace, PInv, Placed, OnePlace, Under, Take
<1>4. CASE Unheard(e)
  <2>1. StatusOf(e)' = "unheard"
    BY <1>2, <1>3, <1>4, StatusIsByPlaceNext DEF StatusByPlace
  <2>2. Lifecycle!Unheard(e)
    BY <1>2, <1>3, <2>1, StaysMoveStep DEF Lifecycle!Unheard
  <2> QED
    BY <2>2 DEF Lifecycle!Next
<1>5. CASE ~Unheard(e)
  <2>1. StatusOf(e)' = "taken"
    BY <1>2, <1>5, StatusIsByPlaceNext DEF StatusByPlace
  <2>2. Lifecycle!Take(e)
    BY <1>2, <1>3, <2>1, StaysMoveStep DEF Lifecycle!Take
  <2> QED
    BY <2>2 DEF Lifecycle!Next
<1> QED
  BY <1>4, <1>5

LEMMA CloseStep ==
    ASSUME PInv, PInv', NEW i \in Nat \ {0}, DrainFrom(i), UNCHANGED call,
           down.drained = <<>>, down.job = Idle, shuttingDown' = TRUE
    PROVE  [Lifecycle!Next]_(Lifecycle!vars)
<1>1. down \in [pc : DownPc, next : Nat \ {0}, size : Nat, drained : Seq(Events), job : Delivery]
  BY DEF PInv, IInv, TypeOK
<1>2. \A e \in Events :
         \/ StatusOf(e)' = StatusOf(e)
         \/ StatusOf(e) = "accepted" /\ StatusOf(e)' = "taken"
         \/ StatusOf(e) = "taken" /\ StatusOf(e)' = "cut"
  <2>1. ASSUME NEW j \in Loaded(i), UNCHANGED <<worker, history>>,
               queue' = [queue EXCEPT ![keys[j]] = NoQueue],
               down' = [pc |-> "draining", next |-> j + 1, size |-> Len(keys),
                        drained |-> Contents(queue[keys[j]]), job |-> Idle],
               NEW e \in Events
        PROVE  StatusOf(e)' = StatusOf(e) \/ (StatusOf(e) = "accepted" /\ StatusOf(e)' = "taken")
    <3>1. down'.drained = Contents(queue[keys[j]]) /\ down'.job = Idle /\ UNCHANGED <<worker, call, fate>>
      BY <2>1 DEF history
    <3>2. /\ InQueue(e)' <=> InQueue(e) /\ TypeOf[e] # keys[j]
          /\ InDrained(e)' <=> InQueue(e) /\ TypeOf[e] = keys[j]
          /\ AtWorker(e)' <=> AtWorker(e)
          /\ ~AtShutdown(e)'
      BY <2>1, <3>1, DrainMoves
    <3>3. ~InDrained(e) /\ ~AtShutdown(e)
      BY DEF InDrained, AtShutdown, In, Idle
    <3>4. CASE InQueue(e) /\ TypeOf[e] = keys[j]
      BY <3>2, <3>4, StatusIsByPlace, StatusIsByPlaceNext DEF StatusByPlace
    <3>5. CASE ~(InQueue(e) /\ TypeOf[e] = keys[j])
      BY <3>1, <3>2, <3>3, <3>5, StaysStatus DEF Stays
    <3> QED
      BY <3>4, <3>5
  <2>2. ASSUME CancelWorkers, down' = [down EXCEPT !.pc = "gather", !.next = i], NEW e \in Events
        PROVE  StatusOf(e)' = StatusOf(e) \/ (StatusOf(e) = "taken" /\ StatusOf(e)' = "cut")
    <3>1. UNCHANGED <<call, down.drained, down.job>>
      BY <1>1, <2>2
    <3>2. /\ InQueue(e)' <=> InQueue(e)
          /\ InDrained(e)' <=> InDrained(e)
          /\ AtShutdown(e)' <=> AtShutdown(e)
          /\ ~AtWorker(e)'
          /\ fate'[e] = IF AtWorker(e) THEN "cut" ELSE fate[e]
      BY <2>2, <3>1, CancelMoves
    <3>3. CASE AtWorker(e)
      <4>1. call'[e] = "returned"
        BY <3>1, <3>3 DEF PInv, Placed, OnePlace, Under
      <4> QED
        BY <3>2, <3>3, <4>1, StatusIsByPlace, StatusIsByPlaceNext DEF StatusByPlace
    <3>4. CASE ~AtWorker(e)
      BY <3>1, <3>2, <3>4, StaysStatus DEF Stays
    <3> QED
      BY <3>3, <3>4
  <2> QED
    BY <2>1, <2>2 DEF DrainFrom
<1>3. Lifecycle!Close
  BY <1>2 DEF Lifecycle!Close
<1> QED
  BY <1>3 DEF Lifecycle!Next

LEMMA QuietStep ==
    ASSUME PInv, PInv', UNCHANGED <<queue, down.drained, down.job, fate, call, shuttingDown>>,
           \A t \in Types : worker'[t].job = worker[t].job
    PROVE  [Lifecycle!Next]_(Lifecycle!vars)
<1>1. \A f \in Events : Stays(f)
  BY DEF Stays, InQueue, InDrained, AtWorker, AtShutdown
<1> QED
  BY <1>1, StaysStatus, StutterStep

LEMMA NextRefines ==
    ASSUME PInv, PInv', [Next]_vars PROVE [Lifecycle!Next]_(Lifecycle!vars)
<1> DEFINE Refined == [Lifecycle!Next]_(Lifecycle!vars)
<1> HIDE DEF Refined
<1> SUFFICES Refined
  BY DEF Refined
<1>1. /\ \A f \in Events : OnePlace(f)
      /\ worker \in [Types -> [pc : WorkerPc, job : Delivery]]
      /\ down \in [pc : DownPc, next : Nat \ {0}, size : Nat, drained : Seq(Events), job : Delivery]
      /\ Phased /\ BusyOK
  BY DEF PInv, IInv, TypeOK, Placed
<1>2. ASSUME UNCHANGED <<queue, down, fate, call, worker, shuttingDown>> PROVE Refined
  BY <1>2, QuietStep DEF Refined
<1>3. ASSUME NEW s \in Subscribers, Subscribe(s) PROVE Refined
  <2>1. \A t \in Types : worker'[t].job = worker[t].job
    BY <1>1, <1>3 DEF Subscribe
  <2> QED
    BY <1>3, <2>1, QuietStep DEF Refined, Subscribe, history
<1>4. ASSUME NEW e \in Events, Publish(e) PROVE Refined
  <2>1. CASE Put(e)
    <3>1. ~shuttingDown
      BY <1>1, <1>4, <2>1 DEF Publish, Put, PInv, IInv, TypeOK
    <3> QED
      BY <1>4, <2>1, <3>1, PutStep DEF Refined, Publish
  <2>2. CASE ~Put(e)
    BY <1>4, <2>2, AnswerStep DEF Refined
  <2> QED
    BY <2>1, <2>2
<1>5. ASSUME NEW e \in Events, Retry(e) PROVE Refined
  BY <1>5, PutStep DEF Refined, Retry
<1>6. ASSUME NEW t \in Types, Turn(t) \/ Wake(t) PROVE Refined
  <2>1. CASE ~IsEmpty(queue[t]) /\ Take(t)
    BY <1>6, <2>1, TakeStep DEF Refined, Turn, Wake
  <2>2. CASE /\ worker' = [worker EXCEPT ![t].pc = IF shuttingDown THEN "stopped" ELSE "waiting"]
             /\ UNCHANGED <<started, shuttingDown, subs, keys, queue, call, down, history>>
    <3>1. \A u \in Types : worker'[u].job = worker[u].job
      BY <1>1, <2>2
    <3> QED
      BY <2>2, <3>1, QuietStep DEF Refined, history
  <2> QED
    BY <1>6, <2>1, <2>2 DEF Turn, Wake
<1>7. ASSUME NEW t \in Types, HandlerEnds(t) \/ HandlerCancelled(t) PROVE Refined
  <2>1. PICK e \in Events : e = worker[t].job.ev
    BY <1>1, <1>7, BusEvents DEF BusyOK, HandlerEnds, HandlerCancelled
  <2>2. AtWorker(e) => call[e] = "returned"
    BY <1>1 DEF OnePlace, Under
  <2>3. UNCHANGED shuttingDown
    BY <1>7 DEF HandlerEnds, HandlerCancelled
  <2> QED
    BY <1>7, <2>1, <2>2, <2>3, HandlerEndsMoves, FinishStep DEF Refined
<1>8. CASE Shutdown
  <2>1. down.drained = <<>> /\ down.job = Idle
    BY <1>1, <1>8 DEF Phased, Shutdown
  <2> QED
    BY <1>8, <2>1, CloseStep DEF Refined, Shutdown
<1>9. CASE DownNext
  <2>1. CASE Len(keys) = down.size
    <3>1. shuttingDown' = TRUE
      BY <1>1, <1>9 DEF Phased, DownNext, PInv, IInv, TypeOK
    <3> QED
      BY <1>1, <1>9, <2>1, <3>1, CloseStep DEF Refined, DownNext
  <2>2. CASE Len(keys) # down.size
    <3>1. UNCHANGED <<down.drained, down.job, queue, worker, call, fate, shuttingDown>>
      BY <1>1, <1>9, <2>2 DEF DownNext, history
    <3> QED
      BY <3>1, QuietStep DEF Refined
  <2> QED
    BY <2>1, <2>2
<1>10. CASE DownClear
  <2>1. \A t \in Types : worker'[t].job = worker[t].job
    BY <1>1, <1>10 DEF DownClear, Phased
  <2>2. UNCHANGED <<down.drained, down.job, queue, call, fate, shuttingDown>>
    BY <1>1, <1>10 DEF DownClear, history
  <2> QED
    BY <2>1, <2>2, QuietStep DEF Refined
<1>11. CASE DownDeliver
  <2>1. PICK e \in Events : e = Head(down.drained)
    BY <1>11, BusEvents DEF DownDeliver
  <2>2. InDrained(e) => call[e] = "returned"
    BY <1>1 DEF OnePlace, Under
  <2>3. UNCHANGED shuttingDown
    BY <1>11 DEF DownDeliver
  <2> QED
    BY <1>11, <2>1, <2>2, <2>3, DownDeliverMoves, FinishStep DEF Refined
<1>12. CASE DownHandlerEnds \/ DownHandlerCancelled
  <2>1. PICK e \in Events : e = down.job.ev
    BY <1>12, BusEvents DEF DownHandlerEnds, DownHandlerCancelled, DrainBusy
  <2>2. AtShutdown(e) => call[e] = "returned"
    BY <1>1 DEF OnePlace, Under
  <2>3. UNCHANGED shuttingDown
    BY <1>12 DEF DownHandlerEnds, DownHandlerCancelled
  <2> QED
    BY <1>12, <2>1, <2>2, <2>3, DownHandlerMoves, FinishStep DEF Refined
<1>13. CASE CallerStep
  BY <1>2, <1>3, <1>4, <1>7, <1>8, <1>13 DEF CallerStep, Start, Unsubscribe, history
<1>14. CASE UNCHANGED vars
  BY <1>2, <1>14 DEF vars, history
<1> QED
  BY <1>5, <1>6, <1>7, <1>9, <1>10, <1>11, <1>12, <1>13, <1>14
     DEF Next, RetryStep, WorkerStep, DownStep

LEMMA InitRefines == Init => Lifecycle!Init
<1> SUFFICES ASSUME Init PROVE Lifecycle!Init
  OBVIOUS
<1>1. \A e \in Events : StatusOf(e) = "new"
  BY DEF Init, StatusOf
<1> QED
  BY <1>1 DEF Init, Lifecycle!Init

\* Whatever publishers, subscribers, workers and shutdown() do, each event lives
\* the life EventLifecycle.tla promises: the bus implements it.
THEOREM BusImplementsLifecycle == Spec => ImplementsLifecycle
<1>1. Init => Lifecycle!Init
  BY InitRefines
<1>2. PInv /\ PInv' /\ [Next]_vars => [Lifecycle!Next]_(Lifecycle!vars)
  BY NextRefines
<1> QED
  BY <1>1, <1>2, InvariantPInv, PTL DEF Spec, ImplementsLifecycle, Lifecycle!Spec

-----------------------------------------------------------------------------
(* Who hears an event.                                                     *)

\* h was heard of the audience a, and todo is to hear.
Halfway(h, todo, a) ==
    /\ Once(h) /\ Once(todo)
    /\ \A x : ~(In(x, h) /\ In(x, todo))
    /\ \A x : x \in a <=> In(x, h) \/ In(x, todo)

Hearing(e) ==
    /\ AtWorker(e) => Halfway(heard[e], worker[TypeOf[e]].job.todo, audience[e])
    /\ AtShutdown(e) => Halfway(heard[e], down.job.todo, audience[e])
    /\ fate[e] = "pending" /\ ~AtWorker(e) /\ ~AtShutdown(e) => heard[e] = <<>>
    /\ Once(heard[e]) /\ \A x : In(x, heard[e]) => x \in audience[e]
    /\ fate[e] = "handled" => audience[e] # {} /\ \A x \in audience[e] : In(x, heard[e])

SubscribedOnce == \A t \in Types : Once(subs[t])
HInv == SubscribedOnce /\ \A e \in Events : Hearing(e)

LEMMA InRange == ASSUME NEW s PROVE \A x : x \in Range(s) <=> In(x, s)
BY DEF Range, In

LEMMA HalfwayBegin ==
    ASSUME NEW s \in Seq(Subscribers), Once(s) PROVE Halfway(<<>>, s, Range(s))
<1>1. Once(<<>>) /\ \A x : ~In(x, <<>>)
  BY DEF Once, In
<1> QED
  BY <1>1, InRange DEF Halfway

LEMMA HalfwayEnd ==
    ASSUME NEW h \in Seq(Subscribers), NEW todo \in Seq(Subscribers), NEW a,
           Halfway(h, todo, a), todo # <<>>
    PROVE  /\ Once(Append(h, Head(todo))) /\ \A x : In(x, Append(h, Head(todo))) => x \in a
           /\ Len(todo) # 1 => Halfway(Append(h, Head(todo)), Tail(todo), a)
           /\ Len(todo) = 1 => a # {} /\ \A x \in a : In(x, Append(h, Head(todo)))
<1> DEFINE s == Head(todo)
<1>1. s \in Subscribers /\ Once(todo) /\ Once(h)
  BY DEF Halfway
<1>2. /\ \A x : In(x, Tail(todo)) <=> In(x, todo) /\ x # s
      /\ In(s, todo) /\ Once(Tail(todo))
  BY <1>1, InTail
<1>3. ~In(s, h)
  BY <1>2 DEF Halfway
<1>4. (\A x : In(x, Append(h, s)) <=> In(x, h) \/ x = s) /\ Once(Append(h, s))
  BY <1>1, <1>3, InAppend
<1>5. ASSUME Len(todo) = 1 PROVE \A x : ~In(x, Tail(todo))
  <2>1. DOMAIN Tail(todo) = 1..Len(Tail(todo)) /\ Len(Tail(todo)) = 0
    BY <1>5
  <2>2. \A i : i \notin 1..0
    OBVIOUS
  <2> QED
    BY <2>1, <2>2, Zenon DEF In
<1> HIDE DEF s
<1>6. \A x : In(x, Append(h, s)) => x \in a
  BY <1>2, <1>4 DEF Halfway
<1>7. Halfway(Append(h, s), Tail(todo), a)
  <2>1. \A x : ~(In(x, Append(h, s)) /\ In(x, Tail(todo)))
    BY <1>2, <1>4 DEF Halfway
  <2>2. \A x : x \in a <=> In(x, Append(h, s)) \/ In(x, Tail(todo))
    BY <1>2, <1>4 DEF Halfway
  <2> QED
    BY <1>2, <1>4, <2>1, <2>2 DEF Halfway
<1>8. s \in a
  BY <1>2 DEF Halfway
<1>9. Len(todo) = 1 => \A x \in a : In(x, Append(h, s))
  BY <1>5, <1>7 DEF Halfway
<1> QED
  BY <1>4, <1>6, <1>7, <1>8, <1>9 DEF s

LEMMA RemoveOnce ==
    ASSUME NEW s \in Seq(Subscribers), Once(s), NEW i \in DOMAIN s
    PROVE  Once(RemoveAt(s, i))
<1> DEFINE a == SubSeq(s, 1, i - 1)
           b == SubSeq(s, i + 1, Len(s))
<1>1. /\ i \in 1..Len(s) /\ Len(s) \in Nat /\ DOMAIN s = 1..Len(s)
      /\ a \in Seq(Subscribers) /\ b \in Seq(Subscribers)
      /\ Len(a) = i - 1 /\ \A k \in 1..i - 1 : a[k] = s[k]
      /\ Len(b) = Len(s) - i /\ \A k \in 1..Len(s) - i : b[k] = s[k + i]
  OBVIOUS
<1>2. DOMAIN a = 1..i - 1 /\ DOMAIN b = 1..Len(s) - i
  BY <1>1
<1> HIDE DEF a, b
<1>3. Once(a)
  BY <1>1, <1>2 DEF Once
<1>4. Once(b)
  <2> SUFFICES ASSUME NEW k \in 1..Len(s) - i, NEW l \in 1..Len(s) - i, b[k] = b[l] PROVE k = l
    BY <1>2 DEF Once
  <2>1. k + i \in 1..Len(s) /\ l + i \in 1..Len(s) /\ s[k + i] = s[l + i]
    BY <1>1
  <2>2. k + i = l + i
    BY <1>1, <2>1 DEF Once
  <2> QED
    BY <1>1, <2>2
<1>5. ASSUME NEW x, In(x, a), In(x, b) PROVE FALSE
  <2>1. PICK k \in 1..i - 1 : s[k] = x
    BY <1>1, <1>2, <1>5 DEF In
  <2>2. PICK l \in 1..Len(s) - i : s[l + i] = x
    BY <1>1, <1>2, <1>5 DEF In
  <2>3. k \in 1..Len(s) /\ l + i \in 1..Len(s) /\ k # l + i
    BY <1>1
  <2> QED
    BY <1>1, <2>1, <2>2, <2>3 DEF Once
<1>6. Once(a \o b)
  BY <1>1, <1>3, <1>4, <1>5, InConcat
<1> QED
  BY <1>6 DEF RemoveAt, a, b

LEMMA NextSubscribed == ASSUME IInv, SubscribedOnce, [Next]_vars PROVE SubscribedOnce'
<1>1. subs \in [Types -> Seq(Subscribers)]
  BY DEF IInv, TypeOK
<1>2. ASSUME NEW s \in Subscribers, Subscribe(s) PROVE SubscribedOnce'
  <2> DEFINE t == Interest[s]
  <2>1. t \in Types /\ ~In(s, subs[t])
    BY <1>2, InRange DEF Subscribe
  <2>2. Once(Append(subs[t], s))
    BY <1>1, <2>1, InAppend DEF SubscribedOnce
  <2> QED
    BY <1>1, <1>2, <2>1, <2>2 DEF Subscribe, SubscribedOnce
<1>3. ASSUME NEW s \in Subscribers, Unsubscribe(s) PROVE SubscribedOnce'
  <2> DEFINE t == Interest[s]
  <2>1. PICK i \in DOMAIN subs[t] : subs' = [subs EXCEPT ![t] = RemoveAt(subs[t], i)]
    BY <1>3 DEF Unsubscribe
  <2>2. t \in Types /\ Once(RemoveAt(subs[t], i))
    BY <1>1, RemoveOnce DEF SubscribedOnce
  <2> QED
    BY <1>1, <2>1, <2>2 DEF SubscribedOnce
<1>4. CASE UNCHANGED subs
  BY <1>4 DEF SubscribedOnce
<1> QED
  BY <1>2, <1>3, <1>4 DEF Next, CallerStep, RetryStep, WorkerStep, DownStep, Start, Shutdown,
     Publish, HandlerCancelled, Retry, Turn, Take, Wake, HandlerEnds, DownDeliver, DownHandlerEnds,
     DownNext, DownClear, DownHandlerCancelled, vars

\* An event whose delivery the step has nothing to do with.
LEMMA StaysHearing ==
    ASSUME NEW f \in Events, Hearing(f),
           heard'[f] = heard[f], audience'[f] = audience[f], fate'[f] = fate[f],
           AtWorker(f)' <=> AtWorker(f), AtShutdown(f)' <=> AtShutdown(f),
           AtWorker(f) => worker'[TypeOf[f]].job = worker[TypeOf[f]].job,
           AtShutdown(f) => down'.job = down.job
    PROVE  Hearing(f)'
BY DEF Hearing

LEMMA BeginHearing ==
    ASSUME PInv, SubscribedOnce, NEW e \in Events, Hearing(e), NoteBegin(e), fate[e] = "pending",
           ~AtWorker(e), ~AtShutdown(e),
           \/ /\ AtWorker(e)' <=> ~Unheard(e)
              /\ ~AtShutdown(e)' /\ worker'[TypeOf[e]].job = Begin(e)
           \/ /\ AtShutdown(e)' <=> ~Unheard(e)
              /\ ~AtWorker(e)' /\ down'.job = Begin(e)
    PROVE  Hearing(e)'
<1> DEFINE s == subs[TypeOf[e]]
<1>1. /\ s \in Seq(Subscribers) /\ Once(s)
      /\ audience \in [Events -> SUBSET Subscribers]
      /\ fate \in [Events -> {"pending", "handled", "unheard", "cut"}]
  BY DEF PInv, IInv, TypeOK, SubscribedOnce
<1>2. heard'[e] = <<>> /\ audience'[e] = Range(s)
      /\ fate'[e] = (IF Unheard(e) THEN "unheard" ELSE "pending")
  BY <1>1 DEF NoteBegin, Hearing
<1>3. Halfway(<<>>, s, Range(s))
  BY <1>1, HalfwayBegin
<1>4. ~Unheard(e) => Begin(e).todo = s
  BY DEF Begin
<1>5. Once(<<>>) /\ \A x : ~In(x, <<>>)
  BY DEF Once, In
<1> HIDE DEF s
<1> QED
  BY <1>2, <1>3, <1>4, <1>5 DEF Hearing

LEMMA EndHearing ==
    ASSUME PInv, NEW e \in Events, Hearing(e), NEW job \in Delivery, job # Idle, JobOK(job),
           job.ev = e, NoteEnd(job), Halfway(heard[e], job.todo, audience[e]), fate[e] = "pending",
           \/ /\ AtWorker(e)' <=> AfterOne(job) # Idle
              /\ ~AtShutdown(e)' /\ worker'[TypeOf[e]].job = AfterOne(job)
           \/ /\ AtShutdown(e)' <=> AfterOne(job) # Idle
              /\ ~AtWorker(e)' /\ down'.job = AfterOne(job)
    PROVE  Hearing(e)'
<1>1. /\ job.todo \in Seq(Subscribers) /\ job.todo # <<>> /\ e # NoEvent
      /\ heard \in [Events -> Seq(Subscribers)]
      /\ fate \in [Events -> {"pending", "handled", "unheard", "cut"}]
  BY DEF PInv, IInv, TypeOK, JobOK, Delivery
<1> DEFINE h == Append(heard[e], Head(job.todo))
<1>2. heard'[e] = h /\ audience'[e] = audience[e]
      /\ fate'[e] = (IF AfterOne(job) = Idle THEN "handled" ELSE "pending")
  BY <1>1 DEF NoteEnd
<1>3. /\ Once(h) /\ \A x : In(x, h) => x \in audience[e]
      /\ Len(job.todo) # 1 => Halfway(h, Tail(job.todo), audience[e])
      /\ Len(job.todo) = 1 => audience[e] # {} /\ \A x \in audience[e] : In(x, h)
  BY <1>1, HalfwayEnd
<1>4. AfterOne(job) = Idle <=> Len(job.todo) = 1
  BY <1>1 DEF AfterOne, Idle, Delivery
<1>5. Len(job.todo) # 1 => AfterOne(job).todo = Tail(job.todo)
  BY DEF AfterOne, Delivery
<1> HIDE DEF h
<1> QED
  BY <1>2, <1>3, <1>4, <1>5 DEF Hearing

\* A delivery that is cut off.
LEMMA CutHearing ==
    ASSUME NEW e \in Events, Hearing(e), fate'[e] = "cut", ~AtWorker(e)', ~AtShutdown(e)',
           heard'[e] = heard[e], audience'[e] = audience[e]
    PROVE  Hearing(e)'
BY DEF Hearing

LEMMA TakeHearing ==
    ASSUME PInv, HInv, NEW t \in Types, worker[t].pc \in {"ready", "waiting"},
           ~IsEmpty(queue[t]), Take(t), NEW f \in Events
    PROVE  Hearing(f)'
<1>1. PICK e \in Events : e = First(queue[t])
  BY BusEvents
<1>2. /\ InQueue(e)
      /\ \A g \in Events \ {e} : Stays(g)
      /\ ~AtShutdown(e)' /\ (AtWorker(e)' <=> ~Unheard(e))
  BY <1>1, TakeMoves
<1>3. /\ worker \in [Types -> [pc : WorkerPc, job : Delivery]]
      /\ audience \in [Events -> SUBSET Subscribers]
      /\ worker[t].job = Idle
  BY DEF PInv, IInv, TypeOK, Phased
<1>4. TypeOf[e] = t
  <2>1. queue[t] \in [Priorities -> Seq(Events)] /\ Filed(t, queue[t])
    BY DEF PInv, IInv, TypeOK, AllFiled
  <2>2. Level(queue[t]) \in Priorities /\ queue[t][Level(queue[t])] # <<>>
    BY <2>1, LevelOfQueue
  <2>3. e = queue[t][Level(queue[t])][1] /\ 1 \in DOMAIN queue[t][Level(queue[t])]
    BY <1>1, <2>1, <2>2 DEF First
  <2> QED
    BY <2>1, <2>2, <2>3 DEF Filed
<1>5. /\ worker'[t].job = Begin(e) /\ \A u \in Types : u # t => worker'[u] = worker[u]
      /\ NoteBegin(e) /\ UNCHANGED down
  BY <1>1, <1>3 DEF Take
<1>6. CASE f = e
  <2>1. fate[e] = "pending" /\ ~AtWorker(e) /\ ~AtShutdown(e)
    BY <1>2 DEF PInv, Placed, OnePlace, Under
  <2> QED
    BY <1>2, <1>4, <1>5, <1>6, <2>1, BeginHearing DEF HInv
<1>7. CASE f # e
  <2>1. Stays(f) /\ heard'[f] = heard[f] /\ audience'[f] = audience[f]
    BY <1>2, <1>3, <1>5, <1>7 DEF NoteBegin
  <2>2. AtWorker(f) => TypeOf[f] # t
    BY <1>3 DEF AtWorker, Idle
  <2>3. AtWorker(f) => worker'[TypeOf[f]].job = worker[TypeOf[f]].job
    BY <1>5, <2>2
  <2> QED
    BY <1>5, <2>1, <2>3, StaysHearing DEF HInv, Stays
<1> QED
  BY <1>6, <1>7

LEMMA HandlerHearing ==
    ASSUME PInv, HInv, NEW t \in Types, HandlerEnds(t) \/ HandlerCancelled(t), NEW f \in Events
    PROVE  Hearing(f)'
<1> DEFINE job == worker[t].job
<1>1. /\ worker \in [Types -> [pc : WorkerPc, job : Delivery]]
      /\ heard \in [Events -> Seq(Subscribers)]
      /\ fate \in [Events -> {"pending", "handled", "unheard", "cut"}]
      /\ job # Idle /\ JobOK(job) /\ job \in Delivery
  BY DEF PInv, IInv, TypeOK, BusyOK, HandlerEnds, HandlerCancelled
<1>2. PICK e \in Events : e = job.ev
  BY <1>1, BusEvents
<1>3. TypeOf[e] = t
  BY <1>2 DEF PInv, Listed
<1>4. /\ AtWorker(e) /\ ~AtShutdown(e)'
      /\ \A g \in Events \ {e} : Stays(g)
  BY <1>2, HandlerEndsMoves
<1>5. fate[e] = "pending" /\ Halfway(heard[e], job.todo, audience[e])
  BY <1>3, <1>4 DEF PInv, Placed, OnePlace, Under, HInv, Hearing
<1>6. \A u \in Types : u # t => worker'[u] = worker[u]
  BY <1>1 DEF HandlerEnds, HandlerCancelled
<1>7. CASE f = e /\ HandlerEnds(t)
  <2>1. NoteEnd(job) /\ worker'[t].job = AfterOne(job)
    BY <1>1, <1>7 DEF HandlerEnds
  <2>2. AtWorker(e)' <=> AfterOne(job) # Idle
    <3>1. AfterOne(job) # Idle => AfterOne(job).ev = e
      BY <1>1, <1>2 DEF AfterOne, Delivery
    <3>2. Idle.ev # e
      BY DEF Idle
    <3> QED
      BY <1>3, <2>1, <3>1, <3>2 DEF AtWorker
  <2> HIDE DEF job
  <2> QED
    BY <1>1, <1>2, <1>3, <1>4, <1>5, <1>7, <2>1, <2>2, EndHearing DEF HInv
<1>8. CASE f = e /\ HandlerCancelled(t)
  <2>1. fate'[e] = "cut" /\ worker'[t].job = Idle /\ UNCHANGED <<heard, audience>>
    BY <1>1, <1>2, <1>8 DEF HandlerCancelled
  <2>2. ~AtWorker(e)'
    BY <1>3, <2>1 DEF AtWorker, Idle
  <2> QED
    BY <1>4, <1>8, <2>1, <2>2, CutHearing DEF HInv
<1>9. CASE f # e
  <2>1. Stays(f) /\ heard'[f] = heard[f] /\ audience'[f] = audience[f] /\ UNCHANGED down
    BY <1>1, <1>2, <1>4, <1>9 DEF HandlerEnds, HandlerCancelled, NoteEnd
  <2>2. AtWorker(f) => TypeOf[f] # t
    BY <1>2, <1>9 DEF AtWorker
  <2>3. AtWorker(f) => worker'[TypeOf[f]].job = worker[TypeOf[f]].job
    BY <1>6, <2>2
  <2> QED
    BY <2>1, <2>3, StaysHearing DEF HInv, Stays
<1> QED
  BY <1>7, <1>8, <1>9

LEMMA DownHearing ==
    ASSUME PInv, HInv, DownDeliver \/ DownHandlerEnds \/ DownHandlerCancelled, NEW f \in Events
    PROVE  Hearing(f)'
<1>1. /\ down \in [pc : DownPc, next : Nat \ {0}, size : Nat, drained : Seq(Events), job : Delivery]
      /\ heard \in [Events -> Seq(Subscribers)]
      /\ audience \in [Events -> SUBSET Subscribers]
      /\ fate \in [Events -> {"pending", "handled", "unheard", "cut"}]
      /\ JobOK(down.job)
  BY DEF PInv, IInv, TypeOK, BusyOK
<1>2. UNCHANGED worker
  BY DEF DownDeliver, DownHandlerEnds, DownHandlerCancelled
<1>3. CASE DownDeliver
  <2>1. PICK e \in Events : e = Head(down.drained)
    BY <1>3, BusEvents DEF DownDeliver
  <2>2. /\ InDrained(e) /\ ~AtWorker(e)' /\ (AtShutdown(e)' <=> ~Unheard(e))
        /\ \A g \in Events \ {e} : Stays(g)
    BY <1>3, <2>1, DownDeliverMoves
  <2>3. NoteBegin(e) /\ down'.job = Begin(e) /\ down.job = Idle
    BY <1>1, <1>3, <2>1 DEF DownDeliver
  <2>4. CASE f = e
    <3>1. fate[e] = "pending" /\ ~AtWorker(e) /\ ~AtShutdown(e)
      BY <2>2 DEF PInv, Placed, OnePlace, Under
    <3> QED
      BY <2>2, <2>3, <2>4, <3>1, BeginHearing DEF HInv
  <2>5. CASE f # e
    <3>1. Stays(f) /\ heard'[f] = heard[f] /\ audience'[f] = audience[f]
      BY <1>1, <2>2, <2>3, <2>5 DEF NoteBegin
    <3>2. ~AtShutdown(f)
      BY <2>3 DEF AtShutdown, Idle
    <3> QED
      BY <1>2, <3>1, <3>2, StaysHearing DEF HInv, Stays
  <2> QED
    BY <2>4, <2>5
<1>4. CASE DownHandlerEnds \/ DownHandlerCancelled
  <2> DEFINE job == down.job
  <2>1. job # Idle /\ job \in Delivery
    BY <1>1, <1>4 DEF DownHandlerEnds, DownHandlerCancelled, DrainBusy
  <2>2. PICK e \in Events : e = job.ev
    BY <2>1, BusEvents
  <2>3. /\ AtShutdown(e) /\ ~AtWorker(e)'
        /\ \A g \in Events \ {e} : Stays(g)
    BY <1>4, <2>2, DownHandlerMoves
  <2>4. fate[e] = "pending" /\ Halfway(heard[e], job.todo, audience[e])
    BY <2>3 DEF PInv, Placed, OnePlace, Under, HInv, Hearing
  <2>5. CASE f = e /\ DownHandlerEnds
    <3>1. NoteEnd(job) /\ down'.job = AfterOne(job)
      BY <1>1, <2>5 DEF DownHandlerEnds
    <3>2. AtShutdown(e)' <=> AfterOne(job) # Idle
      <4>1. AfterOne(job) # Idle => AfterOne(job).ev = e
        BY <2>1, <2>2 DEF AfterOne, Delivery
      <4>2. Idle.ev # e
        BY DEF Idle
      <4> QED
        BY <3>1, <4>1, <4>2 DEF AtShutdown
    <3> HIDE DEF job
    <3> QED
      BY <1>1, <2>1, <2>2, <2>3, <2>4, <2>5, <3>1, <3>2, EndHearing DEF HInv, job
  <2>6. CASE f = e /\ DownHandlerCancelled
    <3>1. fate'[e] = "cut" /\ down'.job = Idle /\ UNCHANGED <<heard, audience>>
      BY <1>1, <2>2, <2>6 DEF DownHandlerCancelled
    <3>2. ~AtShutdown(e)'
      BY <3>1 DEF AtShutdown, Idle
    <3> QED
      BY <2>3, <2>6, <3>1, <3>2, CutHearing DEF HInv
  <2>7. CASE f # e
    <3>1. Stays(f) /\ heard'[f] = heard[f] /\ audience'[f] = audience[f]
      BY <1>1, <1>4, <2>2, <2>3, <2>7 DEF DownHandlerEnds, DownHandlerCancelled, NoteEnd
    <3>2. ~AtShutdown(f)
      BY <2>2, <2>7 DEF AtShutdown
    <3> QED
      BY <1>2, <3>1, <3>2, StaysHearing DEF HInv, Stays
  <2> QED
    BY <1>4, <2>5, <2>6, <2>7
<1> QED
  BY <1>3, <1>4

LEMMA QuietHearing ==
    ASSUME HInv, UNCHANGED <<down.job, fate, heard, audience>>,
           \A t \in Types : worker'[t].job = worker[t].job, NEW f \in Events
    PROVE  Hearing(f)'
BY StaysHearing DEF HInv, AtWorker, AtShutdown

LEMMA DrainHearing ==
    ASSUME PInv, HInv, NEW i \in Nat \ {0}, DrainFrom(i), UNCHANGED call, down.drained = <<>>,
           down.job = Idle, NEW f \in Events
    PROVE  Hearing(f)'
<1>1. down \in [pc : DownPc, next : Nat \ {0}, size : Nat, drained : Seq(Events), job : Delivery]
  BY DEF PInv, IInv, TypeOK
<1>2. CASE UNCHANGED <<worker, history>> /\ down'.job = Idle
  BY <1>2, QuietHearing DEF history
<1>3. CASE CancelWorkers /\ down' = [down EXCEPT !.pc = "gather", !.next = i]
  <2>1. UNCHANGED <<call, down.drained, down.job, heard, audience>>
    BY <1>1, <1>3 DEF CancelWorkers
  <2>2. /\ AtShutdown(f)' <=> AtShutdown(f)
        /\ ~AtWorker(f)'
        /\ fate'[f] = IF AtWorker(f) THEN "cut" ELSE fate[f]
        /\ ~AtShutdown(f)
    BY <1>3, <2>1, CancelMoves DEF AtShutdown, Idle
  <2>3. CASE AtWorker(f)
    BY <2>1, <2>2, <2>3, CutHearing DEF HInv
  <2>4. CASE ~AtWorker(f)
    BY <2>1, <2>2, <2>4, StaysHearing DEF HInv
  <2> QED
    BY <2>3, <2>4
<1> QED
  BY <1>2, <1>3 DEF DrainFrom

LEMMA NextHearing == ASSUME PInv, HInv, [Next]_vars PROVE HInv'
<1> SUFFICES ASSUME NEW f \in Events PROVE Hearing(f)'
  BY NextSubscribed DEF HInv, PInv
<1>1. /\ worker \in [Types -> [pc : WorkerPc, job : Delivery]]
      /\ down \in [pc : DownPc, next : Nat \ {0}, size : Nat, drained : Seq(Events), job : Delivery]
      /\ Phased
  BY DEF PInv, IInv, TypeOK
<1>2. ASSUME UNCHANGED <<down, fate, worker, heard, audience>> PROVE Hearing(f)'
  BY <1>2, QuietHearing
<1>3. ASSUME NEW s \in Subscribers, Subscribe(s) PROVE Hearing(f)'
  <2>1. \A t \in Types : worker'[t].job = worker[t].job
    BY <1>1, <1>3 DEF Subscribe
  <2> QED
    BY <1>3, <2>1, QuietHearing DEF Subscribe, history
<1>4. ASSUME NEW e \in Events, Publish(e) \/ Retry(e) PROVE Hearing(f)'
  BY <1>2, <1>4 DEF Publish, Retry
<1>5. ASSUME NEW t \in Types, Turn(t) \/ Wake(t) PROVE Hearing(f)'
  <2>1. CASE ~IsEmpty(queue[t]) /\ Take(t)
    BY <1>5, <2>1, TakeHearing DEF Turn, Wake
  <2>2. CASE /\ worker' = [worker EXCEPT ![t].pc = IF shuttingDown THEN "stopped" ELSE "waiting"]
             /\ UNCHANGED <<started, shuttingDown, subs, keys, queue, call, down, history>>
    <3>1. \A u \in Types : worker'[u].job = worker[u].job
      BY <1>1, <2>2
    <3> QED
      BY <2>2, <3>1, QuietHearing DEF history
  <2> QED
    BY <1>5, <2>1, <2>2 DEF Turn, Wake
<1>6. CASE Shutdown
  <2>1. down.drained = <<>> /\ down.job = Idle
    BY <1>1, <1>6 DEF Phased, Shutdown
  <2> QED
    BY <1>6, <2>1, DrainHearing DEF Shutdown
<1>7. CASE DownNext
  <2>1. CASE Len(keys) = down.size
    BY <1>1, <1>7, <2>1, DrainHearing DEF DownNext
  <2>2. CASE Len(keys) # down.size
    <3>1. UNCHANGED <<down.job, worker, fate, heard, audience>>
      BY <1>1, <1>7, <2>2 DEF DownNext, history
    <3> QED
      BY <3>1, QuietHearing
  <2> QED
    BY <2>1, <2>2
<1>8. CASE DownClear
  <2>1. \A t \in Types : worker'[t].job = worker[t].job
    BY <1>1, <1>8 DEF DownClear, Phased
  <2>2. UNCHANGED <<down.job, fate, heard, audience>>
    BY <1>1, <1>8 DEF DownClear, history
  <2> QED
    BY <2>1, <2>2, QuietHearing
<1>9. CASE CallerStep
  BY <1>2, <1>3, <1>4, <1>6, <1>9, HandlerHearing DEF CallerStep, Start, Unsubscribe, history
<1>10. CASE UNCHANGED vars
  BY <1>2, <1>10 DEF vars, history
<1> QED
  BY <1>4, <1>5, <1>7, <1>8, <1>9, <1>10, HandlerHearing, DownHearing
     DEF Next, RetryStep, WorkerStep, DownStep

LEMMA InitHearing == Init => HInv
<1> SUFFICES ASSUME Init PROVE HInv
  OBVIOUS
<1>1. Once(<<>>) /\ \A x : ~In(x, <<>>)
  BY DEF Once, In
<1>2. SubscribedOnce
  BY <1>1 DEF Init, SubscribedOnce
<1>3. ASSUME NEW e \in Events PROVE Hearing(e)
  BY <1>1 DEF Init, Hearing, AtWorker, AtShutdown, Idle
<1> QED
  BY <1>2, <1>3 DEF HInv

LEMMA HearingSuffices == HInv => EveryoneHearsOnce
BY InRange, ZenonT(40) DEF HInv, Hearing, EveryoneHearsOnce, Once, IsInjective

-----------------------------------------------------------------------------
(* The order of the events.                                                *)

Before(a, b) == \E i, j \in DOMAIN arrived : i < j /\ arrived[i] = a /\ arrived[j] = b

ArrivedOnce == Once(arrived) /\ \A e \in Events : In(e, arrived) <=> call[e] = "returned"

QueuesInOrder ==
    \A t \in Types : \A p \in Priorities : \A k, l \in DOMAIN queue[t][p] :
        k < l => Before(queue[t][p][k], queue[t][p][l])

\* What was put before an event that has left its queue has left it too.
TakenInOrder ==
    ~shuttingDown => \A a, b \in Events :
        TypeOf[a] = TypeOf[b] /\ PriorityOf[a] = PriorityOf[b] /\ Before(a, b) /\ ~InQueue(b)
            => ~InQueue(a)

FInv == ArrivedOnce /\ QueuesInOrder /\ TakenInOrder

LEMMA BeforeIsStrict ==
    ASSUME TypeOK, Once(arrived), NEW a, NEW b, Before(a, b) PROVE ~Before(b, a)
<1> SUFFICES ASSUME Before(b, a) PROVE FALSE
  OBVIOUS
<1>1. PICK i, j \in DOMAIN arrived : i < j /\ arrived[i] = a /\ arrived[j] = b
  BY DEF Before
<1>2. PICK k, l \in DOMAIN arrived : k < l /\ arrived[k] = b /\ arrived[l] = a
  BY DEF Before
<1>3. i = l /\ j = k
  BY <1>1, <1>2 DEF Once
<1>4. DOMAIN arrived = 1..Len(arrived)
  BY DEF TypeOK
<1>5. i \in Int /\ j \in Int
  BY <1>4
<1> QED
  BY <1>1, <1>2, <1>3, <1>5

LEMMA BeforeAppend ==
    ASSUME TypeOK, NEW e \in Events, arrived' = Append(arrived, e)
    PROVE  \A a, b : Before(a, b)' <=> Before(a, b) \/ (In(a, arrived) /\ b = e)
<1> DEFINE n == Len(arrived)
<1>1. /\ n \in Nat /\ DOMAIN arrived = 1..n /\ DOMAIN arrived' = 1..n + 1
      /\ arrived'[n + 1] = e /\ \A i \in 1..n : arrived'[i] = arrived[i]
  BY DEF TypeOK
<1> HIDE DEF n
<1>2. /\ \A i \in 1..n + 1 : i \in 1..n \/ i = n + 1
      /\ \A i \in 1..n : i \in 1..n + 1 /\ i < n + 1 /\ ~(n + 1 < i)
      /\ n + 1 \in 1..n + 1 /\ ~(n + 1 < n + 1)
  BY <1>1
<1>3. ASSUME NEW a, NEW b, Before(a, b)' PROVE Before(a, b) \/ (In(a, arrived) /\ b = e)
  BY <1>1, <1>2, <1>3, Zenon DEF Before, In
<1>4. ASSUME NEW a, NEW b, Before(a, b) PROVE Before(a, b)'
  BY <1>1, <1>2, <1>4, Zenon DEF Before
<1>5. ASSUME NEW a, In(a, arrived) PROVE Before(a, e)'
  BY <1>1, <1>2, <1>5, Zenon DEF Before, In
<1> QED
  BY <1>3, <1>4, <1>5

LEMMA PutInOrder ==
    ASSUME PInv, FInv, NEW e \in Events, Put(e), call[e] # "returned",
           UNCHANGED <<shuttingDown, worker, down, fate>>
    PROVE  FInv'
<1>1. /\ queue \in [Types -> [Priorities -> Seq(Events)]] /\ arrived \in Seq(Events) /\ TypeOK
      /\ call \in [Events -> {"idle", "blocked", "returned", "refused", "dropped"}]
  BY DEF PInv, IInv, TypeOK
<1>2. arrived' = Append(arrived, e) /\ ~In(e, arrived)
  BY DEF Put, FInv, ArrivedOnce
<1>3. /\ \A x : In(x, arrived)' <=> In(x, arrived) \/ x = e
      /\ Once(arrived)'
  <2>1. /\ \A x : In(x, Append(arrived, e)) <=> In(x, arrived) \/ x = e
        /\ Once(Append(arrived, e))
    BY <1>1, <1>2, InAppend DEF FInv, ArrivedOnce
  <2> QED
    BY <1>2, <2>1 DEF In, Once
<1>4. ArrivedOnce'
  BY <1>1, <1>3 DEF ArrivedOnce, FInv, Put
<1>5. \A a, b : Before(a, b)' <=> Before(a, b) \/ (In(a, arrived) /\ b = e)
  BY <1>1, <1>2, BeforeAppend
<1>6. QueuesInOrder'
  <2> DEFINE t == TypeOf[e]
             p == PriorityOf[e]
             s == queue[t][p]
  <2>1. t \in Types /\ p \in Priorities /\ s \in Seq(Events)
    BY <1>1
  <2>2. /\ \A u \in Types : \A r \in Priorities : <<u, r>> # <<t, p>> => queue'[u][r] = queue[u][r]
        /\ queue'[t][p] = Append(s, e)
    BY <1>1 DEF Put
  <2>3. \A x : In(x, s) => In(x, arrived)
    <3> SUFFICES ASSUME NEW x, In(x, s) PROVE In(x, arrived)
      OBVIOUS
    <3>1. x \in Events /\ TypeOf[x] = t /\ PriorityOf[x] = p
      BY <2>1 DEF In, PInv, AllFiled, Filed
    <3>2. call[x] = "returned"
      BY <3>1 DEF InQueue, PInv, Placed, OnePlace, Under
    <3> QED
      BY <3>1, <3>2 DEF FInv, ArrivedOnce
  <2>4. /\ \A i \in DOMAIN Append(s, e) : i \in DOMAIN s \/ i = Len(s) + 1
        /\ \A i \in DOMAIN s : Append(s, e)[i] = s[i] /\ ~(Len(s) + 1 < i)
        /\ Append(s, e)[Len(s) + 1] = e /\ ~(Len(s) + 1 < Len(s) + 1)
    BY <2>1
  <2> SUFFICES ASSUME NEW u \in Types, NEW r \in Priorities,
                      NEW k \in DOMAIN queue'[u][r], NEW l \in DOMAIN queue'[u][r], k < l
               PROVE  Before(queue[u][r][k], queue[u][r][l])'
    BY DEF QueuesInOrder
  <2>5. CASE <<u, r>> # <<t, p>>
    BY <1>5, <2>2, <2>5 DEF FInv, QueuesInOrder
  <2> HIDE DEF s
  <2>6. CASE u = t /\ r = p
    <3>1. k \in DOMAIN s
      BY <2>2, <2>4, <2>6
    <3>2. CASE l \in DOMAIN s
      <4>1. Before(s[k], s[l])
        BY <2>1, <3>1, <3>2 DEF s, FInv, QueuesInOrder
      <4> QED
        BY <1>5, <2>2, <2>4, <2>6, <3>1, <3>2, <4>1
    <3>3. CASE l = Len(s) + 1
      <4>1. In(s[k], arrived)
        BY <2>3, <3>1 DEF In
      <4> QED
        BY <1>5, <2>2, <2>4, <2>6, <3>1, <3>3, <4>1
    <3> QED
      BY <2>2, <2>4, <2>6, <3>2, <3>3
  <2> QED
    BY <2>5, <2>6
<1>7. TakenInOrder'
  <2> SUFFICES ASSUME ~shuttingDown', NEW a \in Events, NEW b \in Events,
                      TypeOf[a] = TypeOf[b], PriorityOf[a] = PriorityOf[b],
                      Before(a, b)', ~InQueue(b)'
               PROVE  ~InQueue(a)'
    BY DEF TakenInOrder
  <2>1. InQueue(e)' /\ \A f \in Events \ {e} : InQueue(f)' <=> InQueue(f)
    BY PutMoves DEF Stays
  <2>2. b # e /\ Before(a, b)
    BY <1>5, <2>1
  <2>3. a # e
    <3>1. In(a, arrived)
      BY <2>2 DEF Before, In
    <3> QED
      BY <1>2, <3>1
  <2> QED
    BY <2>1, <2>2, <2>3 DEF FInv, TakenInOrder
<1> QED
  BY <1>4, <1>6, <1>7 DEF FInv

\* Nothing is put, and the queues lose no more than an event from the head of one.
LEMMA StaysInOrder ==
    ASSUME FInv, UNCHANGED arrived, \A e \in Events : call'[e] = "returned" <=> call[e] = "returned"
    PROVE  /\ ArrivedOnce'
           /\ \A a, b : Before(a, b)' <=> Before(a, b)
BY DEF FInv, ArrivedOnce, Before

LEMMA TakeInOrder ==
    ASSUME PInv, FInv, NEW t \in Types, worker[t].pc \in {"ready", "waiting"},
           ~IsEmpty(queue[t]), Take(t)
    PROVE  FInv'
<1>1. PICK e \in Events : e = First(queue[t])
  BY BusEvents
<1>2. /\ InQueue(e) /\ ~InQueue(e)'
      /\ \A f \in Events \ {e} : InQueue(f)' <=> InQueue(f)
  BY <1>1, TakeMoves DEF Stays
<1>3. queue \in [Types -> [Priorities -> Seq(Events)]] /\ TypeOK
  BY DEF PInv, IInv, TypeOK
<1>4. ArrivedOnce' /\ (\A a, b : Before(a, b)' <=> Before(a, b)) /\ UNCHANGED shuttingDown
  BY StaysInOrder DEF Take, NoteBegin
<1> DEFINE p == Level(queue[t])
           s == queue[t][p]
<1>5. /\ p \in Priorities /\ s \in Seq(Events) /\ s # <<>> /\ e = s[1] /\ queue' = [queue EXCEPT ![t][p] = Tail(s)]
  BY <1>1, <1>3, LevelOfQueue DEF First, Rest, Take
<1>6. TypeOf[e] = t /\ PriorityOf[e] = p
  BY <1>5 DEF PInv, AllFiled, Filed
<1> HIDE DEF p
<1>7. /\ \A u \in Types : \A r \in Priorities : <<u, r>> # <<t, p>> => queue'[u][r] = queue[u][r]
      /\ queue'[t][p] = Tail(s)
  BY <1>3, <1>5
<1>8. /\ \A i \in DOMAIN Tail(s) : i + 1 \in DOMAIN s /\ Tail(s)[i] = s[i + 1]
      /\ \A i \in DOMAIN s : i = 1 \/ 1 < i
      /\ 1 \in DOMAIN s
      /\ \A i, j \in DOMAIN Tail(s) : i < j => i + 1 < j + 1
  BY <1>5
<1>9. QueuesInOrder'
  <2> SUFFICES ASSUME NEW u \in Types, NEW r \in Priorities,
                      NEW k \in DOMAIN queue'[u][r], NEW l \in DOMAIN queue'[u][r], k < l
               PROVE  Before(queue'[u][r][k], queue'[u][r][l])
    BY <1>4 DEF QueuesInOrder
  <2>1. CASE <<u, r>> # <<t, p>>
    BY <1>7, <2>1 DEF FInv, QueuesInOrder
  <2>2. CASE u = t /\ r = p
    <3>1. k + 1 \in DOMAIN s /\ l + 1 \in DOMAIN s /\ k + 1 < l + 1
      BY <1>7, <1>8, <2>2
    <3>2. Before(s[k + 1], s[l + 1])
      BY <1>5, <3>1 DEF FInv, QueuesInOrder
    <3> QED
      BY <1>7, <1>8, <2>2, <3>2
  <2> QED
    BY <2>1, <2>2
<1>10. TakenInOrder'
  <2> SUFFICES ASSUME ~shuttingDown, NEW a \in Events, NEW b \in Events,
                      TypeOf[a] = TypeOf[b], PriorityOf[a] = PriorityOf[b],
                      Before(a, b), ~InQueue(b)', InQueue(a)'
               PROVE  FALSE
    BY <1>4 DEF TakenInOrder
  <2>1. a # e /\ InQueue(a)
    BY <1>2
  <2>2. CASE b # e
    BY <1>2, <2>1, <2>2 DEF FInv, TakenInOrder
  <2>3. CASE b = e
    <3>1. PICK i \in DOMAIN s : s[i] = a
      BY <1>6, <2>1, <2>3 DEF InQueue, In
    <3>2. i # 1
      BY <1>5, <2>1, <3>1
    <3>3. Before(e, a)
      BY <1>5, <1>8, <3>1, <3>2 DEF FInv, QueuesInOrder
    <3> QED
      BY <1>3, <2>3, <3>3, BeforeIsStrict DEF FInv, ArrivedOnce
  <2> QED
    BY <2>2, <2>3
<1> QED
  BY <1>4, <1>9, <1>10 DEF FInv

LEMMA ClosedInOrder ==
    ASSUME FInv, UNCHANGED <<arrived, call>>, shuttingDown',
           \A t \in Types : \A p \in Priorities :
               queue'[t][p] = queue[t][p] \/ queue'[t][p] = <<>>
    PROVE  FInv'
<1>1. ArrivedOnce' /\ (\A a, b : Before(a, b)' <=> Before(a, b))
  BY StaysInOrder
<1>2. QueuesInOrder'
  BY <1>1 DEF FInv, QueuesInOrder
<1> QED
  BY <1>1, <1>2 DEF FInv, TakenInOrder

LEMMA QuietInOrder ==
    ASSUME FInv, UNCHANGED <<arrived, queue, shuttingDown>>,
           \A e \in Events : call'[e] = "returned" <=> call[e] = "returned"
    PROVE  FInv'
<1>1. ArrivedOnce' /\ (\A a, b : Before(a, b)' <=> Before(a, b))
  BY StaysInOrder
<1>2. QueuesInOrder'
  BY <1>1 DEF FInv, QueuesInOrder
<1>3. TakenInOrder'
  BY <1>1 DEF FInv, TakenInOrder, InQueue
<1> QED
  BY <1>1, <1>2, <1>3 DEF FInv

LEMMA NextInOrder == ASSUME PInv, FInv, [Next]_vars PROVE FInv'
<1>1. /\ queue \in [Types -> [Priorities -> Seq(Events)]]
      /\ keys \in Seq(Types)
      /\ call \in [Events -> {"idle", "blocked", "returned", "refused", "dropped"}]
      /\ Phased
  BY DEF PInv, IInv, TypeOK
<1>2. ASSUME UNCHANGED <<arrived, queue, shuttingDown, call>> PROVE FInv'
  BY <1>2, QuietInOrder
<1>3. ASSUME NEW e \in Events, Publish(e) PROVE FInv'
  <2>1. CASE Put(e)
    BY <1>3, <2>1, PutInOrder DEF Publish
  <2>2. CASE UNCHANGED <<queue, arrived>> /\ \E c \in {"refused", "dropped", "blocked"} :
                 call' = [call EXCEPT ![e] = c]
    BY <1>1, <1>3, <2>2, QuietInOrder DEF Publish
  <2> QED
    BY <1>3, <2>1, <2>2 DEF Publish
<1>4. ASSUME NEW e \in Events, Retry(e) PROVE FInv'
  BY <1>4, PutInOrder DEF Retry
<1>5. ASSUME NEW t \in Types, Turn(t) \/ Wake(t) PROVE FInv'
  BY <1>2, <1>5, TakeInOrder DEF Turn, Wake, history
<1>6. ASSUME NEW i \in Nat \ {0}, DrainFrom(i), shuttingDown', UNCHANGED call PROVE FInv'
  <2>1. UNCHANGED arrived
    BY <1>6 DEF DrainFrom, CancelWorkers, history
  <2>2. \A t \in Types : \A p \in Priorities : queue'[t][p] = queue[t][p] \/ queue'[t][p] = <<>>
    <3>1. CASE UNCHANGED queue
      BY <3>1
    <3>2. ASSUME NEW j \in Loaded(i), queue' = [queue EXCEPT ![keys[j]] = NoQueue]
          PROVE  \A t \in Types : \A p \in Priorities :
                     queue'[t][p] = queue[t][p] \/ queue'[t][p] = <<>>
      BY <1>1, <3>2 DEF NoQueue
    <3> QED
      BY <1>6, <3>1, <3>2 DEF DrainFrom, CancelWorkers
  <2> QED
    BY <1>6, <2>1, <2>2, ClosedInOrder
<1>7. CASE Shutdown
  BY <1>6, <1>7 DEF Shutdown
<1>8. CASE DownNext
  <2>1. shuttingDown' /\ down.next \in Nat \ {0}
    BY <1>1, <1>8 DEF DownNext, Phased, PInv, IInv, TypeOK
  <2> QED
    BY <1>2, <1>6, <1>8, <2>1 DEF DownNext, history
<1>9. CASE DownDeliver \/ DownHandlerEnds \/ DownHandlerCancelled \/ DownClear
  BY <1>2, <1>9 DEF DownDeliver, DownHandlerEnds, DownHandlerCancelled, DownClear, history,
     NoteBegin, NoteEnd
<1>10. ASSUME NEW t \in Types, HandlerEnds(t) \/ HandlerCancelled(t) PROVE FInv'
  BY <1>2, <1>10 DEF HandlerEnds, HandlerCancelled, NoteEnd
<1>11. ASSUME NEW s \in Subscribers, Subscribe(s) \/ Unsubscribe(s) PROVE FInv'
  BY <1>2, <1>11 DEF Subscribe, Unsubscribe, history
<1>12. CASE Start
  BY <1>2, <1>12 DEF Start, history
<1>13. CASE UNCHANGED vars
  BY <1>2, <1>13 DEF vars, history
<1> QED
  BY <1>3, <1>4, <1>5, <1>7, <1>8, <1>9, <1>10, <1>11, <1>12, <1>13
     DEF Next, CallerStep, RetryStep, WorkerStep, DownStep

LEMMA InitInOrder == Init => FInv
BY DEF Init, FInv, ArrivedOnce, QueuesInOrder, TakenInOrder, Before, In, Once, NoQueue, InQueue

LEMMA OrderSuffices == PInv /\ FInv => FifoWhileRunning
<1> SUFFICES ASSUME PInv, FInv, ~shuttingDown, NEW j \in DOMAIN arrived, NEW i \in 1..(j - 1),
                    TypeOf[arrived[i]] = TypeOf[arrived[j]],
                    PriorityOf[arrived[i]] = PriorityOf[arrived[j]], Begun(arrived[j])
             PROVE  Begun(arrived[i])
  BY DEF FifoWhileRunning, InOrder
<1>1. arrived \in Seq(Events) /\ i \in DOMAIN arrived /\ i < j
  <2>1. arrived \in Seq(Events) /\ DOMAIN arrived = 1..Len(arrived) /\ Len(arrived) \in Nat
    BY DEF PInv, IInv, TypeOK
  <2> QED
    BY <2>1
<1>2. Before(arrived[i], arrived[j]) /\ arrived[i] \in Events /\ arrived[j] \in Events
  BY <1>1 DEF Before
<1>3. down.drained = <<>>
  BY DEF PInv, Phased
<1>4. \A e \in Events : Begun(e) <=> ~InQueue(e)
  BY <1>3, QueuedIsInQueue DEF Begun, Range
<1> QED
  BY <1>2, <1>4 DEF FInv, TakenInOrder

-----------------------------------------------------------------------------
\* Of what was published, each subscriber hears each event that concerns it once, none is lost or
\* doubled on the way, and until shutdown() they begin in the order they were put: publish(),
\* the workers' _deliver() and the drain of shutdown(), whatever fails or is cancelled between.
THEOREM DeliverySound == Spec => []DeliveryIsSound
<1>1. Init => HInv /\ FInv
  BY InitHearing, InitInOrder
<1>2. PInv /\ HInv /\ FInv /\ [Next]_vars => HInv' /\ FInv'
  BY NextHearing, NextInOrder
<1>3. PInv /\ HInv /\ FInv => DeliveryIsSound
  BY PlacedConserves, HearingSuffices, OrderSuffices DEF DeliveryIsSound
<1> QED
  BY <1>1, <1>2, <1>3, InvariantPInv, PTL DEF Spec
=============================================================================
