------------------------------ MODULE Pipeline ------------------------------
(***************************************************************************)
(* The pipeline of the security agent: security_agent/pipeline.            *)
(*                                                                         *)
(* An event that the bus hands over is taken through the stages that are   *)
(* enabled at that moment, one after the other.  Each stage may pass it    *)
(* on, end its run, or ask (or raise) to be called again, which happens    *)
(* after a sleep and MaxRetries times at most.  Runs overlap, with each    *)
(* other and with start(), shutdown() and changes of the registry; all run *)
(* on one event loop, so that a step is what happens between two awaits.   *)
(*                                                                         *)
(* The bus is external here (EventBus.tla): a subscribed engine may be     *)
(* handed an event at any time.  DROP, STOP and ERROR end a run alike and  *)
(* differ in metrics only, which are left out, as are the timings.         *)
(***************************************************************************)
EXTENDS Integers, Sequences, SequencesExt, Selection

CONSTANTS Stages,
          Starters,     \* the callers of start(), each calls once
          Runs,         \* the calls of _handle_event
          MaxRetries

ASSUME PipelineAssumption == MaxRetries \in Nat

VARIABLES
    order,      \* StageRegistry._order
    enabled,    \* StageRegistry._enabled
    ready,      \* the stages whose _initialized is set
    started,    \* _started
    stopping,   \* _shutting_down
    subs,       \* the subscriptions held
    start,      \* start[c]: where the call is, and the stages it has still to initialize
    stop,       \* the same of shutdown()
    run,        \* run[r]: the event's way through its plan, and its PipelineContext
    \* History:
    known,      \* the stages that were ever registered; each is, once
    byHand      \* those registered late, or enabled by hand

registry == <<order, enabled, known, byHand>>
lifecycle == <<started, stopping, subs, start, stop>>
pipelineVars == <<registry, lifecycle, ready, run>>

\* History in a run: the stages that passed the event on, its context not cancelled, and
\* how often each was called with it.
NoRun == [pc |-> "idle", plan |-> <<>>, at |-> 1, attempt |-> 0, cancelled |-> FALSE,
          passed |-> {}, tries |-> [s \in Stages |-> 0]]

PipelineInit ==
    /\ order = <<>> /\ enabled = {} /\ known = {} /\ byHand = {}
    /\ ready = {}
    /\ started = FALSE /\ stopping = FALSE /\ subs = 0
    /\ start = [c \in Starters |-> [pc |-> "idle", left |-> <<>>]]
    /\ stop = [pc |-> "idle", left |-> <<>>]
    /\ run = [r \in Runs |-> NoRun]

-----------------------------------------------------------------------------
(* StageRegistry *)

Untouched == \A c \in Starters : start[c].pc = "idle"

\* register: appended, or placed after or before another.
Register(s) ==
    /\ s \notin known
    /\ \E i \in 1 .. Len(order) + 1 : order' = InsertAt(order, i, s)
    /\ enabled' = enabled \cup {s}
    /\ known' = known \cup {s}
    /\ byHand' = IF Untouched THEN byHand ELSE byHand \cup {s}
    /\ UNCHANGED <<lifecycle, ready, run>>

Unregister(s) ==
    /\ s \in ToSet(order)
    /\ order' = Sifted(order, Stages \ {s})
    /\ enabled' = enabled \ {s}
    /\ UNCHANGED <<known, byHand, lifecycle, ready, run>>

Enable(s) ==
    /\ s \in ToSet(order) \ enabled
    /\ enabled' = enabled \cup {s}
    /\ byHand' = byHand \cup {s}
    /\ UNCHANGED <<order, known, lifecycle, ready, run>>

Disable(s) ==
    /\ s \in enabled
    /\ enabled' = enabled \ {s}
    /\ UNCHANGED <<order, known, byHand, lifecycle, ready, run>>

-----------------------------------------------------------------------------
(* start() and shutdown() *)

\* What is left when a stage is dealt with; after the last, start() subscribes.
Proceed(c, left) ==
    /\ start' = [start EXCEPT ![c] = [pc |-> IF left = <<>> THEN "done" ELSE "init", left |-> left]]
    /\ IF left = <<>> THEN subs' = subs + 1 /\ started' = TRUE
                      ELSE UNCHANGED <<subs, started>>

Start(c) ==
    /\ start[c].pc = "idle" /\ ~started
    /\ Proceed(c, order)
    /\ UNCHANGED <<registry, ready, stopping, stop, run>>

Without(s) == enabled \ {s}

\* The stage's initialize() returns, or raises; the stage is disabled then, unless it is
\* registered no more, which ends start() with an error.
Initialize(c) ==
    /\ start[c].pc = "init"
    /\ LET s == Head(start[c].left) IN
       \/ /\ ready' = ready \cup {s}
          /\ Proceed(c, Tail(start[c].left))
          /\ UNCHANGED enabled
       \/ /\ s \in ToSet(order)
          /\ enabled' = Without(s)
          /\ Proceed(c, Tail(start[c].left))
          /\ UNCHANGED ready
       \/ /\ s \notin ToSet(order)
          /\ start' = [start EXCEPT ![c] = [pc |-> "done", left |-> <<>>]]
          /\ UNCHANGED <<ready, enabled, subs, started>>
    /\ UNCHANGED <<order, known, byHand, stopping, stop, run>>

\* What shutdown() has left to shut; after the last stage the engine is no more started.
Shut(left) ==
    /\ stop' = [pc |-> IF left = <<>> THEN "done" ELSE "shut", left |-> left]
    /\ started' = IF left = <<>> THEN FALSE ELSE started

UnsubscribedOnce == subs - 1
Unsubscribed == 0

Shutdown ==
    /\ ~stopping
    /\ stopping' = TRUE
    /\ subs' = Unsubscribed
    /\ Shut(Reverse(order))
    /\ UNCHANGED <<registry, start, ready, run>>

\* A stage's shutdown() returns, or raises.
ShutStage ==
    /\ stop.pc = "shut"
    /\ ready' \in {ready \ {Head(stop.left)}, ready}
    /\ Shut(Tail(stop.left))
    /\ UNCHANGED <<registry, stopping, subs, start, run>>

-----------------------------------------------------------------------------
(* _handle_event, _run_pipeline and _execute_stage *)

Plan == Sifted(order, enabled)

\* The event's way ends, and its context with it.
Over(r) == run' = [run EXCEPT ![r] = [NoRun EXCEPT !.pc = "done"]]

\* The context as stage i of its plan is called.
Calling(w, i) == [w EXCEPT !.pc = "stage", !.at = i, !.tries[w.plan[i]] = @ + 1]

\* Call stage i of the plan, or be done after the last.
Call(r, w, i) ==
    IF i > Len(w.plan) THEN Over(r)
    ELSE run' = [run EXCEPT ![r] = Calling([w EXCEPT !.attempt = 0], i)]

\* Once the engine stops, an event handed over is not looked at.
Handle(r) ==
    /\ run[r].pc = "idle"
    /\ subs > 0 /\ ~stopping
    /\ Call(r, [NoRun EXCEPT !.plan = Plan], 1)
    /\ UNCHANGED <<registry, lifecycle, ready>>

\* The stage returns CONTINUE; a cancelled context ends the run before the next stage.
PassOn(r) ==
    /\ run[r].pc = "stage"
    /\ IF run[r].cancelled
       THEN Over(r)
       ELSE Call(r, [run[r] EXCEPT !.passed = @ \cup {run[r].plan[run[r].at]}], run[r].at + 1)
    /\ UNCHANGED <<registry, lifecycle, ready>>

\* The stage, or another that holds the context, cancels it.
Cancel(r) ==
    /\ run[r].pc \in {"stage", "sleep"} /\ ~run[r].cancelled
    /\ run' = [run EXCEPT ![r].cancelled = TRUE]
    /\ UNCHANGED <<registry, lifecycle, ready>>

\* The stage returns DROP, STOP or ERROR, or is cancelled itself.
Halt(r) ==
    /\ run[r].pc = "stage"
    /\ Over(r)
    /\ UNCHANGED <<registry, lifecycle, ready>>

\* An exhausted stage counts as one that returned ERROR.
ExhaustedPassesOn(r) == Call(r, run[r], run[r].at + 1)
Exhausted(r) == Over(r)

\* The stage returns RETRY, or raises.
TryAgain(r) ==
    /\ run[r].pc = "stage"
    /\ IF run[r].attempt < MaxRetries
       THEN run' = [run EXCEPT ![r].pc = "sleep"]
       ELSE Exhausted(r)
    /\ UNCHANGED <<registry, lifecycle, ready>>

WakesUnlessStopping == ~stopping
Wakes == TRUE

\* The sleep ends and the stage is called again, cancelled or not.
Wake(r) ==
    /\ run[r].pc = "sleep" /\ Wakes
    /\ run' = [run EXCEPT ![r] = Calling([run[r] EXCEPT !.attempt = @ + 1], run[r].at)]
    /\ UNCHANGED <<registry, lifecycle, ready>>

Step(r) == PassOn(r) \/ Halt(r) \/ TryAgain(r) \/ Wake(r)

PipelineNext ==
    \/ \E s \in Stages : Register(s) \/ Unregister(s) \/ Enable(s) \/ Disable(s)
    \/ \E c \in Starters : Start(c) \/ Initialize(c)
    \/ Shutdown \/ ShutStage
    \/ \E r \in Runs : Handle(r) \/ Step(r) \/ Cancel(r)

PipelineSpec == PipelineInit /\ [][PipelineNext]_pipelineVars

\* Stages return and sleeps end; no stage is timed, so that it has to be assumed.
Fairness == \A r \in Runs : WF_pipelineVars(Step(r))

-----------------------------------------------------------------------------
\* Every variable has the shape the code gives it.
PipelineTypeOK ==
    /\ order \in Seq(Stages)
    /\ enabled \subseteq Stages /\ known \subseteq Stages /\ byHand \subseteq Stages
    /\ ready \subseteq Stages
    /\ started \in BOOLEAN /\ stopping \in BOOLEAN
    /\ subs \in Nat
    /\ start \in [Starters -> [pc : {"idle", "init", "done"}, left : Seq(Stages)]]
    /\ stop \in [pc : {"idle", "shut", "done"}, left : Seq(Stages)]
    /\ run \in [Runs -> [pc : {"idle", "stage", "sleep", "done"}, plan : Seq(Stages), at : Nat,
                         attempt : Nat, cancelled : BOOLEAN,
                         passed : SUBSET Stages, tries : [Stages -> Nat]]]

\* "Stages should process events in registration order", "DROP from a stage should stop
\* processing", "Cancelling context should stop further processing": a stage is called
\* with an event only after every stage before it in the run's plan passed it on, and
\* never more than MaxRetries + 1 times.
PassedOn ==
    \A r \in Runs :
        /\ \A i, j \in DOMAIN run[r].plan :
               i < j /\ run[r].tries[run[r].plan[j]] > 0 => run[r].plan[i] \in run[r].passed
        /\ \A s \in Stages : run[r].tries[s] <= MaxRetries + 1

\* "Called once at pipeline startup, before any events are processed": until the engine
\* stops, a stage that is called with an event was initialized, however calls of start(),
\* failing stages and changes of the registry crossed - unless it was registered after
\* start() had begun, or enabled by hand.
CalledWhenReady ==
    \A r \in Runs :
        run[r].pc = "stage" /\ ~stopping => run[r].plan[run[r].at] \in ready \cup byHand

\* Together: a stage sees an event in its turn and prepared.
StagesAreRespected == PassedOn /\ CalledWhenReady

\* Every event that entered a stage leaves the pipeline, whatever is stopped or changed
\* meanwhile, if stages return.
RunsEnd == \A r \in Runs : run[r].pc \in {"stage", "sleep"} ~> run[r].pc = "done"
=============================================================================
