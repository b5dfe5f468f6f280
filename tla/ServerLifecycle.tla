-------------------------- MODULE ServerLifecycle --------------------------
(***************************************************************************)
(* The life of one worker process of the management server:                *)
(* management_server/src/management_server/{app,startup,health,database}.  *)
(*                                                                         *)
(* run_startup brings the subsystems up one after the other and records    *)
(* each in its report; /health answers from that record and from the       *)
(* database; lifespan takes everything down.  The supervisor of workers,   *)
(* which only its tests start, runs beside them.                           *)
(*                                                                         *)
(* Only the managers of Fallible do anything that may fail when they are   *)
(* initialised: they read files or the database.  The database comes and   *)
(* goes.                                                                   *)
(***************************************************************************)
EXTENDS Naturals, Sequences, FiniteSets, Functions

CONSTANTS Managers,     \* the managers on the database, in the order of their initialisation
          Validated,    \* those whose attribute the last step of the start-up reads
          Fallible,     \* those whose initialisation may fail
          BackgroundWorkers,      \* the workers under supervision
          MAX_RESTARTS, \* WorkerInfo.max_restarts
          MaxOutages    \* bound on the times that the database goes away

ASSUME LifecycleAssumption ==
    /\ Managers \in Seq(Range(Managers)) /\ IsInjective(Managers)
    /\ Range(Managers) \cap {"configuration", "logging", "database", "settings", "none"} = {}
    /\ Validated \subseteq Range(Managers) /\ Fallible \subseteq Range(Managers)
    /\ MAX_RESTARTS \in Nat /\ MaxOutages \in Nat

\* Each manager that may fail is validated, or one after it is.
ASSUME ValidationAssumption ==
    \A i \in DOMAIN Managers :
        Managers[i] \in Fallible => \E j \in i .. Len(Managers) : Managers[j] \in Validated

\* The stages: three by hand, then the managers.
STAGES == {"configuration", "logging", "database"} \cup Range(Managers)

InitState == {"pending", "initializing", "ready", "failed", "skipped"}
HealthState == {"uninitialized", "initializing", "healthy", "degraded", "failed", "shutdown"}
WorkerStatus == {"running", "hung", "crashed", "stopped", "deadlocked"}

VARIABLES
    phase,     \* "off", "starting", "serving", "aborted" or "stopped"
    attributes,\* the managers that are attributes of the application's state
    report,    \* report.stages: the state of each stage that was marked
    next,      \* the index of the manager to initialise next, 0 before the database
    failure,   \* the stage whose failure ended the start-up early, or "none"
    health,    \* HealthSupervisor._subsystems
    backend,   \* [reachable |-> the database answers, initialized |-> DatabaseBackend's flag,
               \*  outages |-> the times it went away]
    answer,    \* the last answer of /health
    worker,    \* worker[w]: its status, its restarts and whether a heartbeat is overdue
    restarting,\* the workers whose restart handler is being awaited
    emergency  \* EmergencyMode: the operations that it disables

lifecycleVars == <<phase, attributes, report, next, failure, health, backend, answer, worker,
                   restarting, emergency>>

NoAnswer == [status |-> "none", connected |-> FALSE]

LifecycleInit ==
    /\ phase = "off"
    /\ attributes = {}
    /\ report = <<>>
    /\ next = 0
    /\ failure = "none"
    /\ health = <<>>
    /\ backend \in [reachable : BOOLEAN, initialized : {FALSE}, outages : {0}]
    /\ answer = NoAnswer
    /\ worker = [w \in BackgroundWorkers |-> [status |-> "running", restarts |-> 0, overdue |-> FALSE]]
    /\ restarting = {}
    /\ emergency = {}

-----------------------------------------------------------------------------
(* StartupReport *)

\* f with the key k set to v.
Marked(f, k, v) == [x \in DOMAIN f \cup {k} |-> IF x = k THEN v ELSE f[x]]

AllReady(stages) == \A n \in DOMAIN stages : stages[n] = "ready"
AnyFailed(stages) == \E n \in DOMAIN stages : stages[n] = "failed"

\* print_startup_report: its last line.
Verdict(stages) ==
    IF AnyFailed(stages) THEN "failed" ELSE IF AllReady(stages) THEN "ready" ELSE "degraded"

-----------------------------------------------------------------------------
(* run_startup *)

\* The configuration is taken and the log opened.
Start ==
    /\ phase = "off"
    /\ phase' = "starting"
    /\ report' = Marked(Marked(report, "configuration", "ready"), "logging", "ready")
    /\ attributes' = attributes \cup {"settings", "logging"}
    /\ UNCHANGED <<next, failure, health, backend, answer, worker, restarting, emergency>>

\* DatabaseBackend.initialize connects and runs the migrations, which change nothing when they
\* were run before, in one transaction.  A failure is fatal: _fail_fast prints and exits.
InitializeDatabase ==
    /\ phase = "starting" /\ next = 0
    /\ IF backend.reachable
       THEN /\ backend' = [backend EXCEPT !.initialized = TRUE]
            /\ attributes' = attributes \cup {"database"}
            /\ report' = Marked(report, "database", "ready")
            /\ next' = 1
            /\ UNCHANGED <<phase, failure>>
       ELSE /\ report' = Marked(report, "database", "failed")
            /\ failure' = "database"
            /\ phase' = "aborted"
            /\ UNCHANGED <<backend, attributes, next>>
    /\ UNCHANGED <<health, answer, worker, restarting, emergency>>

\* _init_db_managers: the next manager is initialised, becomes an attribute and is marked.
InitializeManager ==
    /\ phase = "starting" /\ next \in DOMAIN Managers /\ failure = "none"
    /\ Managers[next] \in Fallible => backend.reachable
    /\ attributes' = attributes \cup {Managers[next]}
    /\ report' = Marked(report, Managers[next], "ready")
    /\ next' = next + 1
    /\ UNCHANGED <<phase, failure, health, backend, answer, worker, restarting, emergency>>

\* Its initialisation raises.  Those after it are left out; only the log tells.
ManagerFails ==
    /\ phase = "starting" /\ next \in DOMAIN Managers /\ failure = "none"
    /\ Managers[next] \in Fallible
    /\ failure' = Managers[next]
    /\ UNCHANGED <<phase, attributes, report, next, health, backend, answer, worker, restarting,
                   emergency>>

\* The state that the supervisor of health starts with, for a stage.
FirstHealth(stages, name) ==
    IF name \notin DOMAIN stages THEN "uninitialized"
    ELSE CASE stages[name] = "ready" -> "healthy"
           [] stages[name] = "failed" -> "failed"
           [] stages[name] = "skipped" -> "shutdown"
           [] OTHER -> "uninitialized"

\* What the validator is given can be read.
ReadableWithoutManagers(attrs) == {"database", "settings", "logging"} \subseteq attrs
Readable(attrs) == Validated \cup {"database", "settings", "logging"} \subseteq attrs

\* The supervisor is filled and published, and the validator is given the attributes: reading one
\* that was never set raises, and the process ends.
FinishStartup ==
    /\ phase = "starting"
    /\ failure # "none" \/ next > Len(Managers)
    /\ health' = [n \in STAGES |-> FirstHealth(report, n)]
    /\ phase' = IF Readable(attributes) THEN "serving" ELSE "aborted"
    /\ UNCHANGED <<attributes, report, next, failure, backend, answer, worker, restarting, emergency>>

-----------------------------------------------------------------------------
(* Health *)

Count(states) == Cardinality({n \in DOMAIN health : health[n] \in states})

\* HealthSupervisor.get_report.
Overall ==
    CASE Count({"failed", "uninitialized"}) > 0 -> "failed"
      [] Count({"failed", "uninitialized"}) = 0 /\ Count({"degraded"}) > 0 -> "degraded"
      [] Count({"failed", "uninitialized", "degraded"}) = 0 /\ Count({"healthy"}) > 0 -> "healthy"
      [] OTHER -> "uninitialized"

\* GET /health.  DatabaseBackend.health_check never raises: a database that does not answer is
\* reported beside a status that it does not lower.
Health ==
    /\ phase = "serving"
    /\ answer' = [connected |-> backend.initialized /\ backend.reachable,
                  status |-> IF Overall \in {"failed", "degraded"} THEN Overall
                             ELSE IF backend.initialized THEN "healthy" ELSE "degraded"]
    /\ UNCHANGED <<phase, attributes, report, next, failure, health, backend, worker, restarting,
                   emergency>>

\* The database goes away and comes back.
GoAway ==
    /\ backend.reachable /\ backend.outages < MaxOutages
    /\ backend' = [backend EXCEPT !.reachable = FALSE, !.outages = @ + 1]
    /\ UNCHANGED <<phase, attributes, report, next, failure, health, answer, worker, restarting,
                   emergency>>
ComeBack ==
    /\ ~backend.reachable
    /\ backend' = [backend EXCEPT !.reachable = TRUE]
    /\ UNCHANGED <<phase, attributes, report, next, failure, health, answer, worker, restarting,
                   emergency>>

\* lifespan, after the last request: the engine is disposed of and the managers are let go.  The
\* supervisor of health keeps what it had.
ShutdownServer ==
    /\ phase = "serving"
    /\ phase' = "stopped"
    /\ backend' = [backend EXCEPT !.initialized = FALSE]
    /\ attributes' = {"settings"}
    /\ UNCHANGED <<report, next, failure, health, answer, worker, restarting, emergency>>

-----------------------------------------------------------------------------
(* WorkerSupervisor *)

Heartbeat(w) ==
    /\ worker' = [worker EXCEPT ![w].status = "running", ![w].overdue = FALSE]
    /\ UNCHANGED <<phase, attributes, report, next, failure, health, backend, answer, restarting,
                   emergency>>

\* Time passes without a heartbeat for HUNG_TIMEOUT_SECONDS.
FallSilent(w) ==
    /\ ~worker[w].overdue
    /\ worker' = [worker EXCEPT ![w].overdue = TRUE]
    /\ UNCHANGED <<phase, attributes, report, next, failure, health, backend, answer, restarting,
                   emergency>>

MarkCrashed(w) ==
    /\ worker' = [worker EXCEPT ![w].status = "crashed"]
    /\ UNCHANGED <<phase, attributes, report, next, failure, health, backend, answer, restarting,
                   emergency>>

Sick == {"crashed", "hung", "deadlocked"}

\* A sick worker is given another restart.
RestartsOnceMore(w) == w.status \in Sick /\ w.restarts <= MAX_RESTARTS
NeedsRestart(w) == w.status \in Sick /\ w.restarts < MAX_RESTARTS

\* check_all, one worker: a silent one is hung; a sick one with restarts left has its handler
\* called, and the loop waits for it.
CheckWorker(w) ==
    /\ restarting = {}
    /\ LET hung == worker[w].status = "running" /\ worker[w].overdue
           seen == IF hung THEN [worker EXCEPT ![w].status = "hung"] ELSE worker
       IN /\ worker' = seen
          /\ restarting' = IF NeedsRestart(seen[w]) THEN {w} ELSE {}
    /\ UNCHANGED <<phase, attributes, report, next, failure, health, backend, answer, emergency>>

\* The handler returns: the worker is running, whatever was reported of it in the meantime.
Restarted(w) ==
    /\ w \in restarting
    /\ restarting' = {}
    /\ worker' = [worker EXCEPT ![w] = [status |-> "running", restarts |-> @.restarts + 1,
                                        overdue |-> FALSE]]
    /\ UNCHANGED <<phase, attributes, report, next, failure, health, backend, answer, emergency>>

\* The handler raises: the attempt is counted.
RestartFails(w) ==
    /\ w \in restarting
    /\ restarting' = {}
    /\ worker' = [worker EXCEPT ![w].restarts = @ + 1]
    /\ UNCHANGED <<phase, attributes, report, next, failure, health, backend, answer, emergency>>

\* EmergencyMode: whoever holds it may declare the emergency and end it.
Activate ==
    /\ phase = "serving"
    /\ emergency' = {"commands", "configsync"}
    /\ UNCHANGED <<phase, attributes, report, next, failure, health, backend, answer, worker,
                   restarting>>
Deactivate ==
    /\ phase = "serving"
    /\ emergency' = {}
    /\ UNCHANGED <<phase, attributes, report, next, failure, health, backend, answer, worker,
                   restarting>>

LifecycleNext ==
    \/ Start
    \/ InitializeDatabase
    \/ InitializeManager
    \/ ManagerFails
    \/ FinishStartup
    \/ Health
    \/ GoAway
    \/ ComeBack
    \/ ShutdownServer
    \/ Activate
    \/ Deactivate
    \/ \E w \in BackgroundWorkers : \/ Heartbeat(w)
                          \/ FallSilent(w)
                          \/ MarkCrashed(w)
                          \/ CheckWorker(w)
                          \/ Restarted(w)
                          \/ RestartFails(w)

LifecycleSpec == LifecycleInit /\ [][LifecycleNext]_lifecycleVars

-----------------------------------------------------------------------------

LifecycleTypeOK ==
    /\ phase \in {"off", "starting", "serving", "aborted", "stopped"}
    /\ attributes \subseteq Range(Managers) \cup {"settings", "logging", "database"}
    /\ DOMAIN report \subseteq STAGES /\ \A n \in DOMAIN report : report[n] \in InitState
    /\ next \in 0 .. Len(Managers) + 1
    /\ failure \in STAGES \cup {"none"}
    /\ DOMAIN health \subseteq STAGES /\ \A n \in DOMAIN health : health[n] \in HealthState
    /\ backend \in [reachable : BOOLEAN, initialized : BOOLEAN, outages : 0 .. MaxOutages]
    /\ answer \in [status : {"none", "healthy", "degraded", "failed"}, connected : BOOLEAN]
    /\ worker \in [BackgroundWorkers -> [status : WorkerStatus, restarts : 0 .. MAX_RESTARTS,
                               overdue : BOOLEAN]]
    /\ restarting \subseteq BackgroundWorkers
    /\ emergency \subseteq {"commands", "configsync"}

\* A process that answers has every subsystem: a failure of one, wherever in the sequence the
\* database went away, cannot leave a server that runs without it, or that says READY and healthy
\* of the ones it was never asked to bring up.
ServingIsComplete ==
    phase = "serving" => /\ Range(Managers) \subseteq attributes
                         /\ Verdict(report) = "ready"
                         /\ Overall = "healthy"
=============================================================================
