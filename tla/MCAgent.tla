--------------------------------- MODULE MCAgent -----------------------------
(***************************************************************************)
(* Small instances for TLC of the rest of the agent: pipeline, correlation *)
(* engine, monitors, database and configuration.  In this code they share  *)
(* no state, so a behaviour here is one of one component, and the run      *)
(* explores the sum of their states and not the product.                   *)
(***************************************************************************)
EXTENDS Pipeline, Correlation, Monitors, AgentStore, AgentConfig, TLC

VARIABLE part

AgentInit ==
    /\ part \in {"pipeline", "correlation", "monitors", "store", "settings"}
    /\ PipelineInit /\ CorrelationInit /\ MonitorsInit /\ AgentStoreInit /\ ConfigInit
    \* What a component starts from varies in its own behaviours only.
    /\ part # "monitors" => bindings
    /\ part # "settings" => /\ file = CHOOSE f \in Files : TRUE
                            /\ environment = CHOOSE x \in Environments : TRUE

\* A step of part p, which leaves every other part alone.
Of(p) ==
    /\ part = p /\ UNCHANGED part
    /\ IF p = "pipeline" THEN TRUE ELSE UNCHANGED pipelineVars
    /\ IF p = "correlation" THEN TRUE ELSE UNCHANGED correlationVars
    /\ IF p = "monitors" THEN TRUE ELSE UNCHANGED monitorVars
    /\ IF p = "store" THEN TRUE ELSE UNCHANGED storeVars
    /\ IF p = "settings" THEN TRUE ELSE UNCHANGED configVars

AgentNext ==
    \/ \E s \in Stages :
          \/ Of("pipeline") /\ Register(s)
          \/ Of("pipeline") /\ Unregister(s)
          \/ Of("pipeline") /\ Enable(s)
          \/ Of("pipeline") /\ Disable(s)
    \/ \E c \in Starters :
          \/ Of("pipeline") /\ Start(c)
          \/ Of("pipeline") /\ Initialize(c)
    \/ Of("pipeline") /\ Shutdown
    \/ Of("pipeline") /\ ShutStage
    \/ \E r \in Runs :
          \/ Of("pipeline") /\ Handle(r)
          \/ Of("pipeline") /\ PassOn(r)
          \/ Of("pipeline") /\ Halt(r)
          \/ Of("pipeline") /\ TryAgain(r)
          \/ Of("pipeline") /\ Wake(r)
          \/ Of("pipeline") /\ Cancel(r)
    \/ \E t \in Tables :
          \/ Of("correlation") /\ Load(t)
    \/ \E rule \in Rules, values \in [Kinds -> Values \cup {None}] :
          \/ Of("correlation") /\ Correlate(rule, values)
    \/ Of("correlation") /\ Cleanup
    \/ Of("correlation") /\ Clear
    \/ Of("correlation") /\ Tick
    \/ \E m \in Names :
          \/ Of("monitors") /\ RegisterMonitor(m)
          \/ Of("monitors") /\ UnregisterMonitor(m)
          \/ Of("monitors") /\ EnableMonitor(m)
          \/ Of("monitors") /\ DisableMonitor(m)
          \/ Of("monitors") /\ Connect(m)
          \/ Of("monitors") /\ TakeEntry(m)
          \/ Of("monitors") /\ LoopFails(m)
          \/ Of("monitors") /\ PublishEntry(m)
          \/ Of("monitors") /\ PublishFails(m)
          \/ Of("monitors") /\ Disconnect(m)
    \/ Of("monitors") /\ InitializeAll
    \/ Of("monitors") /\ StartAll
    \/ Of("monitors") /\ StopAll
    \/ Of("monitors") /\ StopOne
    \/ Of("monitors") /\ StopEnds
    \/ Of("monitors") /\ WriteJournal
    \/ \E fails \in BOOLEAN :
          \/ Of("store") /\ BeginMigrations(fails)
    \/ Of("store") /\ SkipApplied
    \/ Of("store") /\ ExecuteStatement
    \/ Of("store") /\ StatementFails
    \/ Of("store") /\ RecordMigration
    \/ Of("store") /\ MigrationsEnd
    \/ \E k \in StoreKeys :
          \/ Of("store") /\ Store(k)
          \/ Of("store") /\ BatchFails(k)
    \/ Of("store") /\ BeginTransaction
    \/ Of("store") /\ CommitTransaction
    \/ \E sqliteError \in BOOLEAN :
          \/ Of("store") /\ BodyRaises(sqliteError)
    \/ \E dies \in BOOLEAN :
          \/ Of("store") /\ Restart(dies)
    \/ \E f \in Files :
          \/ Of("settings") /\ EditFile(f)
    \/ Of("settings") /\ Bootstrap
    \/ \E named \in BOOLEAN :
          \/ Of("settings") /\ LoadSettings(named)
          \/ Of("settings") /\ ReloadSettings(named)
    \/ Of("settings") /\ Interrupt

agentVars ==
    <<part, pipelineVars, correlationVars, monitorVars, storeVars, configVars>>

AgentSpec == AgentInit /\ [][AgentNext]_agentVars /\ Fairness

\* The behaviours of one component alone.
CorrelationAlone == AgentInit /\ part = "correlation" /\ [][AgentNext]_agentVars

\* Every variable of every component has the shape the code gives it.
AgentTypeOK ==
    /\ PipelineTypeOK /\ CorrelationTypeOK /\ MonitorsTypeOK /\ AgentStoreTypeOK
    /\ ConfigTypeOK

-----------------------------------------------------------------------------
(* Attack chains *)

AStage(i, t, r) == [id |-> i, type |-> t, rules |-> r]
AChain(s) == [key |-> "source_ip", timeout |-> 0, stages |-> s]

\* The shape of the shipped chains, shortened: ordered stages, an optional one at the end.
Shipped == AChain(<<AStage("a", "ordered", {"ra"}), AStage("b", "ordered", {"rb"}),
                    AStage("c", "optional", {"rc"})>>)

\* The same chain as changed by an update: one stage is new to those under way.
Reloaded == AChain(<<AStage("p", "ordered", {"rc"}), AStage("b", "ordered", {"rb"})>>)

\* The other stage types; two of the stages have no id in their file.
Mixed == AChain(<<AStage("a", "unordered", {"ra"}), AStage(NoId, "branch", {"rc"}),
                  AStage(NoId, "unordered", {"rb"})>>)

SomeTables == {("chain1" :> Shipped) @@ ("chain2" :> Mixed),
               "chain1" :> Reloaded}

-----------------------------------------------------------------------------
(* Database: migrations of statements that may be repeated, and that may not *)

SomeMigrations == << <<"again", "again">>, <<"once", "once">>, <<"once">> >>

-----------------------------------------------------------------------------
(* Monitors *)

OneMonitor == <<"m1">>

-----------------------------------------------------------------------------
(* Configuration *)

ForFile(type, ok) == Value(type, ok, "file")
AFile(values) == [state |-> "mapping", tree |-> TreeOf(values)]

\* No file, no YAML, a section that is not one, values the schema refuses, a key too many.
SomeConfigs ==
    {[state |-> "missing", tree |-> TreeOf(<<>>)], [state |-> "malformed", tree |-> TreeOf(<<>>)],
     AFile(<<"general", "log_level">> :> ForFile("str", TRUE)
           @@ <<"general", "debug">> :> ForFile("bool", TRUE)
           @@ <<"security", "thresholds", "port_scan_count">> :> ForFile("int", TRUE)
           @@ <<"profiles", "available">> :> ForFile("list", TRUE)),
     AFile(<<"general">> :> ForFile("str", TRUE)),
     AFile(<<"general", "log_level">> :> ForFile("str", FALSE)),
     AFile(<<"database", "sqlite", "journal">> :> ForFile("str", TRUE)),
     AFile(<<"performance", "memory_limit_mb">> :> ForFile("bool", TRUE))}

\* None, some, a type the schema refuses, two for one field, one inside another.
AValue(variable, shape) == [variable |-> variable, shape |-> shape, ok |-> TRUE]
SomeEnvironments ==
    {<<>>,
     <<AValue("AISEC_LOG_LEVEL", "word"), AValue("AISEC_DB_PASSWORD", "word")>>,
     <<AValue("AISEC_TRUSTED_NETWORKS", "word")>>,
     <<AValue("AISEC_TRUSTED_NETWORKS", "commas"), AValue("AISEC_QUEUE_SIZE", "integer")>>,
     <<AValue("AISEC_QUEUE_SIZE", "flag")>>,
     <<AValue("AISEC_METRICS_COLLECTION_INTERVAL", "integer")>>,
     <<AValue("AISEC_GENERAL_LOG_LEVEL", "flag"), AValue("AISEC_LOG_LEVEL", "word")>>,
     <<AValue("AISEC_DB_PATH", "word"), AValue("AISEC_DATABASE_SQLITE", "word")>>}
SomeVariables ==
    [AISEC_DB_PASSWORD |-> <<"db", "password">>,
     AISEC_GENERAL_LOG_LEVEL |-> <<"general", "log_level">>,
     AISEC_DATABASE_SQLITE |-> <<"database", "sqlite">>,
     AISEC_METRICS_COLLECTION_INTERVAL |-> <<"metrics", "collection_interval">>]
=============================================================================
