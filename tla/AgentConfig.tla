----------------------------- MODULE AgentConfig -----------------------------
(***************************************************************************)
(* The agent's configuration and the Application that starts from it.      *)
(* Three layers - the internal defaults, config.yaml, the AISEC_*          *)
(* environment - are merged as nested mappings, validated against the      *)
(* schema and turned into the frozen Settings, which load_settings() keeps *)
(* in a module-level cache.  A value is the type Python gives it, whether  *)
(* the constraint of its field (enum, range, items) admits it, and the     *)
(* layer it came from.                                                     *)
(***************************************************************************)
EXTENDS Naturals, Sequences, SequencesExt, FiniteSets

CONSTANTS Files,           \* what config.yaml may be: [state, tree], the state "missing", "malformed"
                           \* or "mapping"; no file, no tree
          Environments,    \* the environments a process may start in: [variable, shape, ok] in the
                           \* order of os.environ
          OtherVariables   \* the variables outside the table of names -> their path

VARIABLES file,       \* the file on disk
          environment,\* os.environ, fixed for the process
          cache,      \* _settings_cache
          loadedFrom, \* the file of the last load, or NoFile
          app         \* Application.run()

configVars == <<file, environment, cache, loadedFrom, app>>

-----------------------------------------------------------------------------
(* A tree is the function from the paths below its root, sequences of      *)
(* names, to what is there: a section or a value.  What is below a path    *)
(* is at the paths that it leads to.                                       *)
Section == [section |-> TRUE]
Value(type, ok, layer) == [section |-> FALSE, type |-> type, ok |-> ok, from |-> layer]

LeadingTo(path) == {SubSeq(path, 1, k) : k \in 1 .. Len(path)}

\* The tree of some values, each at its path: what leads to one is a section.
TreeOf(values) ==
    [p \in UNION {LeadingTo(q) : q \in DOMAIN values} |->
        IF p \in DOMAIN values THEN values[p] ELSE Section]

(* CONFIG_SCHEMA: a field is the types it may have, and whether it is      *)
(* limited by an enum, a range, an item type or a validator of its own.    *)
Field(types, limited) == [section |-> FALSE, types |-> types, limited |-> limited]
Flag == Field({"bool"}, FALSE)
Text == Field({"str"}, FALSE)
Choice == Field({"str"}, TRUE)
Number == Field({"int"}, TRUE)
MaybeText == Field({"str", "none"}, FALSE)
Items == Field({"list"}, TRUE)
Server == [host |-> Text, port |-> Number, database |-> Text, user |-> Text, password |-> Text,
           max_connections |-> Number, connect_timeout |-> Number]

In(path, fields) == [p \in {Append(path, n) : n \in DOMAIN fields} |-> fields[Last(p)]]
SchemaFields ==
    In(<<"general">>, [debug |-> Flag, log_level |-> Choice, hostname |-> Text, profile |-> Choice])
    @@ In(<<"logging">>, [format |-> Choice, file |-> MaybeText, rotation |-> Choice,
                          retention |-> Choice])
    @@ In(<<"database">>, [backend |-> Choice])
    @@ In(<<"database", "postgres">>, Server) @@ In(<<"database", "mysql">>, Server)
    @@ In(<<"database", "sqlite">>, [path |-> Text, wal_mode |-> Flag, busy_timeout |-> Number,
                                     cache_size |-> Number])
    @@ In(<<"discord">>, [enabled |-> Flag, webhook |-> MaybeText, bot_token |-> MaybeText,
                          guild_id |-> Field({"str", "int", "none"}, FALSE)])
    @@ In(<<"discord", "channels">>, [n \in {"info", "warning", "critical", "security", "system",
                                             "bans"} |-> MaybeText])
    @@ In(<<"security">>, [learning_mode |-> Flag, learning_duration_hours |-> Number,
                           trusted_networks |-> Items, whitelist |-> Items, blacklist |-> Items])
    @@ In(<<"security", "thresholds">>,
          [n \in {"ssh_brute_force_count", "ssh_brute_force_window", "port_scan_count",
                  "port_scan_window", "http_flood_count", "http_flood_window",
                  "auth_failure_count", "auth_failure_window"} |-> Number])
    @@ In(<<"security", "reputation">>, [n \in {"decay_points_per_hour", "max_decay_daily",
                                                "initial_score", "max_score", "min_score"} |-> Number])
    @@ In(<<"security", "ban_policy">>, [enabled |-> Flag, private_ip_exemption |-> Flag,
                                         escalation_enabled |-> Flag, durations |-> Items])
    @@ In(<<"firewall">>, [backend |-> Choice, enable_ipv6 |-> Flag, ipset_threshold |-> Number,
                           fail2ban_jail |-> Text, cleanup_interval |-> Number])
    @@ In(<<"monitoring", "journald">>, [enabled |-> Flag, units |-> Items, priority |-> Choice])
    @@ In(<<"monitoring", "log_files">>, [enabled |-> Flag, paths |-> Field({"dict"}, FALSE),
                                          exclude_patterns |-> Items, max_file_size_mb |-> Number])
    @@ In(<<"monitoring", "docker">>, [enabled |-> Flag, socket_path |-> Text])
    @@ In(<<"monitoring", "auditd">>, [enabled |-> Flag, log_path |-> Text])
    @@ In(<<"performance">>, [memory_limit_mb |-> Number, cpu_limit_percent |-> Number])
    @@ In(<<"performance", "queue_sizes">>, [n \in {"event_bus", "db_writer", "alert_queue"} |-> Number])
    @@ In(<<"developer">>, [developer_mode |-> Flag, profiling |-> Flag, replay_mode |-> Flag,
                            replay_path |-> MaybeText, replay_rate |-> Number])
    @@ In(<<"metrics">>, [enabled |-> Flag, collection_interval |-> Number])
    @@ In(<<"profiles">>, [active |-> Choice, available |-> Items])
    @@ In(<<"rule_packs">>, [active |-> Items, available |-> Items])
CONFIG_SCHEMA == TreeOf(SchemaFields)

\* The fields of Settings and of its sections.
Fields == DOMAIN SchemaFields

(* INTERNAL_DEFAULTS has the fields of the schema, each with a value it    *)
(* admits: None where it may, else a value of the one type.                *)
DefaultOf(field) ==
    Value(IF "none" \in field.types THEN "none" ELSE CHOOSE t \in field.types : TRUE, TRUE, "default")
INTERNAL_DEFAULTS == TreeOf([p \in Fields |-> DefaultOf(SchemaFields[p])])

-----------------------------------------------------------------------------
(* load_config() *)

\* Of the base stays what nothing replaces, neither itself nor a section that it is in: two
\* sections are merged, anything else of the overrides replaces what the base has there.
DeepMerge(base, over) ==
    LET stays == {p \in DOMAIN base : \A q \in LeadingTo(p) \cap DOMAIN over :
                                          base[q].section /\ over[q].section}
    IN  [p \in DOMAIN over \cup stays |-> IF p \in DOMAIN over THEN over[p] ELSE base[p]]

(* _get_env_mappings(); any other variable is split at its first "_". *)
EnvPaths ==
    [AISEC_LOG_LEVEL |-> <<"general", "log_level">>, AISEC_LOG_FILE |-> <<"logging", "file">>,
     AISEC_DB_BACKEND |-> <<"database", "backend">>, AISEC_DB_PATH |-> <<"database", "sqlite", "path">>,
     AISEC_DB_HOST |-> <<"database", "postgres", "host">>,
     AISEC_DB_PORT |-> <<"database", "postgres", "port">>,
     AISEC_DISCORD_WEBHOOK |-> <<"discord", "webhook">>,
     AISEC_DISCORD_ENABLED |-> <<"discord", "enabled">>,
     AISEC_PROFILE |-> <<"general", "profile">>, AISEC_DEBUG |-> <<"general", "debug">>,
     AISEC_HOSTNAME |-> <<"general", "hostname">>,
     AISEC_TRUSTED_NETWORKS |-> <<"security", "trusted_networks">>,
     AISEC_WHITELIST |-> <<"security", "whitelist">>,
     AISEC_LEARNING_MODE |-> <<"security", "learning_mode">>,
     AISEC_FW_BACKEND |-> <<"firewall", "backend">>, AISEC_METRICS_ENABLED |-> <<"metrics", "enabled">>,
     AISEC_QUEUE_SIZE |-> <<"performance", "queue_sizes", "event_bus">>,
     AISEC_MEMORY_LIMIT |-> <<"performance", "memory_limit_mb">>,
     AISEC_RULE_PACKS |-> <<"rule_packs", "active">>]
PathOf(variable) ==
    IF variable \in DOMAIN EnvPaths THEN EnvPaths[variable] ELSE OtherVariables[variable]

(* _parse_env_value(): the type a text is given by its shape alone, so "1" *)
(* is a bool and a list of one item is a str.                              *)
ParseEnvValue(text) ==
    Value([flag |-> "bool", null |-> "none", integer |-> "int", decimal |-> "float",
           commas |-> "list", word |-> "str"][text.shape], text.ok, "env")

(* The variables of an environment that name a path: the last one is what  *)
(* stands there.  A path inside one that has a value makes the assignment  *)
(* raise or, assigned first, is replaced by a value where the schema has a *)
(* section: the tree below is refused as a whole in both orders.           *)
Naming(p, env) == {i \in DOMAIN env : PathOf(env[i].variable) = p}
LastOf(indices) == CHOOSE i \in indices : \A j \in indices : j <= i
Overrides(env) ==
    TreeOf([p \in {PathOf(env[i].variable) : i \in DOMAIN env} |->
               ParseEnvValue(env[LastOf(Naming(p, env))])])

MergedConfig(f, env) == DeepMerge(DeepMerge(INTERNAL_DEFAULTS, f.tree), Overrides(env))

-----------------------------------------------------------------------------
(* The type of a value left unchecked: a change of ValidField. *)
OnlyTheLimits(value, field) == field.limited => value.ok

(* validate_config(): names the schema does not have are not looked at. *)
ValidField(value, field) ==
    /\ value.type \in field.types
    /\ field.limited => value.ok
ValidateConfig(config, schema) ==
    \A p \in DOMAIN schema :
        /\ p \in DOMAIN config
        /\ config[p].section = schema[p].section
        /\ schema[p].section \/ ValidField(config[p], schema[p])

(* build_settings(): these sections are passed as keyword arguments, which *)
(* a name the dataclass lacks makes raise; these fields are not passed.    *)
KeywordSections ==
    {<<"database", n>> : n \in {"sqlite", "postgres", "mysql"}} \cup {<<"discord", "channels">>}
    \cup {<<"security", n>> : n \in {"thresholds", "reputation", "ban_policy"}}
    \cup {<<"monitoring", n>> : n \in {"journald", "docker", "auditd"}}
    \cup {<<"performance", "queue_sizes">>}
NotPassed == {<<"monitoring", "log_files", "paths">>, <<"profiles", "available">>,
              <<"rule_packs", "available">>}

Buildable(config) ==
    \A p \in DOMAIN config : Front(p) \in KeywordSections => p \in DOMAIN CONFIG_SCHEMA

BuildSettings(config) ==
    [p \in Fields |-> IF p \in NotPassed THEN INTERNAL_DEFAULTS[p] ELSE config[p]]

(* What load_config() and build_settings() make of a file, or NoSettings   *)
(* where one of them raises.                                               *)
NoSettings == [p \in {} |-> {}]
Loaded(f, env) ==
    LET config == MergedConfig(f, env)
    IN  IF f.state # "malformed" /\ ValidateConfig(config, CONFIG_SCHEMA) /\ Buildable(config)
        THEN BuildSettings(config) ELSE NoSettings

(* A call that names no path leaves the layer of the file out. *)
NoFile == [state |-> "missing", tree |-> TreeOf(<<>>)]

(* The defaults are valid, what a file says is said to be from it, and     *)
(* paths are of names.                                                     *)
IsPath(p) == p \in Seq(STRING) /\ p # <<>>
ASSUME ConfigAssumption ==
    /\ ValidateConfig(INTERNAL_DEFAULTS, CONFIG_SCHEMA)
    /\ \A p \in Fields : IsPath(p) /\ ~SchemaFields[p].section
    /\ \A f \in Files : \A p \in DOMAIN f.tree : f.tree[p].section \/ f.tree[p].from = "file"
    /\ \A env \in Environments : \A i \in DOMAIN env : IsPath(PathOf(env[i].variable))

-----------------------------------------------------------------------------
ConfigInit ==
    /\ file \in Files
    /\ environment \in Environments
    /\ cache = NoSettings /\ loadedFrom = NoFile
    /\ app = "new"

(* The administrator writes config.yaml. *)
EditFile(f) ==
    /\ f # file /\ file' = f
    /\ UNCHANGED <<environment, cache, loadedFrom, app>>

(* load_config(): named, whether the call is given the path of the file. *)
Layer(named) == IF named THEN file ELSE NoFile
LoadInto(named) ==
    /\ cache' = Loaded(Layer(named), environment)
    /\ loadedFrom' = Layer(named)

(* Application.run(): _bootstrap() loads the settings or exits; then it    *)
(* waits for an event nothing sets, until the process is interrupted; the  *)
(* list of components it stops is empty, no code adds to it.               *)
Bootstrap ==
    /\ app = "new"
    /\ LoadInto(TRUE)
    /\ app' = IF cache' = NoSettings THEN "exited" ELSE "running"
    /\ UNCHANGED <<file, environment>>

(* load_settings() of a subsystem: the cache, or else a load, from the     *)
(* path it names or, as the module's own documentation calls it, without.  *)
LoadSettings(named) ==
    /\ app = "running"
    /\ IF cache = NoSettings THEN LoadInto(named) ELSE UNCHANGED <<cache, loadedFrom>>
    /\ UNCHANGED <<file, environment, app>>

(* reload_settings() empties the cache first: a file it cannot load leaves *)
(* the process without settings until one can be.                          *)
ReloadSettings(named) ==
    /\ app = "running"
    /\ LoadInto(named)
    /\ UNCHANGED <<file, environment, app>>

Interrupt ==
    /\ app = "running" /\ app' = "exited"
    /\ UNCHANGED <<file, environment, cache, loadedFrom>>

ConfigNext ==
    \/ \E f \in Files : EditFile(f)
    \/ Bootstrap \/ Interrupt
    \/ \E named \in BOOLEAN : LoadSettings(named) \/ ReloadSettings(named)

ConfigSpec == ConfigInit /\ [][ConfigNext]_configVars

-----------------------------------------------------------------------------
(* Types of the state; the settings have every field of the schema. *)
ConfigTypeOK ==
    /\ file \in Files /\ loadedFrom \in Files \cup {NoFile}
    /\ environment \in Environments
    /\ cache = NoSettings \/ DOMAIN cache = Fields
    /\ app \in {"new", "running", "exited"}

(* Every setting a subsystem can read has a value the schema admits, taken *)
(* from the highest layer that names the field: the environment the        *)
(* process started in, else the file of the last load if that load named   *)
(* one, else the defaults (loader.py, load_config; settings.py,            *)
(* load_settings and reload_settings).  Three fields build_settings() does *)
(* not pass are always the defaults.                                       *)
SettingsFollowTheLayers ==
    cache # NoSettings =>
        \A p \in Fields :
            /\ cache[p].type \in CONFIG_SCHEMA[p].types
            /\ CONFIG_SCHEMA[p].limited => cache[p].ok
            /\ cache[p].from =
                   IF p \in NotPassed THEN "default"
                   ELSE IF Naming(p, environment) # {} THEN "env"
                   ELSE IF p \in DOMAIN loadedFrom.tree THEN "file"
                   ELSE "default"
=============================================================================
