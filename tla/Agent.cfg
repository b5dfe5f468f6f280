SPECIFICATION AgentSpec
CONSTANTS
  Stages = {s1, s2}
  Starters = {c1, c2}
  Runs = {r1}
  MaxRetries = 1
  MaxStarts = 2
  Chains = {"chain1", "chain2"}
  Values = {"v1"}
  Kinds = {"source_ip"}
  Rules = {"ra", "rb", "rc"}
  StageIds = {"", "a", "b", "c", "p"}
  Tables <- SomeTables
  MaxStages = 3
  MaxAge = 0
  None = None
  MonitorNames <- OneMonitor
  Misconfigured = {}
  Excluded = {2}
  Malformed = {3}
  Unfit = {3}
  Poison = {4}
  MaxEntries = 4
  MaxSessions = 2
  Migrations <- SomeMigrations
  StoreKeys = {"k1", "k2"}
  MaxStatements = 3
  MaxCrashes = 2
  MaxMisreads = 1
  Files <- SomeConfigs
  Environments <- SomeEnvironments
  OtherVariables <- SomeVariables
INVARIANTS
  AgentTypeOK
  StagesAreRespected
  IncidentsAreEarned
  MonitorsAreSound
  StoreIsSound
  SettingsFollowTheLayers
PROPERTIES
  IncidentsAreFinal
  RunsEnd
CHECK_DEADLOCK FALSE
