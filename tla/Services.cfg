SPECIFICATION ServicesSpec
CONSTANTS
  Recordings = {b1, b2, b3}
  Subsystems = {"pairing"}
  UnknownNames = {"other"}
  VerifyLimit = 2
  NoEvent = NoEvent
  Notes = {n1}
  Calls = {b1, b2, b3}
  Destinations = {"console", "archive", "none", "discord"}
  OddDestinations = {"pager"}
  Levels = {"immediate", "normal"}
  CustomAdapters = {"discord"}
  NoNote = NoNote
  RuleFiles <- SomeRuleFiles
  RoutedEvents <- SomeEvents
  Routers = {w3}
  Reloads = {l1, l2}
  MaxDecisions = 2
  NoRouter = NoRouter
  Entries = {e1}
  Compressors = {b4, b5}
  LastDay = 4
  RETENTION_DAYS = 1
  MAX_TOTAL = 1
  NoLogFile = NoLogFile
  GuildIds = {g1, g2}
  GuildCalls = {b1, b2, b3}
  Members = {m1}
  Channels = {"audit", "detections"}
  NoGuild = NoGuild
  BotGuilds <- TwoGuilds
  MaxConnections = 2
  MAX_ACTIVE_THREADS = 1
  Incidents = {i1, i2}
  NoPlace = "nowhere"
  Managers <- Order
  Validated = {"certificates", "policies", "routing", "audit"}
  Fallible = {"certificates", "policies", "routing"}
  BackgroundWorkers = {w3}
  MAX_RESTARTS = 1
  MaxOutages = 1
INVARIANTS
  ServicesTypeOK
  AlarmsAreExplained
  StatusIsEarned
  RoutingIsSound
  LogsAreSound
  GuildTablesAgree
  BotIsSound
  ServingIsComplete
CHECK_DEADLOCK FALSE
