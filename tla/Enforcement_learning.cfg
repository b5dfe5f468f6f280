SPECIFICATION EnforcementAlone
CONSTANTS
  None = None
  Entities = {e1}
  Tasks = {t1, t2}
  Policies = {"learning"}
  Threats <- SomeThreats
  Confidences <- SomeConfidences
  Reputations <- SomeReputations
  ThreatIncidents <- SomeIncidents
  Severities = {10}
  ScoredEntities = {"e1"}
  PositiveEvery = 2
  Praise = {3, 101}
  LastHalf = 4
  MaxEvents = 3
  RuleFileContents <- SomeFiles
  EventInputs <- SomeInputs
  Number <- Numbers
  MaxRules = 4
  Addresses = {"a1", "a2"}
  Trusted = {"a2"}
  Users = {"root", "u1"}
  Accounts = {"root"}
  Forms = {"failed", "accepted"}
  WINDOW = 2
  SPRAY_WINDOW = 3
  MAX_FAILURES = 2
  MAX_USERS = 2
  SPRAY_TOTAL = 2
  SPRAY_USERS = 2
  SPRAY_PER_USER = 1
  BRUTE_ATTEMPTS = 3
  LastSecond = 4
  MaxLines = 4
  DetectorNames = {"d1", "d2"}
  AnalyzedEvents <- SomeAnalyzed
  MaxAnalyses = 1
  Declared <- SomeDeclared
INVARIANT WarningsDoNotBlock
CHECK_DEADLOCK FALSE
