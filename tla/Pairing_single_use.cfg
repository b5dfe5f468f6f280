SPECIFICATION PairingAlone
CONSTANTS
  w1 = w1
  w2 = w2
  Tokens = {t1}
  PairingRequests = {q1, q2, q3, q4}
  Nobody = Nobody
  Machines = {m1}
  Requests = {q1, q2, q3}
  Workers = {w1, w2}
  None = None
  Commands = {c1}
  CommandRequests = {q1, q2, q3}
  CommandWorkers = {w1, w2}
  NoOne = NoOne
  Hosts = {h1}
  Beats = {b1, b2, b3}
  MaxSequence = 2
  Flags = {"iptables"}
  Versions = {"1.0", "2.0"}
  Supported = "1.0"
  NoHost = NoHost
  PackageIds = {p1}
  Publications = {b1, b2}
  PackageServers = {w1, w2}
  VersionStrings <- SomeVersions
  NoPackage = NoPackage
  PolicyNames = {"d", "p", "h"}
  Editions <- SomeEditions
  KnownFlags = {"geoip", "docker"}
  PolicyServers = {w1, w2}
  Assignees = {m1}
  NoName = "none"
INVARIANT SingleUse
CHECK_DEADLOCK FALSE
