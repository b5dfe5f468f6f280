SPECIFICATION SshSpec
CONSTANTS
  Addresses = {"a1"}
  Trusted = {}
  Users = {"root", "u1", "u2"}
  Accounts = {"root"}
  Forms = {"failed", "failed_invalid", "accepted", "invalid"}
  WINDOW = 2
  SPRAY_WINDOW = 3
  MAX_FAILURES = 2
  MAX_USERS = 2
  SPRAY_TOTAL = 2
  SPRAY_USERS = 2
  SPRAY_PER_USER = 1
  BRUTE_ATTEMPTS = 3
  LastSecond = 4
  MaxLines = 4
INVARIANT EnumerationIsFound
CHECK_DEADLOCK FALSE
