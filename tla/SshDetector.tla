----------------------------- MODULE SshDetector -----------------------------
(***************************************************************************)
(* The SSH detectors of the agent: security_agent/detectors/ssh.           *)
(*                                                                         *)
(* SSHSecurityManager.analyze takes the lines of the log one by one.  What *)
(* the parser takes for a failed or an accepted password is given to the   *)
(* trackers; any other line, or one from a trusted address, changes        *)
(* nothing.  Each tracker keeps a list by address and drops from it what   *)
(* is out of its window whenever it records.  The tracker of successes is  *)
(* read by nothing, and that of sessions is never called.                  *)
(***************************************************************************)
EXTENDS Naturals, Sequences, FiniteSets, Selection

CONSTANTS Addresses,     \* the addresses that connect
          Trusted,       \* those that are trusted
          Users,         \* the names that they try, which may be "root"
          Accounts,      \* those of the names that have an account on the host
          Forms,         \* the forms of the lines in the log
          WINDOW,        \* the window of every tracker but the spray's
          SPRAY_WINDOW,  \* the spray's
          MAX_FAILURES,  \* failed logins that are excessive
          MAX_USERS,     \* names that are an enumeration
          SPRAY_TOTAL,   \* attempts that may be a spray
          SPRAY_USERS,   \* names that make it one, and that brute force stays within
          SPRAY_PER_USER,\* attempts by name that a spray stays within
          BRUTE_ATTEMPTS,\* attempts that are brute force
          LastSecond,    \* bound on the clock
          MaxLines       \* bound on the lines of the log

ASSUME SshAssumption ==
    /\ Trusted \subseteq Addresses /\ Accounts \subseteq Users
    /\ Forms \subseteq {"failed", "failed_invalid", "accepted", "invalid", "closed", "pam_failure",
                       "session_opened", "session_closed"}
    /\ {WINDOW, SPRAY_WINDOW, MAX_FAILURES, MAX_USERS, SPRAY_TOTAL, SPRAY_USERS, SPRAY_PER_USER,
        BRUTE_ATTEMPTS, LastSecond, MaxLines} \subseteq Nat
    /\ WINDOW <= SPRAY_WINDOW
    /\ BRUTE_ATTEMPTS > SPRAY_USERS * SPRAY_PER_USER

ThreatType == {"excessive_failed_logins", "root_login_attempt", "username_enumeration",
               "password_spraying", "ssh_brute_force", "success_after_failures",
               "impossible_travel"}

VARIABLES
    second,     \* the clock
    failures,   \* FailedLoginTracker: by address, the times recorded
    names,      \* InvalidUserTracker: by address and name, the time of the last attempt
    sprays,     \* PasswordSprayTracker: by address and name, the times of the attempts
    brutes,     \* BruteForceTracker: by address, the attempts
    lastLogin,  \* ImpossibleTravelTracker: by name, the address of the last login
    connected,  \* PortScanHintTracker
    lines       \* the lines taken so far, and the threats that each was answered with

sshVars == <<second, failures, names, sprays, brutes, lastLogin, connected, lines>>

Nobody == "nobody"

SshInit ==
    /\ second = 0
    /\ failures = [a \in Addresses |-> <<>>]
    /\ names = [a \in Addresses |-> <<>>]
    /\ sprays = [a \in Addresses |-> [u \in Users |-> <<>>]]
    /\ brutes = [a \in Addresses |-> <<>>]
    /\ lastLogin = [u \in Users |-> Nobody]
    /\ connected = {}
    /\ lines = <<>>

-----------------------------------------------------------------------------
(* parser.py *)

\* parse: the event type of each form of line that sshd writes.  The pattern for failed
\* passwords takes "for" together with one word, or else "invalid user" without a "for": the
\* line about a name that has no account says "for invalid user" and a name, and is not parsed.
EventTypeOf(form) ==
    CASE form = "failed" -> "failed_password"
      [] form = "failed_invalid" -> "none"
      [] form = "accepted" -> "success"
      [] form = "invalid" -> "invalid_user"
      [] form = "closed" -> "disconnect"
      [] form = "pam_failure" -> "auth_failure"
      [] form = "session_opened" -> "session_open"
      [] form = "session_closed" -> "session_close"

\* The lines about a name that has no account.
OfNobody == {"failed_invalid", "invalid"}
Written(form, user) ==
    /\ form \in Forms
    /\ form \in OfNobody <=> user \notin Accounts

-----------------------------------------------------------------------------
(* The trackers *)

\* A window that the oldest entry may never leave.
InWindow(time, window) == second - time < window

Recent(times, window) == Sifted(times, {t \in 0 .. second : InWindow(t, window)})

\* A list that a full one no longer grows.
FailedTimesCapped(times) ==
    IF Len(times) < MAX_FAILURES - 1 THEN Recent(Append(times, second), WINDOW)
    ELSE Recent(times, WINDOW)
\* FailedLoginTracker.record: the times of an address, with this one.
FailedTimes(times) == Recent(Append(times, second), WINDOW)

\* InvalidUserTracker.record.
NamesTried(tried, user) ==
    LET all == [u \in DOMAIN tried \cup {user} |-> IF u = user THEN second ELSE tried[u]]
    IN [u \in {v \in DOMAIN all : InWindow(all[v], WINDOW)} |-> all[u]]

\* PasswordSprayTracker.record.
SprayTimes(times, user) ==
    [u \in Users |-> Recent(IF u = user THEN Append(times[u], second) ELSE times[u], SPRAY_WINDOW)]

\* BruteForceTracker.record.
BruteAttempts(attempts, user) ==
    Sifted(Append(attempts, [user |-> user, at |-> second]),
           [user : Users, at : {t \in 0 .. second : InWindow(t, WINDOW)}])

TotalOf(times) ==
    LET Sum[n \in 0 .. MaxLines] ==
            IF n = 0 THEN 0 ELSE Sum[n - 1] + Cardinality({u \in Users : Len(times[u]) >= n})
    IN Sum[MaxLines]
TriedIn(times) == {u \in Users : times[u] # <<>>}

\* Without the bound on the attempts by name.
IsSpray(times) ==
    /\ TotalOf(times) >= SPRAY_TOTAL
    /\ Cardinality(TriedIn(times)) >= SPRAY_USERS
    /\ \A u \in Users : Len(times[u]) <= SPRAY_PER_USER

IsBruteForce(attempts) ==
    /\ Len(attempts) >= BRUTE_ATTEMPTS
    /\ Cardinality({attempts[i].user : i \in DOMAIN attempts}) <= SPRAY_USERS

When(condition, type) == IF condition THEN {type} ELSE {}

-----------------------------------------------------------------------------
(* SSHSecurityManager.analyze *)

Answered(form, address, user, found) ==
    lines' = Append(lines, [form |-> form, address |-> address, user |-> user, at |-> second,
                            found |-> found])

\* A failed password goes to every tracker of failures.
FailedPassword(address, user, form) ==
    /\ Len(lines) < MaxLines /\ address \notin Trusted
    /\ Written(form, user) /\ EventTypeOf(form) = "failed_password"
    /\ failures' = [failures EXCEPT ![address] = FailedTimes(@)]
    /\ names' = [names EXCEPT ![address] = NamesTried(@, user)]
    /\ sprays' = [sprays EXCEPT ![address] = SprayTimes(@, user)]
    /\ brutes' = [brutes EXCEPT ![address] = BruteAttempts(@, user)]
    /\ connected' = connected \cup {address}
    /\ Answered(form, address, user,
           When(Len(failures'[address]) >= MAX_FAILURES, "excessive_failed_logins")
           \cup When(user = "root", "root_login_attempt")
           \cup When(Cardinality(DOMAIN names'[address]) >= MAX_USERS, "username_enumeration")
           \cup When(IsSpray(sprays'[address]), "password_spraying")
           \cup When(IsBruteForce(brutes'[address]), "ssh_brute_force"))
    /\ UNCHANGED <<second, lastLogin>>

\* An accepted one is recorded as a failure, to learn how many there were: so there is at least
\* one.
AcceptedPassword(address, user, form) ==
    /\ Len(lines) < MaxLines /\ address \notin Trusted
    /\ Written(form, user) /\ EventTypeOf(form) = "success"
    /\ failures' = [failures EXCEPT ![address] = FailedTimes(@)]
    /\ lastLogin' = [lastLogin EXCEPT ![user] = address]
    /\ connected' = connected \cup {address}
    /\ Answered(form, address, user,
           When(Len(failures'[address]) > 0, "success_after_failures")
           \cup When(lastLogin[user] \notin {Nobody, address}, "impossible_travel"))
    /\ UNCHANGED <<second, names, sprays, brutes>>

\* Any other line.
Unheeded(address, user, form) ==
    /\ Len(lines) < MaxLines /\ address \notin Trusted
    /\ Written(form, user) /\ EventTypeOf(form) \notin {"failed_password", "success"}
    /\ Answered(form, address, user, {})
    /\ UNCHANGED <<second, failures, names, sprays, brutes, lastLogin, connected>>

PassSecond ==
    /\ second < LastSecond
    /\ second' = second + 1
    /\ UNCHANGED <<failures, names, sprays, brutes, lastLogin, connected, lines>>

SshNext ==
    \/ \E a \in Addresses, u \in Users, f \in Forms : \/ FailedPassword(a, u, f)
                                                     \/ AcceptedPassword(a, u, f)
                                                     \/ Unheeded(a, u, f)
    \/ PassSecond

SshSpec == SshInit /\ [][SshNext]_sshVars

-----------------------------------------------------------------------------

SshTypeOK ==
    /\ second \in 0 .. LastSecond
    /\ \A a \in Addresses : /\ \A i \in DOMAIN failures[a] : failures[a][i] \in 0 .. second
                            /\ DOMAIN names[a] \subseteq Users
                            /\ \A i \in DOMAIN brutes[a] : brutes[a][i].user \in Users
                            /\ \A u \in Users : Len(sprays[a][u]) <= MaxLines
    /\ lastLogin \in [Users -> Addresses \cup {Nobody}]
    /\ connected \subseteq Addresses
    /\ \A i \in DOMAIN lines : lines[i].found \subseteq ThreatType

\* The failed passwords that were parsed of the address of line i, in the window of its time, with itself.
FailuresBefore(i) ==
    {j \in 1 .. i : /\ EventTypeOf(lines[j].form) = "failed_password"
                    /\ lines[j].address = lines[i].address
                    /\ lines[i].at - lines[j].at < WINDOW}

\* Every burst is found: whatever comes between them, and however old entries were dropped, the
\* failure that is one too many within the window is answered, the names it enumerates too, and
\* the attempts that are too few for either kind of attack are called neither.
BurstsAreFound ==
    \A i \in DOMAIN lines :
        EventTypeOf(lines[i].form) = "failed_password" =>
            LET before == FailuresBefore(i)
                users == {lines[j].user : j \in before}
            IN /\ Cardinality(before) >= MAX_FAILURES =>
                      "excessive_failed_logins" \in lines[i].found
               /\ Cardinality(users) >= MAX_USERS <=> "username_enumeration" \in lines[i].found
               /\ /\ Cardinality(before) >= BRUTE_ATTEMPTS
                  /\ Cardinality(users) <= SPRAY_USERS
                  <=> "ssh_brute_force" \in lines[i].found

\* One attempt is never called a spray and brute force at once: the two windows differ, and an
\* attack that is slow in one may be fast in the other.
SprayOrBruteForce ==
    \A i \in DOMAIN lines : ~({"password_spraying", "ssh_brute_force"} \subseteq lines[i].found)

\* InvalidUserTracker: "Invalid user detector - tracks attempts with non-existent usernames."  So
\* passwords that fail for MAX_USERS names that do not exist, within the window, are answered.
EnumerationIsFound ==
    \A i \in DOMAIN lines :
        lines[i].form = "failed_invalid" =>
            LET before == {j \in 1 .. i : /\ lines[j].form = "failed_invalid"
                                         /\ lines[j].address = lines[i].address
                                         /\ lines[i].at - lines[j].at < WINDOW}
            IN Cardinality({lines[j].user : j \in before}) >= MAX_USERS =>
                   "username_enumeration" \in lines[i].found

\* Together: what the detector says of a line is so, whatever preceded the line.
SshIsSound == BurstsAreFound /\ SprayOrBruteForce
=============================================================================
