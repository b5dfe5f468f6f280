----------------------------- MODULE ConfigSync -----------------------------
(***************************************************************************)
(* Configuration packages of the management server:                        *)
(* management_server/src/management_server/configsync.                     *)
(*                                                                         *)
(* A publication reads the state of a package once and then takes it       *)
(* through three states.  Each takes an UPDATE of the row, an INSERT into  *)
(* the history and a COMMIT, on the session that all requests of a worker  *)
(* process share (startup/stages.py:114; Registration.tla says how): what  *)
(* one has written is seen by the others of the process, committed by the  *)
(* COMMIT of any, and lost when a statement of any is refused or the       *)
(* process ends.  The INSERT and the COMMIT are one step.                  *)
(*                                                                         *)
(* Nothing supersedes or archives a package, and nothing records the       *)
(* version that a machine has, so that a machine is taken to have "0".     *)
(* Metadata, checksums and the unused delta base are left out.             *)
(***************************************************************************)
EXTENDS Naturals, Sequences

CONSTANTS PackageIds,     \* the packages that may be created
          Publications,   \* the publish requests that may arrive
          PackageServers, \* the worker processes
          VersionStrings, \* versions of packages and agents: the tuples of their characters
          NoPackage       \* no package, no process or no request

ASSUME ConfigSyncAssumption == NoPackage \notin PackageIds \cup PackageServers \cup Publications

VARIABLES
    package,      \* package[p]: the row of p, as committed
    pending,      \* pending[p]: the state of p that a session has not committed yet
    ruined,       \* the processes whose session is in a failed transaction
    trace,        \* trace[p]: the rows of package_history of p, oldest first
    publication,  \* publication[r]: the handler of request r
    offered,      \* the last answer to an agent: the packages in it
    \* History, read by the properties only:
    interleaved,  \* the packages that two publications took on at a time
    split         \* those with a transition cut in two, by a failure or another COMMIT

packageRows == <<package, pending, ruined, trace, split>>
configSyncVars == <<packageRows, publication, offered, interleaved>>

PackageType == {"configuration", "rules", "policies", "feature_flags", "geoip", "certificates"}
PackageState == {"created", "signed", "published", "available", "superseded", "archived"}

LEGAL_TRANSITIONS ==
    {<<"created", "signed">>, <<"signed", "published">>, <<"published", "available">>,
     <<"available", "superseded">>, <<"superseded", "archived">>,
     <<"created", "archived">>, <<"published", "archived">>}

\* Characters compare as strings do in Python.
StringLess(s, t) ==
    \E i \in 1 .. Len(t) :
        /\ \A j \in 1 .. (i - 1) : j <= Len(s) /\ s[j] = t[j]
        /\ i > Len(s) \/ s[i] < t[i]

\* A request; its type and format are free text, a payload is there or not.
CreatePackageRequest ==
    [type : PackageType \cup {"unknown"}, version : VersionStrings \cup {<<>>},
     payload : BOOLEAN, format : {"full", "delta", "other"}, minimum : VersionStrings \cup {<<>>}]

ValidPackage(q) == /\ q.type \in PackageType
                   /\ q.version # <<>>
                   /\ q.format \in {"full", "delta"}
                   /\ q.format = "delta" => q.payload

\* A row of configuration_packages, as far as it is read again.
NoPackageRow == [state |-> "none", version |-> <<>>, minimum |-> <<>>]
NewPackage(q) == [state |-> "created", version |-> q.version, minimum |-> q.minimum]

NothingPending == [by |-> NoPackage, state |-> "none"]
NoPublication == [pc |-> "idle", package |-> NoPackage, server |-> NoPackage, to |-> "signed"]

ConfigSyncInit ==
    /\ package = [p \in PackageIds |-> NoPackageRow]
    /\ pending = [p \in PackageIds |-> NothingPending]
    /\ ruined = {}
    /\ trace = [p \in PackageIds |-> <<>>]
    /\ publication = [r \in Publications |-> NoPublication]
    /\ offered = {}
    /\ interleaved = {}
    /\ split = {}

-----------------------------------------------------------------------------
Publishing(p) == {r \in Publications : /\ publication[r].package = p
                                       /\ publication[r].pc \in {"update", "record"}}

\* The session of process w: the state it sees, the packages it has not committed, those
\* that are halfway through a transition of another request than r; the COMMIT after which
\* the rows are as given, but for what was pending; and the loss of that.
StateSeen(w, p) == IF pending[p].by = w THEN pending[p].state ELSE package[p].state
PendingOf(w) == {p \in PackageIds : pending[p].by = w}
HalfwayAt(w, r) == {p \in PackageIds : \E o \in Publishing(p) \ {r} :
                        publication[o].pc = "record" /\ publication[o].server = w}

ClearPending(w) ==
    pending' = [p \in PackageIds |-> IF p \in PendingOf(w) THEN NothingPending ELSE pending[p]]

CommitPackages(w, r, rows) ==
    /\ package' = [p \in PackageIds |->
                      IF p \in PendingOf(w) THEN [rows[p] EXCEPT !.state = pending[p].state]
                                            ELSE rows[p]]
    /\ ClearPending(w)
    /\ split' = split \cup HalfwayAt(w, r)

LosePending(w) == ClearPending(w) /\ UNCHANGED <<package, trace, split>>

-----------------------------------------------------------------------------
\* A refused request changes nothing; the identifier is new.
CreatePackage(p, w) ==
    /\ package[p] = NoPackageRow /\ w \notin ruined
    /\ \E q \in CreatePackageRequest :
          ValidPackage(q) /\ CommitPackages(w, NoPackage, [package EXCEPT ![p] = NewPackage(q)])
    /\ UNCHANGED <<ruined, trace, publication, offered, interleaved>>

\* publish_package as far as its only check against the row: the others are of constants.
LegalAgain(from, to) == <<from, to>> \in LEGAL_TRANSITIONS \/ from = to
IsLegal(from, to) == <<from, to>> \in LEGAL_TRANSITIONS

Reply(p, w) == IF w \in ruined THEN "500"
                ELSE IF package[p] = NoPackageRow THEN "404"
                ELSE IF IsLegal(StateSeen(w, p), "signed") THEN "update" ELSE "400"

Publish(r, p, w) ==
    /\ publication[r].pc = "idle"
    /\ publication' = [publication EXCEPT ![r] =
           [pc |-> Reply(p, w), package |-> p, server |-> w, to |-> "signed"]]
    /\ interleaved' = IF Publishing(p) # {} THEN interleaved \cup {p} ELSE interleaved
    /\ UNCHANGED <<packageRows, offered>>

\* update_state: whatever the state of the row is; another session's UPDATE is waited for.
UpdateState(r) ==
    LET p == publication[r].package  w == publication[r].server IN
    /\ publication[r].pc = "update" /\ w \notin ruined /\ pending[p].by \in {NoPackage, w}
    /\ pending' = [pending EXCEPT ![p] = [by |-> w, state |-> publication[r].to]]
    /\ publication' = [publication EXCEPT ![r].pc = "record"]
    /\ UNCHANGED <<package, ruined, trace, split, offered, interleaved>>

NextState == [signed |-> "published", published |-> "available"]
Onwards(j) == IF j.to = "available" THEN [j EXCEPT !.pc = "200"]
              ELSE [j EXCEPT !.pc = "update", !.to = NextState[j.to]]

\* A row of history, and the COMMIT.
RecordHistory(r) ==
    LET p == publication[r].package  w == publication[r].server IN
    /\ publication[r].pc = "record" /\ w \notin ruined
    /\ trace' = [trace EXCEPT ![p] = Append(@, publication[r].to)]
    /\ CommitPackages(w, r, package)
    /\ publication' = [publication EXCEPT ![r] = Onwards(@)]
    /\ UNCHANGED <<ruined, offered, interleaved>>

\* A statement raises before it gets to the database: the session is busy, or has failed.
\* An UPDATE that preceded it stays open.
PublicationFails(r) ==
    LET p == publication[r].package IN
    /\ publication[r].pc \in {"update", "record"}
    /\ publication' = [publication EXCEPT ![r].pc = "500"]
    /\ split' = IF publication[r].pc = "record" /\ publication[r].server \notin ruined
                THEN split \cup {p} ELSE split
    /\ UNCHANGED <<package, pending, ruined, trace, offered, interleaved>>

\* What any request of process w does to its session: a COMMIT, or a statement that
\* PostgreSQL refuses, after which all fail.
SharedCommit(w) ==
    /\ PendingOf(w) # {}
    /\ CommitPackages(w, NoPackage, package)
    /\ UNCHANGED <<ruined, trace, publication, offered, interleaved>>

SharedFailure(w) ==
    /\ ruined' = ruined \cup {w}
    /\ LosePending(w)
    /\ UNCHANGED <<publication, offered, interleaved>>

\* The process ends, with the requests it serves.
ServerEnds(w) ==
    /\ ruined' = ruined \ {w}
    /\ LosePending(w)
    /\ publication' = [r \in Publications |->
           IF publication[r].pc \in {"update", "record"} /\ publication[r].server = w
           THEN [publication[r] EXCEPT !.pc = "500"] ELSE publication[r]]
    /\ UNCHANGED <<offered, interleaved>>

-----------------------------------------------------------------------------
AvailablePackages(w) == {p \in PackageIds : StateSeen(w, p) \in {"published", "available"}}

\* get_machine_versions finds no row.
CurrentVersion == <<0>>

\* get_available_for_agent: all that are newer, and not only the newest.
OfferTo(agent, w) ==
    {p \in AvailablePackages(w) :
        /\ package[p].minimum # <<>> => ~StringLess(agent, package[p].minimum)
        /\ StringLess(CurrentVersion, package[p].version)}

PollConfig(agent, w) ==
    /\ w \notin ruined
    /\ offered' = OfferTo(agent, w)
    /\ UNCHANGED <<packageRows, publication, interleaved>>

ConfigSyncNext ==
    \/ \E p \in PackageIds, w \in PackageServers : CreatePackage(p, w)
    \/ \E r \in Publications : \/ \E p \in PackageIds, w \in PackageServers : Publish(r, p, w)
                               \/ UpdateState(r)
                               \/ RecordHistory(r)
                               \/ PublicationFails(r)
    \/ \E w \in PackageServers : \/ SharedCommit(w)
                                 \/ SharedFailure(w)
                                 \/ ServerEnds(w)
                                 \/ \E agent \in VersionStrings \cup {<<>>} : PollConfig(agent, w)

ConfigSyncSpec == ConfigSyncInit /\ [][ConfigSyncNext]_configSyncVars

-----------------------------------------------------------------------------
ConfigSyncTypeOK ==
    /\ \A p \in PackageIds : /\ package[p].state \in PackageState \cup {"none"}
                             /\ pending[p].by \in PackageServers \cup {NoPackage}
                             /\ pending[p].state \in PackageState \cup {"none"}
                             /\ \A i \in DOMAIN trace[p] : trace[p][i] \in PackageState
    /\ \A r \in Publications : publication[r].package \in PackageIds \cup {NoPackage}
    /\ offered \subseteq PackageIds /\ ruined \subseteq PackageServers
    /\ interleaved \cup split \subseteq PackageIds

\* The lifecycle: unless two publications of it were under way at a time, or a transition
\* was cut in two, the history of a package is a path of legal transitions from "created",
\* and the row is at its end, whatever else the session of a publication served or lost.
HistoryFollowsLifecycle ==
    \A p \in PackageIds \ (interleaved \cup split) : package[p] # NoPackageRow =>
        LET path == <<"created">> \o trace[p]
        IN  /\ \A i \in 1 .. (Len(path) - 1) : <<path[i], path[i + 1]>> \in LEGAL_TRANSITIONS
            /\ package[p].state = path[Len(path)]

\* A publication that was cut short is never made up for: publish_package only takes on
\* packages that are not signed yet, and nothing else changes them, except that a COMMIT of
\* the worker that was at it may still bring the state whose history never gets written.
HalfPublishedIsStuck ==
    [][\A p \in PackageIds :
           package[p].state \in {"signed", "published"} /\ Publishing(p) = {} =>
               /\ Publishing(p)' = {}
               /\ \/ package'[p].state = package[p].state
                  \/ p \in split /\ package'[p].state = pending[p].state]_configSyncVars

\* Together: packages go through their lifecycle, and those that stopped on the way stay there.
PublicationIsSound == []HistoryFollowsLifecycle /\ HalfPublishedIsStuck
=============================================================================
