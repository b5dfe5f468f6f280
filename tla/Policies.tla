------------------------------ MODULE Policies ------------------------------
(***************************************************************************)
(* Policies of the management server:                                      *)
(* management_server/src/management_server/policies.                       *)
(*                                                                         *)
(* Every worker process reads the policy files once, at its start, keeps   *)
(* the valid ones in memory and saves them in a table that all processes   *)
(* share.  A policy is resolved in memory against its ancestors; where     *)
(* that fails, the row of the table is the answer.                         *)
(*                                                                         *)
(* The files are edited by hand.  Of a policy's numbers one stands for the *)
(* three that are treated alike; names are well-formed, since they are     *)
(* those of files.  delete_policy is called by nothing, and set_override,  *)
(* which the manager passes no name of a policy, fails before it writes.   *)
(*                                                                         *)
(* Both databases are modelled.  The INSERT of an assignment gives no id,  *)
(* which is the primary key: SQLite takes that for NULL and goes on, and   *)
(* PostgreSQL refuses the row and every later statement of the session,    *)
(* which all handlers of the process share and none rolls back.            *)
(***************************************************************************)
EXTENDS Naturals, Sequences, FiniteSets

CONSTANTS PolicyNames,   \* the names of policies
          Editions,      \* contents of the directory of policies, over time
          KnownFlags,    \* the feature flags
          PolicyServers, \* the worker processes
          Assignees,     \* the machines that get policies
          NoName         \* no policy, as the parent of those that have none

\* In seconds; a policy's other numbers have such bounds too.
RANGE_CONSTRAINTS == [least |-> 5, most |-> 3600]

\* Policy: what of a file the rest depends on.
Policy == [parent : PolicyNames \cup {NoName}, interval : Nat, described : BOOLEAN,
           flags : SUBSET KnownFlags]

ASSUME PoliciesAssumption ==
    /\ NoName \notin PolicyNames /\ IsFiniteSet(PolicyNames)
    /\ \A e \in Editions : DOMAIN e \subseteq PolicyNames /\ \A n \in DOMAIN e : e[n] \in Policy

VARIABLES
    files,     \* the directory: one of Editions
    known,     \* known[w]: the policies registered in the memory of w
    unsaved,   \* unsaved[w]: the names that the start of w has yet to save
    up,        \* the processes that have started
    policyRows,     \* the rows of policies
    assigned,  \* assigned[m]: the policy of machine m, NoName if it has none
    dialect,   \* the database that the server is configured for
    refused    \* the processes whose session the database refuses

policiesVars == <<files, known, unsaved, up, policyRows, assigned, dialect, refused>>

DatabaseDialect == {"postgresql", "sqlite"}

NoPolicies == [n \in {} |-> NoName]

PoliciesInit ==
    /\ files \in Editions
    /\ known = [w \in PolicyServers |-> NoPolicies]
    /\ unsaved = [w \in PolicyServers |-> {}]
    /\ up = {}
    /\ policyRows = NoPolicies
    /\ assigned = [m \in Assignees |-> NoName]
    /\ dialect \in DatabaseDialect
    /\ refused = {}

-----------------------------------------------------------------------------
(* PolicyInheritanceEngine *)

\* The ancestors of n in memory p: UpTo(p, n)[k] are n and the next k names of its chain, if there
\* are as many.
UpTo(p, n) ==
    LET up_to[k \in 0 .. Cardinality(PolicyNames)] ==
            IF k = 0 THEN <<n>>
            ELSE LET below == up_to[k - 1]
                     last  == below[Len(below)]
                 IN  IF last \in DOMAIN p /\ p[last].parent # NoName
                     THEN Append(below, p[last].parent) ELSE below
    IN  up_to

\* The chain from n to its root.  It fails on a name that is missing, and on a circle, which
\* makes it longer than there are names.
Chain(p, n) == UpTo(p, n)[Cardinality(PolicyNames)]
Resolvable(p, n) == /\ Len(Chain(p, n)) <= Cardinality(PolicyNames)
                    /\ \A i \in DOMAIN Chain(p, n) : Chain(p, n)[i] \in DOMAIN p

\* A child's numbers replace those merged so far, and so do the defaults of what its file leaves
\* out; a flag that is on stays on; a description stays unless there is another.
OverridesNothing(target, source) == target
ApplyOverrides(target, source) ==
    [target EXCEPT !.interval = source.interval,
                   !.flags = @ \cup source.flags,
                   !.described = @ \/ source.described]

\* From the root, k policies down, to the policy itself; name, version and parent are its own.
MergeChain(p, chain) ==
    LET merged[k \in 0 .. Len(chain) - 1] ==
            IF k = 0 THEN p[chain[Len(chain)]]
            ELSE ApplyOverrides(merged[k - 1], p[chain[Len(chain) - k]])
    IN  [merged[Len(chain) - 1] EXCEPT !.parent = p[chain[1]].parent]

Resolve(p, n) == MergeChain(p, Chain(p, n))

-----------------------------------------------------------------------------
(* PolicyService *)

\* An unknown parent is a mere warning, and the file's own name as the parent an error.
ValidPolicy(n, policy) ==
    /\ policy.parent # n
    /\ policy.interval \in RANGE_CONSTRAINTS.least .. RANGE_CONSTRAINTS.most

Loaded == [n \in {m \in DOMAIN files : ValidPolicy(m, files[m])} |-> files[n]]

\* An operator edits the files.
Edit == /\ files' \in Editions \ {files}
        /\ UNCHANGED <<known, unsaved, up, policyRows, assigned, dialect, refused>>

\* load_policies up to the first save; circles are counted and registered all the same.
LoadPolicies(w) ==
    /\ w \notin up /\ unsaved[w] = {} /\ known[w] = NoPolicies
    /\ known' = [known EXCEPT ![w] = Loaded]
    /\ unsaved' = [unsaved EXCEPT ![w] = DOMAIN Loaded]
    /\ up' = IF DOMAIN Loaded = {} THEN up \cup {w} ELSE up
    /\ UNCHANGED <<files, policyRows, assigned, dialect, refused>>

\* save_policy: a row that exists gets the new number and flags, and keeps description and parent.
SavedParent(old, new) == [new EXCEPT !.parent = old.parent, !.described = old.described]
SavePolicy(w) ==
    \E n \in unsaved[w] :
        LET new == known[w][n]
            row == IF n \in DOMAIN policyRows THEN SavedParent(policyRows[n], new) ELSE new
        IN  /\ policyRows' = [m \in DOMAIN policyRows \cup {n} |-> IF m = n THEN row ELSE policyRows[m]]
            /\ unsaved' = [unsaved EXCEPT ![w] = @ \ {n}]
            /\ up' = IF unsaved[w] = {n} THEN up \cup {w} ELSE up
            /\ UNCHANGED <<files, known, assigned, dialect, refused>>

\* A process ends, at whatever point; another will take its place.
EndServer(w) ==
    /\ w \in up \/ unsaved[w] # {}
    /\ known' = [known EXCEPT ![w] = NoPolicies]
    /\ unsaved' = [unsaved EXCEPT ![w] = {}]
    /\ up' = up \ {w}
    /\ refused' = refused \ {w}
    /\ UNCHANGED <<files, policyRows, assigned, dialect>>

\* assign_policy: known to this process, or else to its session, by a row.
Stored(w, n) == w \notin refused /\ n \in DOMAIN policyRows
Assignable(w, n) == n \in DOMAIN known[w] \/ Stored(w, n)
AssignPolicy(w, m, n) ==
    /\ w \in up /\ Assignable(w, n)
    /\ IF dialect = "sqlite"
       THEN assigned' = [assigned EXCEPT ![m] = n] /\ UNCHANGED refused
       ELSE refused' = refused \cup {w} /\ UNCHANGED assigned
    /\ UNCHANGED <<files, known, unsaved, up, policyRows, dialect>>

\* get_policy, for a process that has started: its resolution, or else the row.
InMemory(w, n) == n \in DOMAIN known[w] /\ Resolvable(known[w], n)
PolicyAnswers(w, n) == InMemory(w, n) \/ Stored(w, n)
GetPolicy(w, n) == IF InMemory(w, n) THEN Resolve(known[w], n) ELSE policyRows[n]

PoliciesNext ==
    \/ Edit
    \/ \E w \in PolicyServers :
        \/ LoadPolicies(w) \/ SavePolicy(w) \/ EndServer(w)
        \/ \E m \in Assignees, n \in PolicyNames : AssignPolicy(w, m, n)

PoliciesSpec == PoliciesInit /\ [][PoliciesNext]_policiesVars

-----------------------------------------------------------------------------
PoliciesTypeOK ==
    /\ files \in Editions
    /\ \A w \in PolicyServers : /\ DOMAIN known[w] \subseteq PolicyNames
                                /\ unsaved[w] \subseteq DOMAIN known[w]
    /\ up \subseteq PolicyServers
    /\ \A n \in DOMAIN policyRows : n \in PolicyNames /\ policyRows[n] \in Policy
    /\ assigned \in [Assignees -> PolicyNames \cup {NoName}]
    /\ dialect \in DatabaseDialect /\ refused \subseteq up

\* What a machine was assigned can always be answered, by every process that is up, whatever
\* was edited away from the files since and whichever chain was broken.  (On PostgreSQL no
\* machine gets as far as having one.)
AssignedIsAnswered ==
    \A w \in up, m \in Assignees : assigned[m] # NoName => PolicyAnswers(w, assigned[m])

\* Inheritance is over the ancestors: a resolved policy has its own number, the flags of itself
\* and of all of its ancestors, and a description if any of them has one.
Ancestors(p, n) == {m \in DOMAIN p : \E i \in DOMAIN Chain(p, n) : Chain(p, n)[i] = m}
InheritsFromAll ==
    \A w \in PolicyServers : \A n \in {m \in DOMAIN known[w] : Resolvable(known[w], m)} :
        LET p == known[w]
        IN  Resolve(p, n) =
                [parent |-> p[n].parent, interval |-> p[n].interval,
                 flags |-> UNION {p[m].flags : m \in Ancestors(p, n)},
                 described |-> \E m \in Ancestors(p, n) : p[m].described]

\* Together: the answers about a policy exist when they are needed and are made of all of the
\* chain, over edits, reloads and restarts.
PoliciesAreSound == AssignedIsAnswered /\ InheritsFromAll
=============================================================================
