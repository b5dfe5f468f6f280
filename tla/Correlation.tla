---------------------------- MODULE Correlation ----------------------------
(***************************************************************************)
(* The correlation engine of the security agent:                           *)
(* security_agent/correlation.                                             *)
(*                                                                         *)
(* An attack chain is a sequence of stages, each matched by certain rules. *)
(* For every chain and every value of its correlation key (an address, a   *)
(* user) the engine keeps one active chain, advanced by the rule matches   *)
(* that concern it, until it completes or is found silent for too long;    *)
(* either makes an incident of it.  No call awaits anything, so that each  *)
(* is one step.                                                            *)
(*                                                                         *)
(* Definitions may be loaded again while chains are active.  Time is the   *)
(* age of an active chain's last match.  Confidence, evidence and metrics  *)
(* are left out; an incident's random id is that of its chain, key and     *)
(* how many chains were started for them before.                           *)
(***************************************************************************)
EXTENDS Integers, Sequences

CONSTANTS Chains,       \* the ids of attack chains
          Values,       \* what correlation keys may be found to be
          Kinds,        \* the correlation keys
          Rules,
          StageIds,
          Tables,       \* the sets of definitions that may be loaded, by chain id
          MaxStages,    \* no definition has more stages,
          MaxAge,       \* nor a longer timeout: ages are not told apart beyond
          MaxStarts,    \* bounds the active chains started for one chain and key
          None

StageTypes == {"ordered", "optional", "unordered", "branch"}
Stage == [id : StageIds, type : StageTypes, rules : SUBSET Rules]
Definition == [key : Kinds, timeout : 0 .. MaxAge, stages : Seq(Stage)]
Definitions == UNION {{t[c] : c \in DOMAIN t} : t \in Tables}

\* What validate_chains lets pass.  Stages without an id are numbered there, but the loader gives
\* all of them the same empty one.
NoId == ""
Loadable(d) ==
    /\ d.stages # <<>>
    /\ \A i \in DOMAIN d.stages : d.stages[i].rules # {}
    /\ \A i, j \in DOMAIN d.stages : d.stages[i].id = d.stages[j].id => i = j \/ d.stages[i].id = NoId

ASSUME CorrelationAssumption ==
    /\ MaxStages \in Nat /\ MaxAge \in Nat
    /\ \A t \in Tables :
          /\ DOMAIN t \subseteq Chains
          /\ \A c \in DOMAIN t :
                t[c] \in Definition /\ Loadable(t[c]) /\ Len(t[c].stages) <= MaxStages

VARIABLES
    defs,       \* _chain_defs
    active,     \* ChainTracker._chains
    starts,     \* starts[c, v]: the chains started
    incidents   \* IncidentManager._incidents

correlationVars == <<defs, active, starts, incidents>>

CorrelationInit ==
    /\ defs = <<>>
    /\ active = [cv \in Chains \X Values |-> None]
    /\ starts = [cv \in Chains \X Values |-> 0]
    /\ incidents = <<>>

-----------------------------------------------------------------------------
(* Active chains *)

\* start_chain.  from and pure are history: the definition the chain was started under,
\* and whether no match was judged by another.
Fresh(d) == [
    index |-> 0,
    stages |-> {d.stages[i].id : i \in DOMAIN d.stages},
    matched |-> {},
    age |-> 0,
    from |-> d,
    pure |-> TRUE]

\* advance goes through the stages in order.  It stops at one that the rule matches, if
\* it is not an ordered one out of turn - or one the active chain has no progress for.
StopsOutOfTurn(d, a, rule, i) ==
    rule \in d.stages[i].rules
Stops(d, a, rule, i) ==
    /\ rule \in d.stages[i].rules
    /\ d.stages[i].id \in a.stages /\ d.stages[i].type = "ordered" => i = a.index + 1

\* i is where it stops, or 0.
IsHit(d, a, rule, i) ==
    \/ i \in DOMAIN d.stages /\ Stops(d, a, rule, i) /\ \A j \in 1 .. i - 1 : ~Stops(d, a, rule, j)
    \/ i = 0 /\ \A j \in DOMAIN d.stages : ~Stops(d, a, rule, j)

\* The stage is matched; a KeyError instead, if there is no progress for it.
Matches(d, a, i) == i # 0 /\ d.stages[i].id \in a.stages

Advanced(d, a, i) ==
    LET b == [a EXCEPT !.age = 0, !.pure = @ /\ a.from = d] IN
    IF ~Matches(d, a, i) THEN b
    ELSE [b EXCEPT !.matched = @ \cup {d.stages[i].id},
                   !.index = IF d.stages[i].type = "ordered" THEN i ELSE @]

AllRequired(d, b) ==
    \A i \in DOMAIN d.stages : d.stages[i].type = "optional" \/ d.stages[i].id \in b.matched

\* b is the chain after its stage i was matched.
Completes(d, b, i) ==
    CASE d.stages[i].type = "ordered" -> b.index >= Len(d.stages)
      [] d.stages[i].type = "branch" -> TRUE
      [] OTHER -> AllRequired(d, b)

-----------------------------------------------------------------------------
(* CorrelationEngine *)

\* A dictionary after an update.
Updated(f, g) == [x \in DOMAIN f \cup DOMAIN g |-> IF x \in DOMAIN g THEN g[x] ELSE f[x]]

\* load_chains: definitions are added and replaced, never removed.
Load(t) ==
    /\ defs' = Updated(defs, t)
    /\ UNCHANGED <<active, starts, incidents>>

\* The active chains that a match concerns, by the value it has for each correlation key.
Concerned(values) ==
    {cv \in Chains \X Values : cv[1] \in DOMAIN defs /\ values[defs[cv[1]].key] = cv[2]}

Current(cv) == IF active[cv] = None THEN Fresh(defs[cv[1]]) ELSE active[cv]
After(cv, i) == Advanced(defs[cv[1]], Current(cv), i)
Finishes(cv, i) ==
    Matches(defs[cv[1]], Current(cv), i) /\ Completes(defs[cv[1]], After(cv, i), i)

Id(cv, n) == <<cv[1], cv[2], n>>
Incident(state, a) == [state |-> state, matched |-> a.matched, from |-> a.from, pure |-> a.pure]

RemovedNot(cv, i) == After(cv, i)
Removed(cv, i) == None

\* correlate: a rule match, with a value for each correlation key, None if unknown.
\* hit[cv] is where the active chain stops.
Correlate(rule, values) ==
    \E hit \in [Concerned(values) -> 0 .. MaxStages] :
        LET completed == {cv \in Concerned(values) : Finishes(cv, hit[cv])} IN
        /\ \A cv \in Concerned(values) :
              /\ IsHit(defs[cv[1]], Current(cv), rule, hit[cv])
              /\ active[cv] = None => starts[cv] < MaxStarts
        /\ starts' = [cv \in Chains \X Values |->
                        IF cv \in Concerned(values) /\ active[cv] = None THEN starts[cv] + 1
                        ELSE starts[cv]]
        /\ active' = [cv \in Chains \X Values |->
                        IF cv \in completed THEN Removed(cv, hit[cv])
                        ELSE IF cv \in Concerned(values) THEN After(cv, hit[cv])
                        ELSE active[cv]]
        /\ incidents' = Updated(incidents,
                            [id \in {Id(cv, starts'[cv]) : cv \in completed} |->
                                Incident("completed", After(<<id[1], id[2]>>, hit[<<id[1], id[2]>>]))])
        /\ UNCHANGED defs

\* is_expired, of chains whose definition is known
Expired == {cv \in Chains \X Values :
               active[cv] # None /\ cv[1] \in DOMAIN defs /\ active[cv].age > defs[cv[1]].timeout}

\* cleanup_expired
Cleanup ==
    /\ Expired # {}
    /\ active' = [cv \in Chains \X Values |-> IF cv \in Expired THEN None ELSE active[cv]]
    /\ UNCHANGED <<defs, starts>>
    /\ incidents' = Updated(incidents,
                        [id \in {Id(cv, starts[cv]) : cv \in Expired} |->
                            Incident("expired", active[<<id[1], id[2]>>])])

Clear ==
    /\ defs' = <<>>
    /\ active' = [cv \in Chains \X Values |-> None]
    /\ incidents' = <<>>
    /\ UNCHANGED starts

\* Time passes.
Tick ==
    /\ \E cv \in Chains \X Values : active[cv] # None /\ active[cv].age <= MaxAge
    /\ active' = [cv \in Chains \X Values |->
                    IF active[cv] = None THEN None
                    ELSE [active[cv] EXCEPT !.age = IF @ <= MaxAge THEN @ + 1 ELSE @]]
    /\ UNCHANGED <<defs, starts, incidents>>

CorrelationNext ==
    \/ \E t \in Tables : Load(t)
    \/ \E rule \in Rules, values \in [Kinds -> Values \cup {None}] : Correlate(rule, values)
    \/ Cleanup
    \/ Clear
    \/ Tick

CorrelationSpec == CorrelationInit /\ [][CorrelationNext]_correlationVars

-----------------------------------------------------------------------------
ActiveChain == [index : 0 .. MaxStages, stages : SUBSET StageIds, matched : SUBSET StageIds,
                age : 0 .. MaxAge + 1, from : Definitions, pure : BOOLEAN]
IncidentType == [state : {"completed", "expired"}, matched : SUBSET StageIds,
                 from : Definitions, pure : BOOLEAN]

\* Every variable has the shape the code gives it.
CorrelationTypeOK ==
    /\ DOMAIN defs \subseteq Chains
    /\ \A c \in DOMAIN defs : defs[c] \in Definitions
    /\ active \in [Chains \X Values -> ActiveChain \cup {None}]
    /\ starts \in [Chains \X Values -> Nat]
    /\ \A id \in DOMAIN incidents :
          /\ id \in Chains \X Values \X Nat
          /\ incidents[id] \in IncidentType

\* "A chain completes when all required stages are matched": no incident is COMPLETED
\* before - every stage of its definition that is not optional was matched, ordered ones
\* in their turn, or one that is a branch.  Definitions loaded meanwhile void this.
IncidentsAreEarned ==
    \A id \in DOMAIN incidents :
        LET i == incidents[id] IN
        i.state = "completed" /\ i.pure =>
            \/ \A n \in DOMAIN i.from.stages :
                   i.from.stages[n].type = "optional" \/ i.from.stages[n].id \in i.matched
            \/ \E n \in DOMAIN i.from.stages :
                   i.from.stages[n].type = "branch" /\ i.from.stages[n].id \in i.matched

\* A chain makes one incident, whose state is final: what completed never expires, what
\* expired never completes, and neither is replaced.
IncidentsAreFinalStep ==
    \A id \in DOMAIN incidents \cap DOMAIN incidents' : incidents'[id] = incidents[id]
IncidentsAreFinal == [][IncidentsAreFinalStep]_correlationVars

\* "A chain completes when all required stages are matched": no chain is active still.
RequiredMeansComplete ==
    \A cv \in Chains \X Values :
        active[cv] # None /\ active[cv].pure => ~AllRequired(active[cv].from, active[cv])
=============================================================================
