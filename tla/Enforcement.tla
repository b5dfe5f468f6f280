---------------------------- MODULE Enforcement ----------------------------
(***************************************************************************)
(* Bans of the security agent, from the decision to the packet filter:     *)
(* security_agent/ban and security_agent/firewall.                         *)
(*                                                                         *)
(* BanEngine.decide judges an entity in one go.  What follows is a task of *)
(* its own: FirewallManager turns the verdict into an operation, and the   *)
(* iptables backend runs a command for it, awaits its end, and notes what  *)
(* it wants blocked.  Tasks for one entity overlap, and a command that     *)
(* times out is not killed: it may still work after its task gave up.      *)
(*                                                                         *)
(* The chain of the packet filter is external.  A ban appends a rule with  *)
(* its reason as comment, a "tagged" rule; every other command names rules *)
(* without comment, "bare" ones, and does not see the tagged.              *)
(*                                                                         *)
(* Durations are left out: nothing takes a ban back when it has run out.   *)
(* So are metrics, backends other than iptables, and the parser of         *)
(* iptables-save, which nothing calls.  Entities are IPv4 addresses.       *)
(***************************************************************************)
EXTENDS Integers, FiniteSets

CONSTANTS Entities,
          Tasks,        \* the tasks that may be started, each once
          Policies,     \* the policies asked for, by name
          Threats,      \* the threat scores that are met
          Confidences,
          Reputations,
          None

ASSUME EnforcementAssumption ==
    /\ IsFiniteSet(Tasks)
    /\ Policies \subseteq {"aggressive", "balanced", "conservative", "learning", "custom"}
    /\ Threats \subseteq 0 .. 100
    /\ Confidences \subseteq 0 .. 100
    /\ Reputations \subseteq -100 .. 100

VARIABLES
    record,     \* record[e]: BanHistory, the bans counted and the level of the last
    whitelist,
    exempt,
    desired,    \* FirewallState._desired
    tagged,     \* tagged[e]: the rules that drop e and have a comment
    bare,       \* bare[e]: those without
    late,       \* late[k][e]: the commands that outlived their tasks
    task,       \* task[t]: where it is
    \* History, read by the properties only:
    judged,     \* judged[e]: verdicts on e while nothing protected it
    offence     \* offence[e]: what was last decided on

engine == <<record, whitelist, exempt>>
chain == <<tagged, bare, late>>
vars == <<engine, desired, chain, task, judged, offence>>

Levels == 0 .. 7
Offences == [policy : Policies, threat : Threats, confidence : Confidences, reputation : Reputations]
NoRecord == [bans |-> 0, level |-> 0]

\* add_rule with and without comment, remove_rule
Commands == {"tag", "add", "drop"}

Init ==
    /\ record = [e \in Entities |-> NoRecord]
    /\ whitelist = {}
    /\ exempt = {}
    /\ desired = {}
    /\ tagged = [e \in Entities |-> 0]
    /\ bare = [e \in Entities |-> 0]
    /\ late = [k \in Commands |-> [e \in Entities |-> 0]]
    /\ task = [t \in Tasks |-> [pc |-> "idle", todo |-> {}]]
    /\ judged = [e \in Entities |-> [warning |-> 0, ban |-> 0]]
    /\ offence = [e \in Entities |-> None]

-----------------------------------------------------------------------------
(* The decision *)

\* POLICY_DEFAULTS
Policy == [
    aggressive   |-> [threat |-> 20, confidence |-> 40, halved |-> TRUE,  max |-> 7, bans |-> TRUE],
    balanced     |-> [threat |-> 40, confidence |-> 60, halved |-> FALSE, max |-> 7, bans |-> TRUE],
    conservative |-> [threat |-> 60, confidence |-> 80, halved |-> FALSE, max |-> 6, bans |-> TRUE],
    learning     |-> [threat |-> 80, confidence |-> 90, halved |-> FALSE, max |-> 0, bans |-> FALSE],
    custom       |-> [threat |-> 40, confidence |-> 50, halved |-> FALSE, max |-> 7, bans |-> TRUE]]

BaseLevel(threat) ==
    CASE threat >= 90 -> 7
      [] threat \in 80 .. 89 -> 6
      [] threat \in 70 .. 79 -> 4
      [] threat \in 60 .. 69 -> 3
      [] threat \in 50 .. 59 -> 2
      [] OTHER -> 1

\* The engine caps the level after every addition; once, at the end, comes to the same.
CapWrapped(n, max) == n % (max + 1)
CapForgotten(n, max) == n
Cap(n, max) == IF n > max THEN max ELSE n

\* calculate_escalation; an escalation_rate above 1.0 counts every other earlier ban.
\* Level 0 is a warning.
Escalation(o, bans) ==
    LET p == Policy[o.policy] IN
    IF o.threat < p.threat \/ o.confidence < p.confidence \/ ~p.bans
    THEN 0
    ELSE Cap(  BaseLevel(o.threat)
             + (IF p.halved THEN bans \div 2 ELSE bans)
             + (IF o.reputation < -50 THEN 1 ELSE 0), p.max)

\* create_operation: what the firewall makes of a level.  A warning is "refreshed".
Operation(level) == IF level = 0 THEN "exists" ELSE "tag"

Skips(e) == e \in whitelist \cup exempt

\* decide and process_decision up to its first await
Decide(t, e, o) ==
    LET level == Escalation(o, record[e].bans) IN
    /\ task[t].pc = "idle"
    /\ \/ /\ Skips(e)
          /\ task' = [task EXCEPT ![t].pc = "done"]
          /\ UNCHANGED <<record, judged, offence>>
       \/ /\ ~Skips(e)
          /\ task' = [task EXCEPT ![t] = [pc |-> Operation(level), todo |-> {e}]]
          /\ record' = [record EXCEPT ![e] = [bans |-> @.bans + 1, level |-> level]]
          /\ judged' = IF e \in whitelist \cup exempt THEN judged
                       ELSE IF level = 0 THEN [judged EXCEPT ![e].warning = @ + 1]
                       ELSE [judged EXCEPT ![e].ban = @ + 1]
          /\ offence' = [offence EXCEPT ![e] = o]
    /\ UNCHANGED <<whitelist, exempt, desired, chain>>

\* whitelist_add, exemption_add and their opposites.  The firewall does not hear of it.
Protect(e) ==
    /\ \/ whitelist' \in {whitelist \cup {e}, whitelist \ {e}} /\ UNCHANGED exempt
       \/ exempt' \in {exempt \cup {e}, exempt \ {e}} /\ UNCHANGED whitelist
    /\ UNCHANGED <<record, desired, chain, task, judged, offence>>

-----------------------------------------------------------------------------
(* Commands *)

\* What a command does to the chain if it works.
Works(k, e) ==
    \/ k = "tag" /\ tagged' = [tagged EXCEPT ![e] = @ + 1] /\ UNCHANGED bare
    \/ k = "add" /\ bare' = [bare EXCEPT ![e] = @ + 1] /\ UNCHANGED tagged
    \/ k = "drop" /\ bare[e] > 0 /\ bare' = [bare EXCEPT ![e] = @ - 1] /\ UNCHANGED tagged

\* The task is through with e, and goes on to the next entity if it synchronizes.
End(t, e) ==
    task' = [task EXCEPT ![t] = [pc |-> IF task[t].pc = "sync" /\ task[t].todo # {e}
                                        THEN "sync" ELSE "done",
                                 todo |-> task[t].todo \ {e}]]

Succeeds(t, k, e) == Works(k, e) /\ End(t, e) /\ UNCHANGED late

\* The command fails, or times out before or after it worked.
GiveUp(t, e) == End(t, e)

Fails(t, k, e) ==
    /\ \/ UNCHANGED chain
       \/ late' = [late EXCEPT ![k][e] = @ + 1] /\ UNCHANGED <<tagged, bare>>
       \/ Works(k, e) /\ UNCHANGED late
    /\ GiveUp(t, e)

\* A command whose task gave up on it works after all.
LateCommand(k, e) ==
    /\ late[k][e] > 0
    /\ Works(k, e)
    /\ late' = [late EXCEPT ![k][e] = @ - 1]
    /\ UNCHANGED <<engine, desired, task, judged, offence>>

-----------------------------------------------------------------------------
(* IptablesBackend *)

WantAlways(worked, e) == desired \cup {e}
Want(worked, e) == IF worked THEN desired \cup {e} ELSE desired

\* apply, of a BAN
Ban(t, e) ==
    /\ task[t].pc = "tag" /\ e \in task[t].todo
    /\ \/ Succeeds(t, "tag", e) /\ desired' = Want(TRUE, e)
       \/ Fails(t, "tag", e) /\ desired' = Want(FALSE, e)
    /\ UNCHANGED <<engine, judged, offence>>

\* apply, of a REFRESH: first rule_exists, which answers no when it fails ...
Exists(t, e) ==
    /\ task[t].pc = "exists" /\ e \in task[t].todo
    /\ \/ task' = [task EXCEPT ![t].pc = "add"]
       \/ bare[e] > 0 /\ End(t, e)
    /\ UNCHANGED <<engine, desired, chain, judged, offence>>

\* ... then add_rule, which is not noted as desired.
Refresh(t, e) ==
    /\ task[t].pc = "add" /\ e \in task[t].todo
    /\ Succeeds(t, "add", e) \/ Fails(t, "add", e)
    /\ UNCHANGED <<engine, desired, judged, offence>>

\* remove_operation
Unban(t, e) ==
    /\ task[t].pc = "idle"
    /\ task' = [task EXCEPT ![t] = [pc |-> "drop", todo |-> {e}]]
    /\ UNCHANGED <<engine, desired, chain, judged, offence>>

RemoveRule(t, e) ==
    /\ task[t].pc = "drop" /\ e \in task[t].todo
    /\ \/ Succeeds(t, "drop", e) /\ desired' = desired \ {e}
       \/ Fails(t, "drop", e) /\ UNCHANGED desired
    /\ UNCHANGED <<engine, judged, offence>>

\* synchronize.  list_rules parses what iptables wrote to stderr, which is nothing:
\* no rule is ever found, so that all that is desired is added again, one after the other.
Synchronize(t) ==
    /\ task[t].pc = "idle" /\ desired # {}
    /\ task' = [task EXCEPT ![t] = [pc |-> "sync", todo |-> desired]]
    /\ UNCHANGED <<engine, desired, chain, judged, offence>>

Readd(t, e) ==
    /\ task[t].pc = "sync" /\ e \in task[t].todo
    /\ Succeeds(t, "add", e) \/ Fails(t, "add", e)
    /\ UNCHANGED <<engine, desired, judged, offence>>

\* The agent ends and starts again: it has nothing on disk, and the chain stays.  Commands
\* under way may work all the same.
Underway(k, e) == {t \in Tasks : task[t].pc \in {k} \cup (IF k = "add" THEN {"sync"} ELSE {})
                                 /\ e \in task[t].todo}
Cut == [t \in Tasks |-> IF task[t].pc = "idle" THEN task[t] ELSE [pc |-> "done", todo |-> {}]]

Restart ==
    /\ desired # {} \/ \E e \in Entities : record[e] # NoRecord
    /\ record' = [e \in Entities |-> NoRecord]
    /\ whitelist' = {} /\ exempt' = {} /\ desired' = {}
    /\ task' = Cut
    /\ late' = [k \in Commands |-> [e \in Entities |->
                   late[k][e] + Cardinality(Underway(k, e))]]
    /\ UNCHANGED <<tagged, bare, judged, offence>>

Next ==
    \/ \E t \in Tasks, e \in Entities :
          \/ \E o \in Offences : Decide(t, e, o)
          \/ Ban(t, e) \/ Exists(t, e) \/ Refresh(t, e)
          \/ Unban(t, e) \/ RemoveRule(t, e) \/ Readd(t, e)
    \/ \E t \in Tasks : Synchronize(t)
    \/ \E k \in Commands, e \in Entities : LateCommand(k, e)
    \/ \E e \in Entities : Protect(e)
    \/ Restart

Spec == Init /\ [][Next]_vars

-----------------------------------------------------------------------------
\* Every variable has the shape the code gives it.
TypeOK ==
    /\ record \in [Entities -> [bans : Nat, level : Levels]]
    /\ whitelist \subseteq Entities
    /\ exempt \subseteq Entities
    /\ desired \subseteq Entities
    /\ tagged \in [Entities -> Nat]
    /\ bare \in [Entities -> Nat]
    /\ late \in [Commands -> [Entities -> Nat]]
    /\ task \in [Tasks -> [pc : {"idle", "exists", "done", "sync"} \cup Commands,
                           todo : SUBSET Entities]]
    /\ judged \in [Entities -> [warning : Nat, ban : Nat]]
    /\ offence \in [Entities -> Offences \cup {None}]

Blocked(e) == tagged[e] + bare[e] > 0

\* Someone is about to block e.
Pursued(e) ==
    \/ e \in desired
    \/ late["tag"][e] + late["add"][e] > 0
    \/ \E t \in Tasks : e \in task[t].todo /\ task[t].pc \in {"exists", "tag", "add", "sync"}

\* Nobody's packets are dropped, now or by what is under way, who was not judged at a
\* time when neither whitelist nor exemption protected him; late commands, repeated
\* synchronizations and restarts included.
OnlyTheJudgedAreBlocked ==
    \A e \in Entities : Blocked(e) \/ Pursued(e) => judged[e] # [warning |-> 0, ban |-> 0]

\* What the backend believes blocked is blocked, whichever bans, removals,
\* synchronizations and late commands crossed on it.
DesiredIsBlocked == \A e \in desired : tagged[e] > 0

\* One ban appends one tagged rule at most: those there are, and those that may come,
\* are not more than the bans that were decided.
OneRulePerBan ==
    \A e \in Entities :
        tagged[e] + late["tag"][e] + Cardinality(Underway("tag", e)) <= judged[e].ban

\* Together: the chain, the backend's belief and the verdicts agree, through time-outs,
\* crossings and restarts.
EnforcementIsSound == OnlyTheJudgedAreBlocked /\ DesiredIsBlocked /\ OneRulePerBan

\* "Escalation must always be reproducible": who does the same again is never judged
\* more mildly than the time before.
NeverMilderStep ==
    \A e \in Entities :
        record'[e].bans > record[e].bans /\ record[e].bans > 0 /\ offence'[e] = offence[e]
            => record'[e].level >= record[e].level
NeverMilder == [][NeverMilderStep]_vars

\* "Warnings only, no bans during learning": a warning drops nobody's packets.
WarningsDoNotBlock == \A e \in Entities : Blocked(e) => judged[e].ban > 0
=============================================================================
