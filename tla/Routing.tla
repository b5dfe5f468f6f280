------------------------------ MODULE Routing ------------------------------
(***************************************************************************)
(* Routing of events to destinations, on the management server:            *)
(* management_server/src/management_server/routing.                        *)
(*                                                                         *)
(* A process loads the rules at its start and when it is asked to.  They   *)
(* are saved in the database one by one before they take effect together;  *)
(* meanwhile events are evaluated by those in effect, and another reload   *)
(* may start.                                                              *)
(*                                                                         *)
(* The policy, state, severity and environment that a rule asks for are    *)
(* treated alike, and severity stands for them.  Patterns are "*" or the   *)
(* value itself.  Profiles are read and used by nothing.                   *)
(***************************************************************************)
EXTENDS Naturals, Sequences, FiniteSets, Selection

CONSTANTS RuleFiles,    \* contents of the directory of rules, over time: sequences of rules
          RoutedEvents, \* the events to route
          Routers,      \* the worker processes
          Reloads,      \* the reloads that may be asked for, each of one process
          MaxDecisions, \* bound on the rows of decisions
          NoRouter      \* no process

EventType == {"heartbeat", "critical_alert", "warning", "machine_online", "machine_offline",
              "registration", "policy_change", "certificate_expiring", "audit_event"}
Destination == {"discord", "email", "webhook", "syslog", "dashboard", "archive", "console",
                "none"}
Priority == {"immediate", "high", "normal", "low", "bulk"}
Template == {"minimal", "detailed", "discord_embed", "markdown", "json"}

Elements(s) == {s[i] : i \in DOMAIN s}

ASSUME RoutingAssumption ==
    /\ NoRouter \notin Routers
    /\ \A rules \in RuleFiles : /\ rules \in Seq(Elements(rules))
                               /\ \A rule \in Elements(rules) : rule.priority \in Priority

VARIABLES
    directory,  \* the rules on disk
    active,     \* active[w]: the rules of the matcher of process w
    reload,     \* reload[l]: the handler of reload l, and the valid rules that it has still to save
    ruleRows,   \* the names in the table of rules
    decisions   \* the decisions made, with the rules and the event each was made of

routingVars == <<directory, active, reload, ruleRows, decisions>>

IdleReload == [pc |-> "idle", router |-> NoRouter, todo |-> <<>>, valid |-> <<>>]

RoutingInit ==
    /\ directory \in RuleFiles
    /\ active = [w \in Routers |-> <<>>]
    /\ reload = [l \in Reloads |-> IdleReload]
    /\ ruleRows = {}
    /\ decisions = {}

-----------------------------------------------------------------------------
(* RoutingMatcher *)

MatchField(value, patterns) == patterns = {} \/ value \in patterns \/ "*" \in patterns

\* _rule_matches.  A flag that the event leaves out matches neither value.
RuleMatches(rule, event) ==
    /\ MatchField(event.type, rule.event_types)
    /\ rule.match_severity # "" => MatchField(event.severity, {rule.match_severity})
    /\ \A f \in DOMAIN rule.match_feature_flags :
           f \in DOMAIN event.feature_flags /\ event.feature_flags[f] = rule.match_feature_flags[f]
    /\ rule.match_capabilities \subseteq event.capabilities

\* match: all of them, in order.
Match(rules, event) ==
    Sifted(rules, {rule \in Elements(rules) : rule.enabled /\ RuleMatches(rule, event)})

\* match_first: the position of the first of them, 0 if there is none.
AnyMatches(rules, event) == {i \in DOMAIN rules : RuleMatches(rules[i], event)}
EnabledMatches(rules, event) ==
    {i \in DOMAIN rules : rules[i].enabled /\ RuleMatches(rules[i], event)}
MatchFirst(rules, event) ==
    LET fit == EnabledMatches(rules, event)
    IN  IF fit = {} THEN 0 ELSE CHOOSE i \in fit : \A j \in fit : i <= j

\* RoutingEvaluator.evaluate: the rule's decision, or the default one.
DefaultDecision == [rule |-> "__default__", destinations |-> {"console"}, priority |-> "low",
                    template |-> "minimal"]
FromRule(rule) == [rule |-> rule.name, destinations |-> rule.destinations,
                   priority |-> rule.priority, template |-> rule.template]
Evaluate(rules, event) ==
    IF MatchFirst(rules, event) = 0 THEN DefaultDecision
    ELSE FromRule(rules[MatchFirst(rules, event)])

-----------------------------------------------------------------------------
(* RoutingService *)

\* validate_rule, with the names of the rules before it; other fields are valid once parsed.
ValidRule(rule, names) ==
    /\ rule.name # "" /\ rule.name \notin names
    /\ rule.event_types \subseteq EventType \cup {"*"}
    /\ rule.destinations \subseteq Destination

NamesOf(rules) == {rules[i].name : i \in DOMAIN rules}

\* An unknown template is no load error, but breaks the reading of all files.
Parses(rules) == \A i \in DOMAIN rules : rules[i].template \in Template

EditRules == /\ directory' \in RuleFiles \ {directory}
             /\ UNCHANGED <<active, reload, ruleRows, decisions>>

\* load_config as far as the first save.  Without rules the old ones stay in effect.
LoadConfig(l, w) ==
    /\ reload[l].pc = "idle"
    /\ reload' = [reload EXCEPT ![l] =
           [pc |-> IF ~Parses(directory) THEN "failed"
                   ELSE IF directory = <<>> THEN "answered" ELSE "saving",
            router |-> w, todo |-> directory, valid |-> <<>>]]
    /\ UNCHANGED <<directory, active, ruleRows, decisions>>

\* The next rule: skipped, or saved and kept.
SaveRule(l) ==
    LET rule == Head(reload[l].todo)
        good == ValidRule(rule, NamesOf(reload[l].valid))
    IN  /\ reload[l].pc = "saving" /\ reload[l].todo # <<>>
        /\ ruleRows' = IF good THEN ruleRows \cup {rule.name} ELSE ruleRows
        /\ reload' = [reload EXCEPT ![l].todo = Tail(@),
                                    ![l].valid = IF good THEN Append(@, rule) ELSE @]
        /\ UNCHANGED <<directory, active, decisions>>

\* set_rules
AllSaved(l) == reload[l].todo = <<>>
SetRules(l) ==
    /\ reload[l].pc = "saving" /\ AllSaved(l)
    /\ active' = [active EXCEPT ![reload[l].router] = reload[l].valid]
    /\ reload' = [reload EXCEPT ![l].pc = "answered"]
    /\ UNCHANGED <<directory, ruleRows, decisions>>

\* A save fails, and with it the reload.
ReloadFails(l) ==
    /\ reload[l].pc = "saving" /\ reload[l].todo # <<>>
    /\ reload' = [reload EXCEPT ![l].pc = "failed"]
    /\ UNCHANGED <<directory, active, ruleRows, decisions>>

\* evaluate and save_decision.
Route(w, event) ==
    /\ Cardinality(decisions) < MaxDecisions
    /\ decisions' = decisions \cup
           {[of |-> active[w], event |-> event, decision |-> Evaluate(active[w], event)]}
    /\ UNCHANGED <<directory, active, reload, ruleRows>>

RoutingNext ==
    \/ EditRules
    \/ \E l \in Reloads : \/ \E w \in Routers : LoadConfig(l, w)
                          \/ SaveRule(l) \/ SetRules(l) \/ ReloadFails(l)
    \/ \E w \in Routers, event \in RoutedEvents : Route(w, event)

RoutingSpec == RoutingInit /\ [][RoutingNext]_routingVars

-----------------------------------------------------------------------------
RoutingTypeOK ==
    /\ directory \in RuleFiles
    /\ \A l \in Reloads : reload[l].router \in Routers \cup {NoRouter}
    /\ \A d \in decisions : /\ d.decision.destinations \subseteq Destination
                            /\ d.decision.priority \in Priority
                            /\ d.decision.template \in Template

\* A decision is that of the first rule that is enabled and matches, and the default one only if
\* there is none, under rules that were in effect together: all the valid rules of one state of
\* the directory, or none before the first reload.
KeptUpTo(rules) ==
    LET kept[i \in 0 .. Len(rules)] ==
            IF i = 0 THEN <<>>
            ELSE IF ValidRule(rules[i], NamesOf(kept[i - 1])) THEN Append(kept[i - 1], rules[i])
            ELSE kept[i - 1]
    IN  kept
ValidRules(rules) == KeptUpTo(rules)[Len(rules)]
DecidedByWholeRules ==
    \A d \in decisions :
        /\ d.of = <<>> \/ \E rules \in RuleFiles : d.of = ValidRules(rules)
        /\ d.decision = LET fit == Match(d.of, d.event)
                        IN  IF fit = <<>> THEN DefaultDecision ELSE FromRule(Head(fit))

\* What is in effect is in the table, whichever reloads crossed, failed or replaced it.
ActiveRulesHaveRows == \A w \in Routers : NamesOf(active[w]) \subseteq ruleRows

\* Together: which rules are in effect is one state of the directory, at any time of a reload.
RoutingIsSound == DecidedByWholeRules /\ ActiveRulesHaveRows
=============================================================================
