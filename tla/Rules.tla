------------------------------- MODULE Rules -------------------------------
(***************************************************************************)
(* The rule engine of the agent: security_agent/rules.                     *)
(*                                                                         *)
(* A file of rules is validated and compiled as a whole, then added to     *)
(* what the engine already has.  The expressions of a rule are compiled    *)
(* into a table by field, which the evaluation of its conditions uses.     *)
(*                                                                         *)
(* The conditions of a rule are a tree; here they are its nodes in the     *)
(* order the code walks them, the root first, and a composite one has the  *)
(* places of its members.                                                  *)
(*                                                                         *)
(* A value is a string or a number, each of its own kind: Number gives the *)
(* numeric value of those that have one.  A regular expression is [kind,   *)
(* exact, folded]: the values it matches, and the ones that it matches     *)
(* when case is ignored; its kind is "empty", "invalid" or "pattern".      *)
(***************************************************************************)
EXTENDS Naturals, Sequences, FiniteSets

CONSTANTS RuleFileContents, \* the files that may be loaded: sequences of rules
          EventInputs,      \* the events that may be evaluated: functions from field names
          Number,           \* the numeric value of the values that have one
          MaxRules          \* bound on the rules of the engine

ConditionOp == {"equals", "not_equals", "contains", "regex", "starts_with", "ends_with",
                "exists", "missing", "gt", "gte", "lt", "lte"}
LogicalOp == {"and", "or", "not"}

Composite(node) == "logical" \in DOMAIN node
Leaves(conditions) == {i \in DOMAIN conditions : ~Composite(conditions[i])}

IsTree(conditions) ==
    /\ conditions \in Seq({conditions[i] : i \in DOMAIN conditions}) /\ conditions # <<>>
    /\ \A i \in DOMAIN conditions \ Leaves(conditions) :
           conditions[i].members \subseteq i + 1 .. Len(conditions)

ASSUME RulesAssumption ==
    /\ MaxRules \in Nat
    /\ \A file \in RuleFileContents :
           /\ file \in Seq({file[i] : i \in DOMAIN file})
           /\ \A i \in DOMAIN file : IsTree(file[i].conditions)

VARIABLES
    rules,    \* RuleEngine._rules
    compiled, \* RuleEngine._compiled: for the id of each rule, the expression of each field
    enabled,  \* RuleEngine._enabled_rules
    matches   \* the last event evaluated, the places of the rules asked and of those that matched

ruleVars == <<rules, compiled, enabled, matches>>

NoMatches == [event |-> <<>>, asked |-> {}, found |-> {}]

RulesInit ==
    /\ rules = <<>>
    /\ compiled = <<>>
    /\ enabled = {}
    /\ matches = NoMatches

-----------------------------------------------------------------------------
(* Validation and compilation *)

\* _validate_conditions.
ValidConditions(conditions) ==
    \A i \in DOMAIN conditions :
        IF Composite(conditions[i])
        THEN conditions[i].logical \in LogicalOp /\ conditions[i].members # {}
        ELSE conditions[i].operator \in ConditionOp

\* validate_rules, and the ranges that Rule itself checks.
ValidRules(file) ==
    /\ \A i \in DOMAIN file : /\ file[i].id # "" /\ file[i].severity \in 0 .. 10
                              /\ ValidConditions(file[i].conditions)
    /\ \A i, j \in DOMAIN file : file[i].id = file[j].id => i = j

Join(f, g) == [x \in DOMAIN f \cup DOMAIN g |-> IF x \in DOMAIN g THEN g[x] ELSE f[x]]

\* The leaves that compile_rule compiles; the empty expression it leaves alone.
Regexes(conditions) ==
    {i \in Leaves(conditions) : /\ conditions[i].operator = "regex"
                                /\ conditions[i].value.kind # "empty"}

\* compile_rule: the table of expressions by field; of two on one field, the later stays.  A
\* compiled one, with re.IGNORECASE, is the set of the values that it matches.
Expressions(conditions) ==
    [f \in {conditions[i].field : i \in Regexes(conditions)} |->
        LET of == {i \in Regexes(conditions) : conditions[i].field = f}
        IN conditions[CHOOSE i \in of : \A j \in of : j <= i].value.folded]

Compiles(rule) ==
    \A i \in Regexes(rule.conditions) : rule.conditions[i].value.kind # "invalid"

-----------------------------------------------------------------------------
(* Evaluation *)

IsNumber(v) == v \in DOMAIN Number
Compares(op, v, w) ==
    /\ IsNumber(v) /\ IsNumber(w)
    /\ CASE op = "gt" -> Number[v] > Number[w]
         [] op = "gte" -> Number[v] >= Number[w]
         [] op = "lt" -> Number[v] < Number[w]
         [] op = "lte" -> Number[v] <= Number[w]

\* What evaluate_condition makes of a leaf, with a table of expressions.  One that is not in the
\* table is compiled on the spot, and case is not ignored then.
Matches(leaf, event, table) ==
    CASE leaf.operator = "exists" -> leaf.field \in DOMAIN event
      [] leaf.operator = "missing" -> leaf.field \notin DOMAIN event
      [] leaf.operator \notin {"exists", "missing"} ->
             /\ leaf.field \in DOMAIN event
             /\ LET v == event[leaf.field]
                    w == leaf.value
                IN CASE leaf.operator = "equals" -> v = w
                     [] leaf.operator = "not_equals" -> v # w
                     [] leaf.operator \in {"gt", "gte", "lt", "lte"} ->
                            Compares(leaf.operator, v, w)
                     [] leaf.operator = "regex" ->
                            v \in (IF leaf.field \in DOMAIN table THEN table[leaf.field]
                                   ELSE w.exact)
                     [] OTHER -> v \in w

\* What it makes of the tree, from the leaves that match up to the root: all, any, not any.
Combine(node, holds) ==
    CASE node.logical = "and" -> \A m \in node.members : holds[m]
      [] node.logical = "or" -> \E m \in node.members : holds[m]
      [] node.logical = "not" -> ~\E m \in node.members : holds[m]
Holds(conditions, found) ==
    LET holds[i \in DOMAIN conditions] ==
            IF i \in Leaves(conditions) THEN i \in found ELSE Combine(conditions[i], holds)
    IN holds[1]

Evaluate(conditions, event, table) ==
    Holds(conditions, {i \in Leaves(conditions) : Matches(conditions[i], event, table)})

-----------------------------------------------------------------------------
(* RuleEngine *)

TablesOf(file) ==
    [id \in {file[i].id : i \in DOMAIN file} |->
        LET i == CHOOSE j \in DOMAIN file : file[j].id = id IN Expressions(file[i].conditions)]

\* The loader reads a file, all of it or nothing; the engine adds its rules to those that it has,
\* whether it has them already or not, and enables those that say so.
LoadRules(file) ==
    /\ ValidRules(file) /\ \A i \in DOMAIN file : Compiles(file[i])
    /\ Len(rules) + Len(file) <= MaxRules
    /\ rules' = rules \o file
    /\ compiled' = Join(compiled, TablesOf(file))
    /\ enabled' = enabled \cup {file[i].id : i \in {j \in DOMAIN file : file[j].enabled}}
    /\ UNCHANGED matches

EnableRule(id) ==
    /\ \E i \in DOMAIN rules : rules[i].id = id
    /\ enabled' = enabled \cup {id}
    /\ UNCHANGED <<rules, compiled, matches>>

DisableRule(id) ==
    /\ enabled' = enabled \ {id}
    /\ UNCHANGED <<rules, compiled, matches>>

\* One table of expressions for all the rules.
TableOfAll(rule) ==
    LET with(f) == {id \in DOMAIN compiled : f \in DOMAIN compiled[id]}
    IN [f \in UNION {DOMAIN compiled[id] : id \in DOMAIN compiled} |->
           compiled[CHOOSE id \in with(f) : TRUE][f]]
TableFor(rule) == compiled[rule.id]

\* evaluate: every rule that is enabled, with the table of its id.
EvaluateEvent(event) ==
    /\ LET asked == {i \in DOMAIN rules : rules[i].id \in enabled}
       IN matches' = [event |-> event, asked |-> asked,
                      found |-> {i \in asked : Evaluate(rules[i].conditions, event,
                                                        TableFor(rules[i]))}]
    /\ UNCHANGED <<rules, compiled, enabled>>

ClearRules ==
    /\ rules' = <<>> /\ compiled' = <<>> /\ enabled' = {}
    /\ matches' = NoMatches

RulesNext ==
    \/ \E file \in RuleFileContents : LoadRules(file)
    \/ \E file \in RuleFileContents, i \in 1 .. MaxRules :
           i \in DOMAIN file /\ (EnableRule(file[i].id) \/ DisableRule(file[i].id))
    \/ \E event \in EventInputs : EvaluateEvent(event)
    \/ ClearRules

RulesSpec == RulesInit /\ [][RulesNext]_ruleVars

-----------------------------------------------------------------------------

RulesTypeOK ==
    /\ Len(rules) <= MaxRules /\ ValidRules(<<>>)
    /\ \A i \in DOMAIN rules : ValidConditions(rules[i].conditions)
    /\ DOMAIN compiled = {rules[i].id : i \in DOMAIN rules}
    /\ enabled \subseteq DOMAIN compiled
    /\ matches.event \in EventInputs \cup {<<>>}

\* Each field of the rule is asked for one expression at most.
Unambiguous(rule) ==
    LET nodes == rule.conditions
    IN \A i \in Regexes(nodes), j \in Leaves(nodes) :
           nodes[j].operator = "regex" /\ nodes[i].field = nodes[j].field => i = j

\* What a leaf of nodes says by itself: of an expression, its own, whatever the case.
Says(nodes, i, event) ==
    IF i \in Regexes(nodes)
    THEN nodes[i].field \in DOMAIN event /\ event[nodes[i].field] \in nodes[i].value.folded
    ELSE Matches(nodes[i], event, <<>>)
AsWritten(nodes, event) == Holds(nodes, {i \in Leaves(nodes) : Says(nodes, i, event)})

\* A compiled rule means what its conditions say, through reloading, disabling and clearing: a
\* rule with one expression a field, whose id no other rule shares, matches the events that its
\* own conditions match, each expression taken by itself and without regard to case, and never
\* by the expression of another condition or rule, nor by one that was not compiled.
MatchesAsWritten ==
    \A i \in matches.asked :
        /\ Unambiguous(rules[i])
        /\ \A j \in DOMAIN rules : rules[j].id = rules[i].id => rules[j] = rules[i]
        => (i \in matches.found <=> AsWritten(rules[i].conditions, matches.event))
=============================================================================
