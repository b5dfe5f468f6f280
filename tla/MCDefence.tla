-------------------------------- MODULE MCDefence ----------------------------
(***************************************************************************)
(* Small instances for TLC of what the agent judges by: detectors, rules,  *)
(* threats, reputation, and bans.  In this code they share no state, so a  *)
(* behaviour here is one of one component, and the run explores the sum    *)
(* of their states and not the product.                                    *)
(***************************************************************************)
EXTENDS Enforcement, Threats, Rules, SshDetector, Detectors, TLC

VARIABLE part

DefenceInit ==
    /\ part \in {"enforcement", "threats", "rules", "ssh", "detectors"}
    /\ Init /\ ThreatsInit /\ RulesInit /\ SshInit /\ DetectorsInit
    \* What a component starts from varies in its own behaviours only.
    /\ part # "detectors" => analysis.event = CHOOSE e \in AnalyzedEvents : TRUE

\* A step of part p, which leaves every other part alone.
Of(p) ==
    /\ part = p /\ UNCHANGED part
    /\ IF p = "enforcement" THEN TRUE ELSE UNCHANGED vars
    /\ IF p = "threats" THEN TRUE ELSE UNCHANGED threatVars
    /\ IF p = "rules" THEN TRUE ELSE UNCHANGED ruleVars
    /\ IF p = "ssh" THEN TRUE ELSE UNCHANGED sshVars
    /\ IF p = "detectors" THEN TRUE ELSE UNCHANGED detectorVars

DefenceNext ==
    \/ \E t \in Tasks, e \in Entities, o \in Offences :
          \/ Of("enforcement") /\ Decide(t, e, o)
    \/ \E t \in Tasks, e \in Entities :
          \/ Of("enforcement") /\ Ban(t, e)
          \/ Of("enforcement") /\ Exists(t, e)
          \/ Of("enforcement") /\ Refresh(t, e)
          \/ Of("enforcement") /\ Unban(t, e)
          \/ Of("enforcement") /\ RemoveRule(t, e)
          \/ Of("enforcement") /\ Readd(t, e)
    \/ \E t \in Tasks :
          \/ Of("enforcement") /\ Synchronize(t)
    \/ \E k \in Commands, e \in Entities :
          \/ Of("enforcement") /\ LateCommand(k, e)
    \/ \E e \in Entities :
          \/ Of("enforcement") /\ Protect(e)
    \/ Of("enforcement") /\ Restart
    \/ \E i \in ThreatIncidents, c, r \in Severities :
          \/ Of("threats") /\ Assess(i, c, r)
    \/ \E e \in ScoredEntities, a \in assessments, repeat \in BOOLEAN, b \in {0, 1} :
          \/ Of("threats") /\ ProcessThreat(e, a, repeat, b)
    \/ \E e \in ScoredEntities, p \in Praise :
          \/ Of("threats") /\ ProcessPositive(e, p)
    \/ Of("threats") /\ ApplyDecay
    \/ Of("threats") /\ Elapse
    \/ \E f \in RuleFileContents :
          \/ Of("rules") /\ LoadRules(f)
    \/ \E f \in RuleFileContents, i \in 1 .. MaxRules :
          \/ i \in DOMAIN f /\ Of("rules") /\ EnableRule(f[i].id)
          \/ i \in DOMAIN f /\ Of("rules") /\ DisableRule(f[i].id)
    \/ \E event \in EventInputs :
          \/ Of("rules") /\ EvaluateEvent(event)
    \/ Of("rules") /\ ClearRules
    \/ \E a \in Addresses, u \in Users, f \in Forms :
          \/ Of("ssh") /\ FailedPassword(a, u, f)
          \/ Of("ssh") /\ AcceptedPassword(a, u, f)
          \/ Of("ssh") /\ Unheeded(a, u, f)
    \/ Of("ssh") /\ PassSecond
    \/ \E n \in DetectorNames :
          \/ Of("detectors") /\ RegisterDetector(n)
          \/ Of("detectors") /\ UnregisterDetector(n)
    \/ \E n \in DetectorNames, on \in BOOLEAN :
          \/ Of("detectors") /\ SetEnabled(n, on)
    \/ Of("detectors") /\ InitializeAllDetectors
    \/ Of("detectors") /\ InitializeAllEnds
    \/ Of("detectors") /\ ShutdownAllDetectors
    \/ \E fails \in BOOLEAN :
          \/ Of("detectors") /\ InitializeDetector(fails)
    \/ \E e \in AnalyzedEvents :
          \/ Of("detectors") /\ BeginAnalysis(e)
    \/ Of("detectors") /\ SkipDetector
    \/ Of("detectors") /\ DetectorRaises
    \/ Of("detectors") /\ AnalysisCancelled
    \/ Of("detectors") /\ AnalysisReturns
    \/ \E finds \in BOOLEAN :
          \/ Of("detectors") /\ DetectorAnswers(finds)

defenceVars ==
    <<part, vars, threatVars, ruleVars, sshVars, detectorVars>>

DefenceSpec == DefenceInit /\ [][DefenceNext]_defenceVars

\* The behaviours of one component alone.
EnforcementAlone == DefenceInit /\ part = "enforcement" /\ [][DefenceNext]_defenceVars

\* Every variable of every component has the shape the code gives it.
DefenceTypeOK ==
    /\ TypeOK /\ ThreatsTypeOK /\ RulesTypeOK /\ SshTypeOK /\ DetectorsTypeOK

\* Tasks and entities are alike.
Symmetry == Permutations(Tasks) \cup Permutations(Entities)

-----------------------------------------------------------------------------
(* Enforcement *)

\* One verdict of each kind: a warning, bans that escalate, and a permanent one.
SomeThreats == {55, 95}
SomeConfidences == {70}
SomeReputations == {0}

-----------------------------------------------------------------------------
(* Threats *)

AnIncident(modifier, progress, count, completed) ==
    [modifier |-> modifier, progress |-> progress, rules |-> count, completed |-> completed]

\* A serious one, one that hardly is, and one that is at every limit.
SomeIncidents == {AnIncident(45, 100, 1, TRUE), AnIncident(5, 0, 0, FALSE),
                  AnIncident(100, 100, 10, TRUE)}

-----------------------------------------------------------------------------
(* Rules *)

Leaf(operator, field, value) == [operator |-> operator, field |-> field, value |-> value]
Logic(logical, members) == [logical |-> logical, members |-> members]
ARule(id, on, conditions) == [id |-> id, enabled |-> on, severity |-> 5, conditions |-> conditions]

Pattern(exact, folded) == [kind |-> "pattern", exact |-> exact, folded |-> folded]
Sshd == Pattern({"sshd"}, {"sshd", "SSHD"})
CronJob == Pattern({"cron"}, {"cron"})
Anything == [kind |-> "empty", exact |-> {"sshd", "SSHD", "cron", "sudo"}, folded |-> {}]
NotOne == [kind |-> "invalid", exact |-> {}, folded |-> {}]

Ssh == ARule("ssh", TRUE, <<Logic("and", {2, 3}), Leaf("regex", "source", Sshd),
                            Leaf("gte", "severity", "5")>>)
Either == ARule("both", TRUE, <<Logic("or", {2, 3}), Leaf("regex", "source", Sshd),
                                Leaf("regex", "source", CronJob)>>)
Absent == ARule("absent", FALSE, <<Logic("not", {2, 3}), Leaf("exists", "source", ""),
                                   Logic("or", {4}), Leaf("equals", "severity", "7")>>)
OtherSsh == ARule("ssh", TRUE, <<Leaf("regex", "source", CronJob)>>)
Cron == ARule("cron", TRUE, <<Logic("and", {2, 3}), Leaf("regex", "source", CronJob),
                              Leaf("regex", "origin", Anything)>>)
Bad == ARule("bad", TRUE, <<Leaf("regex", "source", NotOne)>>)

\* Also: two expressions for a field, an id twice, in two files and in one, one that is no
\* expression.
SomeFiles == {<<Ssh, Absent>>, <<Absent, Ssh>>, <<Either>>, <<OtherSsh>>, <<Cron>>, <<Ssh, Bad>>,
              <<Ssh, Ssh>>}
SomeInputs == {[source |-> "sshd", severity |-> "7"], [source |-> "SSHD", severity |-> "5"],
               [source |-> "cron", origin |-> "sudo", severity |-> "5"],
               [source |-> "sudo", severity |-> "3"], [severity |-> "7"], [severity |-> "3"]}
Numbers == ("3" :> 3) @@ ("5" :> 5) @@ ("7" :> 7)

-----------------------------------------------------------------------------
(* Detectors: one for a type of event, one for a category *)

SomeDeclared == ("d1" :> [types |-> {1}, categories |-> {}])
                @@ ("d2" :> [types |-> {}, categories |-> {1}])
SomeAnalyzed == {[type |-> 1, category |-> 1], [type |-> 2, category |-> 1]}
=============================================================================
