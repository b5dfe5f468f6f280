------------------------------ MODULE Threats ------------------------------
(***************************************************************************)
(* Threat scoring and reputation in the agent: security_agent/threat and   *)
(* security_agent/reputation.                                              *)
(*                                                                         *)
(* An incident is assessed, and what the assessment says of an entity      *)
(* lowers its reputation; time and good conduct raise it again.  The       *)
(* arithmetic is done in floating point and rounded: it is modelled in     *)
(* whole parts of the unit, and where these end in a half the result may   *)
(* be rounded either way.  The clock counts halves of hours_per_point.     *)
(***************************************************************************)
EXTENDS Integers, FiniteSets

CONSTANTS ThreatIncidents, \* the incidents that may be assessed
          Severities,      \* the severities of chains
          ScoredEntities,        \* the entities with a reputation
          PositiveEvery,   \* every so many events a record is given some points back
          Praise,          \* the points that good conduct may be worth
          LastHalf,        \* bound on the clock
          MaxEvents        \* bound on the events of a record

RiskLevel == [informational |-> 0, low |-> 1, medium |-> 2, high |-> 3, critical |-> 4]
RecommendedAction == {"ignore", "monitor", "increase_reputation", "temporary_ban",
                      "permanent_ban", "notify_admin"}
REPUTATION_MIN == -100
REPUTATION_MAX == 100

ASSUME ThreatsAssumption ==
    /\ PositiveEvery \in Nat \ {0} /\ LastHalf \in Nat /\ MaxEvents \in Nat
    /\ Praise \subseteq Int /\ Severities \subseteq 0 .. 10
    /\ \A i \in ThreatIncidents : i.modifier \in Int /\ i.progress \in Int /\ i.rules \in Nat

VARIABLES
    assessments, \* the assessments made
    reputation,  \* ReputationStore._store: a record of each entity that has one
    contact,     \* history: the score each entity had after its last threat or praise, and when
    half         \* the clock

threatVars == <<assessments, reputation, contact, half>>

NoReputation == [seen |-> FALSE, score |-> 0, previous |-> 0, confidence |-> 0, last_seen |-> 0,
                 event_count |-> 0, ban_count |-> 0]

ThreatsInit ==
    /\ assessments = {}
    /\ reputation = [e \in ScoredEntities |-> NoReputation]
    /\ contact = [e \in ScoredEntities |-> [score |-> 0, at |-> 0]]
    /\ half = 0

-----------------------------------------------------------------------------
(* Arithmetic *)

AtLeast(lo, n) == IF n < lo THEN lo ELSE n
AtMost(hi, n) == IF n > hi THEN hi ELSE n
Clamp(lo, hi, n) == AtLeast(lo, AtMost(hi, n))

\* round(n / d), for a natural n.
Rounded(n, d) ==
    LET q == n \div d
        r == 2 * (n % d)
    IN IF r < d THEN {q} ELSE IF r > d THEN {q + 1} ELSE {q, q + 1}

-----------------------------------------------------------------------------
(* threat/scorer.py *)

\* calculate_threat_score, in tenths; matched stages out of ten.
ThreatScores(confidence, stages, severity, modifier) ==
    {Clamp(0, 100, s) : s \in Rounded(4 * confidence + 30 * stages + 20 * severity + modifier, 10)}

CalculateConfidence(incident_confidence, chain_confidence, rules) ==
    Clamp(0, 100, incident_confidence + chain_confidence + AtMost(20, 2 * rules))

CalculateSeverity(chain_severity, rule_severity) ==
    Clamp(0, 10, AtLeast(chain_severity, rule_severity))

ClassifyRisk(score) ==
    CASE score > 80 -> RiskLevel.critical
      [] score \in 61 .. 80 -> RiskLevel.high
      [] score \in 41 .. 60 -> RiskLevel.medium
      [] score \in 21 .. 40 -> RiskLevel.low
      [] OTHER -> RiskLevel.informational

\* A high risk of which the agent is not sure enough falls through to the end.
RecommendAction(risk, confidence, completed) ==
    CASE risk = RiskLevel.critical /\ confidence >= 70 ->
             IF completed THEN "permanent_ban" ELSE "temporary_ban"
      [] risk = RiskLevel.high /\ confidence >= 60 -> "temporary_ban"
      [] risk = RiskLevel.medium -> IF confidence >= 50 THEN "notify_admin" ELSE "monitor"
      [] risk = RiskLevel.low -> "monitor"
      [] OTHER -> "ignore"

\* assess_incident.  A chain's confidence is given by no caller.
Assessments(incident, chain_severity, rule_severity) ==
    LET severity == CalculateSeverity(chain_severity, rule_severity)
        confidence == CalculateConfidence(incident.modifier, 0, incident.rules)
        stages == IF incident.progress > 0 THEN incident.progress \div 10 ELSE 0
        Assessment(score) ==
            [incident |-> incident, confidence |-> confidence, score |-> score,
             severity |-> severity, risk |-> ClassifyRisk(score),
             action |-> RecommendAction(ClassifyRisk(score), confidence, incident.completed)]
    IN {Assessment(s) : s \in ThreatScores(confidence, stages, severity, incident.modifier)}

\* ThreatEngine.assess and assess_batch, one incident; nothing keeps the assessments but the
\* caller.
Assess(incident, chain_severity, rule_severity) ==
    /\ \E a \in Assessments(incident, chain_severity, rule_severity) :
           assessments' = assessments \cup {a}
    /\ UNCHANGED <<reputation, contact, half>>

-----------------------------------------------------------------------------
(* reputation/scoring.py and decay.py *)

\* calculate_score_change: the points that a threat costs, with everything over one denominator.
ScoreChanges(assessment, repeat, ban_count) ==
    LET n == 9 * assessment.score * assessment.confidence
               * (IF repeat THEN 3 ELSE 2)
               * AtMost(12, 4 + ban_count)
               * (IF assessment.risk >= RiskLevel.high THEN 13 ELSE 10)
    IN {Clamp(REPUTATION_MIN, REPUTATION_MAX, -p) : p \in Rounded(n, 160000)}

CalculatePositiveChange(event_count) ==
    IF event_count > 0 /\ event_count % PositiveEvery = 0 THEN 5 ELSE 0

\* calculate_decay: one point towards zero for every whole day since the record was last touched.
CalculateDecay(score, last_seen) ==
    LET points == (half - last_seen) \div 2
    IN IF score > 0 THEN score - AtMost(score, points) ELSE score + AtMost(-score, points)

-----------------------------------------------------------------------------
(* ReputationManager *)

\* ReputationStore.upsert.
UpsertedUntouched(e, score, confidence, ban_count) ==
    [reputation EXCEPT ![e] =
        [seen |-> TRUE, score |-> score,
         previous |-> IF @.seen THEN @.score ELSE 0,
         confidence |-> confidence, last_seen |-> IF @.seen THEN @.last_seen ELSE half,
         event_count |-> IF @.seen THEN @.event_count + 1 ELSE 1,
         ban_count |-> IF @.seen THEN AtLeast(@.ban_count, ban_count) ELSE ban_count]]
Upserted(e, score, confidence, ban_count) ==
    [reputation EXCEPT ![e] =
        [seen |-> TRUE, score |-> score,
         previous |-> IF @.seen THEN @.score ELSE 0,
         confidence |-> confidence, last_seen |-> half,
         event_count |-> IF @.seen THEN @.event_count + 1 ELSE 1,
         ban_count |-> IF @.seen THEN AtLeast(@.ban_count, ban_count) ELSE ban_count]]

Countable(e) == reputation[e].event_count < MaxEvents

\* process_threat: decay since the last touch, the penalty, and the points given back.
ProcessThreat(e, assessment, repeat, ban_count) ==
    /\ Countable(e)
    /\ \E change \in ScoreChanges(assessment, repeat, ban_count) :
           LET decayed == IF reputation[e].seen
                          THEN CalculateDecay(reputation[e].score, reputation[e].last_seen) ELSE 0
               score == Clamp(REPUTATION_MIN, REPUTATION_MAX,
                              decayed + change + CalculatePositiveChange(reputation[e].event_count))
           IN /\ reputation' = Upserted(e, score, assessment.confidence, ban_count)
              /\ contact' = [contact EXCEPT ![e] = [score |-> score, at |-> half]]
    /\ UNCHANGED <<assessments, half>>

\* process_positive.  The first points of an entity are not clamped: too many make a record that
\* refuses itself, and the engine answers None.  Those of a known one come on top of a score that
\* has not decayed, and the decay owed is forgotten.
ProcessPositive(e, points) ==
    /\ Countable(e)
    /\ reputation[e].seen \/ points \in REPUTATION_MIN .. REPUTATION_MAX
    /\ LET score == IF reputation[e].seen
                    THEN Clamp(REPUTATION_MIN, REPUTATION_MAX, reputation[e].score + points)
                    ELSE points
       IN /\ reputation' = Upserted(e, score, 50, 0)
          /\ contact' = [contact EXCEPT ![e] = [score |-> score, at |-> half]]
    /\ UNCHANGED <<assessments, half>>

\* apply_decay: each record that decays is written, which touches it and counts an event.
ApplyDecay ==
    /\ \A e \in ScoredEntities : Countable(e)
    /\ LET Decayed(e) == CalculateDecay(reputation[e].score, reputation[e].last_seen)
           Changed(e) == reputation[e].seen /\ Decayed(e) # reputation[e].score
       IN reputation' = [e \in ScoredEntities |->
                            IF Changed(e)
                            THEN Upserted(e, Decayed(e), reputation[e].confidence,
                                          reputation[e].ban_count)[e]
                            ELSE reputation[e]]
    /\ UNCHANGED <<assessments, contact, half>>

Elapse ==
    /\ half < LastHalf
    /\ half' = half + 1
    /\ UNCHANGED <<assessments, reputation, contact>>

ThreatsNext ==
    \/ \E i \in ThreatIncidents, c \in Severities, r \in Severities : Assess(i, c, r)
    \/ \E e \in ScoredEntities, a \in assessments, repeat \in BOOLEAN, b \in {0, 1} :
           ProcessThreat(e, a, repeat, b)
    \/ \E e \in ScoredEntities, p \in Praise : ProcessPositive(e, p)
    \/ ApplyDecay
    \/ Elapse

ThreatsSpec == ThreatsInit /\ [][ThreatsNext]_threatVars

-----------------------------------------------------------------------------

ThreatsTypeOK ==
    /\ \A a \in assessments : /\ a.incident \in ThreatIncidents
                              /\ a.confidence \in 0 .. 100 /\ a.score \in 0 .. 100
                              /\ a.severity \in 0 .. 10 /\ a.risk \in 0 .. 4
                              /\ a.action \in RecommendedAction
    /\ reputation \in [ScoredEntities -> [seen : BOOLEAN, score : REPUTATION_MIN .. REPUTATION_MAX,
                                    previous : REPUTATION_MIN .. REPUTATION_MAX,
                                    confidence : 0 .. 100, last_seen : 0 .. LastHalf,
                                    event_count : 0 .. MaxEvents, ban_count : 0 .. 1]]
    /\ contact \in [ScoredEntities -> [score : REPUTATION_MIN .. REPUTATION_MAX, at : 0 .. LastHalf]]
    /\ half \in 0 .. LastHalf

Size(n) == IF n < 0 THEN -n ELSE n

\* Time is paid for once: however often apply_decay runs and whatever it runs beside, the points
\* that an entity has regained since its last threat or praise are at most one for each whole day
\* since then, and they never take it past zero.
DecayIsPaidOnce ==
    \A e \in ScoredEntities :
        /\ Size(contact[e].score) - Size(reputation[e].score) <= (half - contact[e].at) \div 2
        /\ Size(reputation[e].score) <= Size(contact[e].score)
        /\ reputation[e].score * contact[e].score >= 0
=============================================================================
