--------------------------- MODULE Defence_proofs ---------------------------
(***************************************************************************)
(* Theorems about the ban engine and the firewall, the detectors, the      *)
(* scores of threats, the SSH detectors and the rules, for any entities,   *)
(* tasks, offences, detectors, events, incidents, addresses, users and     *)
(* files of rules; the last section is about all of them together.         *)
(***************************************************************************)
EXTENDS MCDefence, Induction_proofs, FiniteSetTheorems

-----------------------------------------------------------------------------
(* Escalation *)

\* calculate_escalation returns a level, for every offence and any number of bans.
LEMMA EscalationIsALevel ==
    ASSUME NEW o \in Offences, NEW b \in Nat
    PROVE  Escalation(o, b) \in Levels
<1>1. o.policy \in {"aggressive", "balanced", "conservative", "learning", "custom"}
    BY EnforcementAssumption DEF Offences
<1>2. BaseLevel(o.threat) \in 1 .. 7
    BY DEF BaseLevel
<1>3. ASSUME NEW p \in {"aggressive", "balanced", "conservative", "learning", "custom"}
      PROVE  Policy[p].max \in Levels
    BY DEF Policy, Levels
<1>4. Policy[o.policy].max \in Levels
    BY <1>1, <1>3
<1>5. ASSUME NEW m \in Levels, NEW x \in 1 .. 7, NEW y \in Nat, NEW z \in {0, 1}
      PROVE  Cap(x + y + z, m) \in Levels
    BY DEF Cap, Levels
<1>6. (IF Policy[o.policy].halved THEN b \div 2 ELSE b) \in Nat
    OBVIOUS
<1>7. (IF o.reputation < -50 THEN 1 ELSE 0) \in {0, 1}
    OBVIOUS
<1> QED
    BY <1>2, <1>4, <1>5, <1>6, <1>7 DEF Escalation, Levels

\* One more ban on record never lowers the level of an offence, under any policy.
LEMMA EscalationGrows ==
    ASSUME NEW o \in Offences, NEW b \in Nat
    PROVE  Escalation(o, b + 1) >= Escalation(o, b)
<1>1. o.policy \in {"aggressive", "balanced", "conservative", "learning", "custom"}
    BY EnforcementAssumption DEF Offences
<1>2. BaseLevel(o.threat) \in 1 .. 7
    BY DEF BaseLevel
<1>3. Policy[o.policy].max \in Levels
    <2>1. ASSUME NEW p \in {"aggressive", "balanced", "conservative", "learning", "custom"}
          PROVE  Policy[p].max \in Levels
        BY DEF Policy, Levels
    <2> QED
        BY <1>1, <2>1
<1>4. ASSUME NEW m \in Levels, NEW x \in Nat, NEW y \in Nat, NEW w \in Nat, w >= y, NEW z \in {0, 1}
      PROVE  Cap(x + w + z, m) >= Cap(x + y + z, m)
    BY <1>4 DEF Cap, Levels
<1> DEFINE Counted(n) == IF Policy[o.policy].halved THEN n \div 2 ELSE n
<1>5. Counted(b) \in Nat /\ Counted(b + 1) \in Nat /\ Counted(b + 1) >= Counted(b)
    <2>1. b \div 2 \in Nat /\ (b + 1) \div 2 \in Nat /\ (b + 1) \div 2 >= b \div 2
        OBVIOUS
    <2> QED
        BY <2>1
<1>6. (IF o.reputation < -50 THEN 1 ELSE 0) \in {0, 1}
    OBVIOUS
<1>7. CASE o.threat < Policy[o.policy].threat \/ o.confidence < Policy[o.policy].confidence
           \/ ~Policy[o.policy].bans
    BY <1>7 DEF Escalation
<1>8. CASE ~(o.threat < Policy[o.policy].threat \/ o.confidence < Policy[o.policy].confidence
             \/ ~Policy[o.policy].bans)
    <2>1. Cap(BaseLevel(o.threat) + Counted(b + 1) + (IF o.reputation < -50 THEN 1 ELSE 0),
              Policy[o.policy].max)
          >= Cap(BaseLevel(o.threat) + Counted(b) + (IF o.reputation < -50 THEN 1 ELSE 0),
                 Policy[o.policy].max)
        <3>1. PICK x, y, w, z, m :
                  /\ x = BaseLevel(o.threat) /\ y = Counted(b) /\ w = Counted(b + 1)
                  /\ z = (IF o.reputation < -50 THEN 1 ELSE 0) /\ m = Policy[o.policy].max
            OBVIOUS
        <3>2. x \in Nat /\ y \in Nat /\ w \in Nat /\ w >= y /\ z \in {0, 1} /\ m \in Levels
            BY <1>2, <1>3, <1>5, <1>6, <3>1
        <3>3. Cap(x + w + z, m) >= Cap(x + y + z, m)
            BY <1>4, <3>2
        <3> QED
            BY <3>1, <3>3
    <2> QED
        BY <1>8, <2>1 DEF Escalation
<1> QED
    BY <1>7, <1>8

-----------------------------------------------------------------------------
(* The inductive invariant *)

\* The record tells how the last verdict came about.
RecordExplainsItself ==
    \A e \in Entities :
        record[e].bans > 0 =>
            /\ offence[e] \in Offences
            /\ record[e].level = Escalation(offence[e], record[e].bans - 1)

EnforcementInv == TypeOK /\ RecordExplainsItself

LEMMA UnderwayIsFinite ==
    ASSUME NEW k, NEW e
    PROVE  IsFiniteSet(Underway(k, e)) /\ Cardinality(Underway(k, e)) \in Nat
<1>1. Underway(k, e) \subseteq Tasks
    BY DEF Underway
<1> QED
    BY <1>1, EnforcementAssumption, FS_Subset, FS_CardinalityType

TaskType == [pc : {"idle", "exists", "done", "sync"} \cup Commands, todo : SUBSET Entities]

LEMMA EndIsTyped ==
    ASSUME TypeOK, NEW t \in Tasks, NEW e \in Entities, End(t, e)
    PROVE  task' \in [Tasks -> TaskType]
<1>1. task[t] \in TaskType
    BY DEF TypeOK, TaskType
<1>2. task' = [task EXCEPT ![t] = [pc |-> IF task[t].pc = "sync" /\ task[t].todo # {e}
                                        THEN "sync" ELSE "done",
                                 todo |-> task[t].todo \ {e}]]
    BY DEF End
<1>3. [pc |-> IF task[t].pc = "sync" /\ task[t].todo # {e} THEN "sync" ELSE "done",
       todo |-> task[t].todo \ {e}] \in TaskType
    BY <1>1 DEF TaskType
<1> QED
    BY <1>2, <1>3 DEF TypeOK, TaskType

LEMMA WorksIsTyped ==
    ASSUME TypeOK, NEW k \in Commands, NEW e \in Entities, Works(k, e)
    PROVE  /\ tagged' \in [Entities -> Nat] /\ bare' \in [Entities -> Nat]
           /\ \A f \in Entities : tagged'[f] >= tagged[f]
           /\ \A f \in Entities : k = "drop" \/ f # e => tagged'[f] + bare'[f] <= tagged[f] + bare[f]
<1>1. CASE k = "tag"
    <2>1. tagged' = [tagged EXCEPT ![e] = tagged[e] + 1] /\ bare' = bare
        BY <1>1 DEF Works
    <2>2. tagged' \in [Entities -> Nat] /\ bare' \in [Entities -> Nat]
        BY <2>1 DEF TypeOK
    <2> QED
        BY <1>1, <2>1, <2>2 DEF TypeOK
<1>2. CASE k = "add"
    <2>1. bare' = [bare EXCEPT ![e] = bare[e] + 1] /\ tagged' = tagged
        BY <1>2 DEF Works
    <2>2. tagged' \in [Entities -> Nat] /\ bare' \in [Entities -> Nat]
        BY <2>1 DEF TypeOK
    <2> QED
        BY <1>2, <2>1, <2>2 DEF TypeOK
<1>3. CASE k = "drop"
    <2>1. bare' = [bare EXCEPT ![e] = bare[e] - 1] /\ tagged' = tagged /\ bare[e] > 0
        BY <1>3 DEF Works
    <2>2. tagged' \in [Entities -> Nat] /\ bare' \in [Entities -> Nat]
        BY <2>1 DEF TypeOK
    <2>3. ASSUME NEW f \in Entities PROVE bare'[f] <= bare[f]
        BY <2>1 DEF TypeOK
    <2> QED
        BY <2>1, <2>2, <2>3 DEF TypeOK
<1> QED
    BY <1>1, <1>2, <1>3 DEF Commands

\* What Succeeds and Fails have in common: nothing is untagged, nobody but e meets a
\* new rule, and neither does he when his are being dropped.
LEMMA OutcomeIsTyped ==
    ASSUME TypeOK, NEW t \in Tasks, NEW k \in Commands, NEW e \in Entities,
           Succeeds(t, k, e) \/ Fails(t, k, e)
    PROVE  /\ tagged' \in [Entities -> Nat] /\ bare' \in [Entities -> Nat]
           /\ late' \in [Commands -> [Entities -> Nat]]
           /\ task' \in [Tasks -> TaskType]
           /\ \A f \in Entities : tagged'[f] >= tagged[f]
           /\ \A f \in Entities : k = "drop" \/ f # e => tagged'[f] + bare'[f] <= tagged[f] + bare[f]
           /\ \A f \in Entities : k = "drop" \/ f # e =>
                  late'["tag"][f] = late["tag"][f] /\ late'["add"][f] = late["add"][f]
<1>1. End(t, e)
    BY DEF Succeeds, Fails, GiveUp
<1>2. task' \in [Tasks -> TaskType]
    BY <1>1, EndIsTyped
<1>3. CASE Works(k, e) /\ UNCHANGED late
    BY <1>2, <1>3, WorksIsTyped DEF TypeOK
<1>4. CASE UNCHANGED chain
    BY <1>2, <1>4 DEF TypeOK, chain
<1>5. CASE late' = [late EXCEPT ![k][e] = @ + 1] /\ UNCHANGED <<tagged, bare>>
    <2>1. late' \in [Commands -> [Entities -> Nat]]
        BY <1>5 DEF TypeOK
    <2>2. \A f \in Entities : k = "drop" \/ f # e =>
              late'["tag"][f] = late["tag"][f] /\ late'["add"][f] = late["add"][f]
        BY <1>5 DEF TypeOK, Commands
    <2> QED
        BY <1>2, <1>5, <2>1, <2>2 DEF TypeOK
<1> QED
    BY <1>3, <1>4, <1>5 DEF Succeeds, Fails

\* A late command, as the two lemmas above say of one in time.
LEMMA LateIsTyped ==
    ASSUME TypeOK, NEW k \in Commands, NEW e \in Entities, LateCommand(k, e)
    PROVE  /\ late' \in [Commands -> [Entities -> Nat]]
           /\ \A c \in Commands, f \in Entities : late'[c][f] <= late[c][f]
<1>1. late' = [late EXCEPT ![k][e] = late[k][e] - 1] /\ late[k][e] > 0
    BY DEF LateCommand
<1>2. [late[k] EXCEPT ![e] = late[k][e] - 1] \in [Entities -> Nat]
    BY <1>1 DEF TypeOK
<1>3. late' = [late EXCEPT ![k] = [late[k] EXCEPT ![e] = late[k][e] - 1]]
    BY <1>1
<1>4. late' \in [Commands -> [Entities -> Nat]]
    BY <1>2, <1>3 DEF TypeOK
<1>5. ASSUME NEW c \in Commands, NEW f \in Entities
      PROVE  late'[c][f] <= late[c][f]
    BY <1>1 DEF TypeOK
<1> QED
    BY <1>4, <1>5

LEMMA CutIsTyped ==
    ASSUME TypeOK
    PROVE  Cut \in [Tasks -> TaskType]
BY DEF TypeOK, TaskType, Cut

-----------------------------------------------------------------------------
(* Types and the record *)

LEMMA InitHolds ==
    Init => EnforcementInv /\ OnlyTheJudgedAreBlocked /\ DesiredIsBlocked
<1> SUFFICES ASSUME Init PROVE EnforcementInv /\ OnlyTheJudgedAreBlocked /\ DesiredIsBlocked
    OBVIOUS
<1>1. TypeOK
    BY DEF Init, TypeOK, NoRecord, Levels, Commands
<1>2. RecordExplainsItself
    BY DEF Init, RecordExplainsItself, NoRecord
<1>3. OnlyTheJudgedAreBlocked
    BY DEF Init, OnlyTheJudgedAreBlocked, Blocked, Pursued, Commands
<1>4. DesiredIsBlocked
    BY DEF Init, DesiredIsBlocked
<1> QED
    BY <1>1, <1>2, <1>3, <1>4 DEF EnforcementInv

LEMMA DecideKeepsTypes ==
    ASSUME TypeOK, NEW t \in Tasks, NEW e \in Entities, NEW o \in Offences, Decide(t, e, o)
    PROVE  TypeOK'
<1>1. Escalation(o, record[e].bans) \in Levels
    BY EscalationIsALevel DEF TypeOK
<1>2. UNCHANGED <<whitelist, exempt, desired, tagged, bare, late>>
    BY DEF Decide, chain
<1>3. CASE Skips(e)
    <2>1. task' = [task EXCEPT ![t].pc = "done"] /\ UNCHANGED <<record, judged, offence>>
        BY <1>3 DEF Decide
    <2>2. [task[t] EXCEPT !.pc = "done"] \in TaskType
        BY SMTT(30) DEF TypeOK, TaskType
    <2>3. task' \in [Tasks -> TaskType]
        BY <2>1, <2>2 DEF TypeOK, TaskType
    <2> QED
        BY <1>2, <2>1, <2>3 DEF TypeOK, TaskType
<1>4. CASE ~Skips(e)
    <2>1. /\ task' = [task EXCEPT ![t] = [pc |-> Operation(Escalation(o, record[e].bans)), todo |-> {e}]]
          /\ record' = [record EXCEPT ![e] = [bans |-> record[e].bans + 1,
                                              level |-> Escalation(o, record[e].bans)]]
          /\ offence' = [offence EXCEPT ![e] = o]
        BY <1>4 DEF Decide
    <2>2. \/ judged' = judged
          \/ judged' = [judged EXCEPT ![e].warning = judged[e].warning + 1]
          \/ judged' = [judged EXCEPT ![e].ban = judged[e].ban + 1]
        BY <1>4 DEF Decide
    <2>3. task' \in [Tasks -> TaskType]
        BY <2>1 DEF TypeOK, TaskType, Operation, Commands
    <2>4. record' \in [Entities -> [bans : Nat, level : Levels]]
        BY <1>1, <2>1 DEF TypeOK
    <2>5. offence' \in [Entities -> Offences \cup {None}]
        BY <2>1 DEF TypeOK
    <2>6. judged' \in [Entities -> [warning : Nat, ban : Nat]]
        <3>1. judged[e] \in [warning : Nat, ban : Nat]
            BY DEF TypeOK
        <3>2. /\ [judged[e] EXCEPT !.warning = judged[e].warning + 1] \in [warning : Nat, ban : Nat]
              /\ [judged[e] EXCEPT !.ban = judged[e].ban + 1] \in [warning : Nat, ban : Nat]
            BY <3>1
        <3>3. CASE judged' = judged
            BY <3>3 DEF TypeOK
        <3>4. CASE judged' = [judged EXCEPT ![e] = [judged[e] EXCEPT !.warning = judged[e].warning + 1]]
            BY <3>2, <3>4 DEF TypeOK
        <3>5. CASE judged' = [judged EXCEPT ![e] = [judged[e] EXCEPT !.ban = judged[e].ban + 1]]
            BY <3>2, <3>5 DEF TypeOK
        <3> QED
            BY <2>2, <3>3, <3>4, <3>5
    <2> QED
        BY <1>2, <2>3, <2>4, <2>5, <2>6 DEF TypeOK, TaskType
<1> QED
    BY <1>3, <1>4

\* Ban, Refresh, RemoveRule and Readd, for what they share: one command of a kind, from a
\* task that is at it.
At(t, k, e) ==
    /\ task[t].pc \in {k} \cup (IF k = "add" THEN {"sync"} ELSE {})
    /\ e \in task[t].todo
    /\ Succeeds(t, k, e) \/ Fails(t, k, e)
    /\ UNCHANGED <<engine, judged, offence>>

LEMMA CommandsShare ==
    ASSUME NEW t \in Tasks, NEW e \in Entities
    PROVE  /\ Ban(t, e) => At(t, "tag", e) /\ desired' \subseteq desired \cup {e}
           /\ Refresh(t, e) \/ Readd(t, e) => At(t, "add", e) /\ desired' = desired
           /\ RemoveRule(t, e) => At(t, "drop", e) /\ desired' \subseteq desired
BY DEF Ban, Refresh, Readd, RemoveRule, At, Want

LEMMA StepKeepsTypes ==
    ASSUME TypeOK, [Next]_vars
    PROVE  TypeOK'
<1>1. ASSUME NEW t \in Tasks, NEW k \in Commands, NEW e \in Entities, At(t, k, e),
             desired' \subseteq desired \cup {e}
      PROVE  TypeOK'
    <2>1. /\ tagged' \in [Entities -> Nat] /\ bare' \in [Entities -> Nat]
          /\ late' \in [Commands -> [Entities -> Nat]] /\ task' \in [Tasks -> TaskType]
        BY <1>1, OutcomeIsTyped DEF At
    <2> QED
        BY <1>1, <2>1 DEF TypeOK, TaskType, At, engine
<1>2. ASSUME NEW t \in Tasks, NEW e \in Entities, Exists(t, e)
      PROVE  TypeOK'
    <2>1. [task[t] EXCEPT !.pc = "add"] \in TaskType
        BY SMTT(30) DEF TypeOK, TaskType, Commands
    <2>2. task' \in [Tasks -> TaskType]
        <3>1. CASE task' = [task EXCEPT ![t].pc = "add"]
            BY <2>1, <3>1 DEF TypeOK, TaskType
        <3> QED
            BY <1>2, <3>1, EndIsTyped DEF Exists
    <2> QED
        BY <1>2, <2>2 DEF TypeOK, TaskType, Exists, engine, chain
<1>3. ASSUME NEW t \in Tasks, NEW e \in Entities, Unban(t, e)
      PROVE  TypeOK'
    <2>1. task' \in [Tasks -> TaskType]
        BY <1>3 DEF TypeOK, TaskType, Commands, Unban
    <2> QED
        BY <1>3, <2>1 DEF TypeOK, TaskType, Unban, engine, chain
<1>4. ASSUME NEW t \in Tasks, Synchronize(t)
      PROVE  TypeOK'
    <2>1. task' \in [Tasks -> TaskType]
        BY <1>4 DEF TypeOK, TaskType, Synchronize
    <2> QED
        BY <1>4, <2>1 DEF TypeOK, TaskType, Synchronize, engine, chain
<1>5. ASSUME NEW k \in Commands, NEW e \in Entities, LateCommand(k, e)
      PROVE  TypeOK'
    <2>1. late' \in [Commands -> [Entities -> Nat]]
        BY <1>5, LateIsTyped
    <2>2. tagged' \in [Entities -> Nat] /\ bare' \in [Entities -> Nat]
        BY <1>5, WorksIsTyped DEF LateCommand
    <2> QED
        BY <1>5, <2>1, <2>2 DEF TypeOK, LateCommand, engine
<1>6. ASSUME NEW e \in Entities, Protect(e)
      PROVE  TypeOK'
    BY <1>6 DEF TypeOK, Protect, chain
<1>7. CASE Restart
    <2>1. task' \in [Tasks -> TaskType]
        BY <1>7, CutIsTyped DEF Restart
    <2>2. late' \in [Commands -> [Entities -> Nat]]
        BY <1>7, UnderwayIsFinite DEF TypeOK, Restart
    <2>3. record' \in [Entities -> [bans : Nat, level : Levels]]
        BY <1>7 DEF Restart, NoRecord, Levels
    <2> QED
        BY <1>7, <2>1, <2>2, <2>3 DEF TypeOK, TaskType, Restart
<1>8. CASE UNCHANGED vars
    BY <1>8 DEF TypeOK, vars, engine, chain
<1>9. "tag" \in Commands /\ "add" \in Commands /\ "drop" \in Commands
    BY DEF Commands
<1> QED
    BY <1>1, <1>2, <1>3, <1>4, <1>5, <1>6, <1>7, <1>8, <1>9, CommandsShare, DecideKeepsTypes DEF Next

\* The record of an entity is written by its verdicts and wiped by a restart.
LEMMA StepKeepsRecord ==
    ASSUME EnforcementInv, [Next]_vars
    PROVE  RecordExplainsItself' /\ NeverMilderStep
<1>0. TypeOK /\ RecordExplainsItself
    BY DEF EnforcementInv
<1>1. ASSUME NEW t \in Tasks, NEW e \in Entities, NEW o \in Offences, Decide(t, e, o), ~Skips(e)
      PROVE  RecordExplainsItself' /\ NeverMilderStep
    <2>1. /\ record' = [record EXCEPT ![e] = [bans |-> record[e].bans + 1,
                                              level |-> Escalation(o, record[e].bans)]]
          /\ offence' = [offence EXCEPT ![e] = o]
        BY <1>1 DEF Decide
    <2>2. /\ record'[e].bans = record[e].bans + 1
          /\ record'[e].level = Escalation(o, record[e].bans)
          /\ offence'[e] = o /\ record[e].bans \in Nat
        BY <1>0, <2>1 DEF TypeOK
    <2>3. ASSUME NEW f \in Entities, f # e
          PROVE  record'[f] = record[f] /\ offence'[f] = offence[f] /\ record[f].bans \in Nat
        BY <1>0, <2>1, <2>3 DEF TypeOK
    <2>4. RecordExplainsItself'
        BY <1>0, <2>2, <2>3 DEF RecordExplainsItself
    <2>5. ASSUME record[e].bans > 0, o = offence[e]
          PROVE  record'[e].level >= record[e].level
        <3>1. record[e].level = Escalation(o, record[e].bans - 1)
            BY <1>0, <2>5 DEF RecordExplainsItself
        <3>2. record[e].bans - 1 \in Nat /\ (record[e].bans - 1) + 1 = record[e].bans
            BY <2>2, <2>5
        <3>3. Escalation(o, (record[e].bans - 1) + 1) >= Escalation(o, record[e].bans - 1)
            BY <3>2, EscalationGrows
        <3> QED
            BY <2>2, <3>1, <3>2, <3>3
    <2> QED
        BY <2>2, <2>3, <2>4, <2>5 DEF NeverMilderStep
<1>2. CASE UNCHANGED <<record, offence>>
    BY <1>0, <1>2 DEF RecordExplainsItself, NeverMilderStep, TypeOK
<1>3. CASE Restart
    BY <1>0, <1>3 DEF RecordExplainsItself, NeverMilderStep, TypeOK, Restart, NoRecord
<1>4. ASSUME NEW t \in Tasks, NEW e \in Entities, NEW o \in Offences, Decide(t, e, o), Skips(e)
      PROVE  UNCHANGED <<record, offence>>
    BY <1>4 DEF Decide
<1>5. ASSUME NEW t \in Tasks, NEW e \in Entities,
             Ban(t, e) \/ Exists(t, e) \/ Refresh(t, e) \/ Unban(t, e) \/ RemoveRule(t, e) \/ Readd(t, e)
      PROVE  UNCHANGED <<record, offence>>
    BY <1>5 DEF Ban, Exists, Refresh, Unban, RemoveRule, Readd, engine
<1>6. ASSUME NEW t \in Tasks, Synchronize(t)
      PROVE  UNCHANGED <<record, offence>>
    BY <1>6 DEF Synchronize, engine
<1>7. ASSUME NEW k \in Commands, NEW e \in Entities, LateCommand(k, e)
      PROVE  UNCHANGED <<record, offence>>
    BY <1>7 DEF LateCommand, engine
<1>8. ASSUME NEW e \in Entities, Protect(e)
      PROVE  UNCHANGED <<record, offence>>
    BY <1>8 DEF Protect
<1>9. CASE UNCHANGED vars
    BY <1>2, <1>9 DEF vars, engine
<1> QED
    BY <1>1, <1>2, <1>3, <1>4, <1>5, <1>6, <1>7, <1>8, <1>9 DEF Next

-----------------------------------------------------------------------------
(* Who is blocked was judged *)

Judged(e) == judged[e] # [warning |-> 0, ban |-> 0]

\* What a command does to the entity it is not about, and one that drops to any.
LEMMA CommandsKeepToTheirEntity ==
    ASSUME TypeOK, NEW t \in Tasks, NEW k \in Commands, NEW e \in Entities, At(t, k, e),
           NEW f \in Entities, k = "drop" \/ f # e
    PROVE  /\ Blocked(f)' => Blocked(f)
           /\ late'["tag"][f] = late["tag"][f] /\ late'["add"][f] = late["add"][f]
<1>1. /\ tagged' \in [Entities -> Nat] /\ bare' \in [Entities -> Nat]
      /\ tagged'[f] + bare'[f] <= tagged[f] + bare[f]
      /\ late'["tag"][f] = late["tag"][f] /\ late'["add"][f] = late["add"][f]
    BY OutcomeIsTyped DEF At
<1> QED
    BY <1>1 DEF Blocked, TypeOK

\* A task that ends its business with one entity begins none with another.
LEMMA EndStartsNothing ==
    ASSUME TypeOK, NEW t \in Tasks, NEW e \in Entities, End(t, e), NEW s \in Tasks
    PROVE  /\ task'[s].todo \subseteq task[s].todo
           /\ task'[s].pc \in {task[s].pc, "done"}
<1>1. CASE s = t
    BY <1>1 DEF End, TypeOK
<1>2. CASE s # t
    BY <1>2 DEF End, TypeOK
<1> QED
    BY <1>1, <1>2

LEMMA StepKeepsJudged ==
    ASSUME TypeOK, OnlyTheJudgedAreBlocked, [Next]_vars
    PROVE  OnlyTheJudgedAreBlocked'
<1> DEFINE Busy == {"exists", "tag", "add", "sync"}
<1>1. ASSUME NEW t \in Tasks, NEW e \in Entities, NEW o \in Offences, Decide(t, e, o)
      PROVE  OnlyTheJudgedAreBlocked'
    <2>0. UNCHANGED <<desired, tagged, bare, late>>
        BY <1>1 DEF Decide, chain
    <2>1. CASE Skips(e)
        <3>1. task' = [task EXCEPT ![t].pc = "done"] /\ judged' = judged
            BY <1>1, <2>1 DEF Decide
        <3>2. ASSUME NEW s \in Tasks
              PROVE  task'[s] = task[s] \/ task'[s].pc = "done"
            BY <3>1 DEF TypeOK
        <3> QED
            BY <2>0, <3>1, <3>2 DEF OnlyTheJudgedAreBlocked, Blocked, Pursued
    <2>2. CASE ~Skips(e)
        <3>1. task' = [task EXCEPT ![t] = [pc |-> Operation(Escalation(o, record[e].bans)), todo |-> {e}]]
            BY <1>1, <2>2 DEF Decide
        <3>2. judged' = [judged EXCEPT ![e].warning = judged[e].warning + 1]
              \/ judged' = [judged EXCEPT ![e].ban = judged[e].ban + 1]
            BY <1>1, <2>2 DEF Decide, Skips
        <3>3. Judged(e)'
            <4>1. judged[e] \in [warning : Nat, ban : Nat]
                BY DEF TypeOK
            <4>2. judged'[e].warning = judged[e].warning + 1 \/ judged'[e].ban = judged[e].ban + 1
                BY <3>2, <4>1 DEF TypeOK
            <4> QED
                BY <4>1, <4>2 DEF Judged
        <3>4. ASSUME NEW f \in Entities, f # e
              PROVE  judged'[f] = judged[f]
            BY <3>2, <3>4 DEF TypeOK
        <3>5. ASSUME NEW s \in Tasks, NEW f \in Entities, f # e, f \in task'[s].todo
              PROVE  task'[s] = task[s]
            BY <3>1, <3>5 DEF TypeOK
        <3> QED
            BY <2>0, <3>3, <3>4, <3>5 DEF OnlyTheJudgedAreBlocked, Blocked, Pursued, Judged
    <2> QED
        BY <2>1, <2>2
<1>2. ASSUME NEW t \in Tasks, NEW k \in Commands, NEW e \in Entities, At(t, k, e),
             desired' \subseteq desired \cup {e}, k = "drop" => desired' \subseteq desired
      PROVE  OnlyTheJudgedAreBlocked'
    <2>1. judged' = judged /\ End(t, e)
        BY <1>2 DEF At, Succeeds, Fails, GiveUp
    <2>2. k # "drop" => Judged(e)
        BY <1>2 DEF At, OnlyTheJudgedAreBlocked, Pursued, Judged, Commands
    <2>3. ASSUME NEW f \in Entities, k = "drop" \/ f # e
          PROVE  Blocked(f)' \/ Pursued(f)' => Blocked(f) \/ Pursued(f)
        <3>1. /\ Blocked(f)' => Blocked(f)
              /\ late'["tag"][f] = late["tag"][f] /\ late'["add"][f] = late["add"][f]
            BY <1>2, <2>3, CommandsKeepToTheirEntity
        <3>2. ASSUME NEW s \in Tasks, f \in task'[s].todo, task'[s].pc \in Busy
              PROVE  f \in task[s].todo /\ task[s].pc \in Busy
            BY <2>1, <3>2, EndStartsNothing
        <3>3. f \in desired' => f \in desired
            BY <1>2, <2>3
        <3> QED
            BY <3>1, <3>2, <3>3 DEF Pursued
    <2> QED
        BY <2>1, <2>2, <2>3 DEF OnlyTheJudgedAreBlocked, Judged
<1>3. ASSUME NEW t \in Tasks, NEW e \in Entities, Exists(t, e)
      PROVE  OnlyTheJudgedAreBlocked'
    <2>1. UNCHANGED <<desired, tagged, bare, late, judged>>
        BY <1>3 DEF Exists, chain
    <2>2. ASSUME NEW f \in Entities, NEW s \in Tasks, f \in task'[s].todo, task'[s].pc \in Busy
          PROVE  f \in task[s].todo /\ task[s].pc \in Busy
        <3>1. CASE task' = [task EXCEPT ![t].pc = "add"]
            BY <1>3, <2>2, <3>1 DEF Exists, TypeOK
        <3>2. CASE End(t, e)
            BY <2>2, <3>2, EndStartsNothing
        <3> QED
            BY <1>3, <3>1, <3>2 DEF Exists
    <2> QED
        BY <2>1, <2>2 DEF OnlyTheJudgedAreBlocked, Blocked, Pursued
<1>4. ASSUME NEW t \in Tasks, NEW e \in Entities, Unban(t, e)
      PROVE  OnlyTheJudgedAreBlocked'
    <2>1. UNCHANGED <<desired, tagged, bare, late, judged>>
        BY <1>4 DEF Unban, chain
    <2>2. ASSUME NEW s \in Tasks
          PROVE  task'[s] = task[s] \/ task'[s].pc = "drop"
        BY <1>4 DEF Unban, TypeOK
    <2> QED
        BY <2>1, <2>2 DEF OnlyTheJudgedAreBlocked, Blocked, Pursued
<1>5. ASSUME NEW t \in Tasks, Synchronize(t)
      PROVE  OnlyTheJudgedAreBlocked'
    <2>1. UNCHANGED <<desired, tagged, bare, late, judged>>
        BY <1>5 DEF Synchronize, chain
    <2>2. ASSUME NEW s \in Tasks
          PROVE  task'[s] = task[s] \/ task'[s].todo = desired
        BY <1>5 DEF Synchronize, TypeOK
    <2> QED
        BY <2>1, <2>2 DEF OnlyTheJudgedAreBlocked, Blocked, Pursued
<1>6. ASSUME NEW k \in Commands, NEW e \in Entities, LateCommand(k, e)
      PROVE  OnlyTheJudgedAreBlocked'
    <2>1. UNCHANGED <<desired, task, judged>> /\ Works(k, e) /\ late[k][e] > 0
        BY <1>6 DEF LateCommand
    <2>2. k # "drop" => Judged(e)
        BY <2>1 DEF TypeOK, OnlyTheJudgedAreBlocked, Pursued, Judged, Commands
    <2>3. ASSUME NEW f \in Entities, k = "drop" \/ f # e
          PROVE  Blocked(f)' \/ Pursued(f)' => Blocked(f) \/ Pursued(f)
        <3>1. /\ tagged' \in [Entities -> Nat] /\ bare' \in [Entities -> Nat]
              /\ tagged'[f] + bare'[f] <= tagged[f] + bare[f]
            BY <2>1, <2>3, WorksIsTyped
        <3>2. Blocked(f)' => Blocked(f)
            BY <3>1 DEF Blocked, TypeOK
        <3>3. late'["tag"][f] <= late["tag"][f] /\ late'["add"][f] <= late["add"][f]
              /\ late' \in [Commands -> [Entities -> Nat]]
            BY <1>6, LateIsTyped DEF Commands
        <3>4. late'["tag"][f] + late'["add"][f] > 0 => late["tag"][f] + late["add"][f] > 0
            BY <3>3 DEF TypeOK, Commands
        <3> QED
            BY <2>1, <3>2, <3>4 DEF Pursued
    <2> QED
        BY <2>1, <2>2, <2>3 DEF OnlyTheJudgedAreBlocked, Judged
<1>7. ASSUME NEW e \in Entities, Protect(e)
      PROVE  OnlyTheJudgedAreBlocked'
    BY <1>7 DEF OnlyTheJudgedAreBlocked, Blocked, Pursued, Protect, chain
<1>8. CASE Restart
    <2>1. UNCHANGED <<tagged, bare, judged>> /\ desired' = {}
        BY <1>8 DEF Restart
    <2>2. ASSUME NEW s \in Tasks PROVE task'[s].pc \in {"idle", "done"}
        BY <1>8 DEF Restart, Cut
    <2>3. ASSUME NEW f \in Entities, NEW k \in {"tag", "add"}, ~Pursued(f)
          PROVE  late'[k][f] = late[k][f]
        <3>1. Underway(k, f) = {}
            BY <2>3 DEF Pursued, Underway
        <3>2. Cardinality(Underway(k, f)) = 0
            BY <3>1, FS_EmptySet
        <3>3. late'[k][f] = late[k][f] + Cardinality(Underway(k, f))
            BY <1>8 DEF Restart, Commands
        <3>4. late[k][f] \in Nat
            BY DEF TypeOK, Commands
        <3> QED
            BY <3>2, <3>3, <3>4
    <2>4. ASSUME NEW f \in Entities, ~Pursued(f)
          PROVE  ~Pursued(f)'
        <3>1. late'["tag"][f] = late["tag"][f] /\ late'["add"][f] = late["add"][f]
            BY <2>3, <2>4
        <3> QED
            BY <2>1, <2>2, <2>4, <3>1 DEF Pursued
    <2> QED
        BY <2>1, <2>4 DEF OnlyTheJudgedAreBlocked, Blocked
<1>9. CASE UNCHANGED vars
    BY <1>9 DEF OnlyTheJudgedAreBlocked, Blocked, Pursued, vars, engine, chain
<1>10. "tag" \in Commands /\ "add" \in Commands /\ "drop" \in Commands
    BY DEF Commands
<1>11. ASSUME NEW t \in Tasks, NEW e \in Entities,
              Ban(t, e) \/ Refresh(t, e) \/ RemoveRule(t, e) \/ Readd(t, e)
       PROVE  OnlyTheJudgedAreBlocked'
    BY <1>2, <1>10, <1>11, CommandsShare
<1> QED
    BY <1>1, <1>3, <1>4, <1>5, <1>6, <1>7, <1>8, <1>9, <1>11 DEF Next

-----------------------------------------------------------------------------
(* What is desired is blocked *)

\* A tagged rule, once there, is there for good.
LEMMA NothingIsUntagged ==
    ASSUME TypeOK, [Next]_vars, NEW f \in Entities
    PROVE  tagged'[f] >= tagged[f]
<1>1. ASSUME NEW t \in Tasks, NEW k \in Commands, NEW e \in Entities, At(t, k, e)
      PROVE  tagged'[f] >= tagged[f]
    BY <1>1, OutcomeIsTyped DEF At
<1>2. ASSUME NEW k \in Commands, NEW e \in Entities, LateCommand(k, e)
      PROVE  tagged'[f] >= tagged[f]
    BY <1>2, WorksIsTyped DEF LateCommand
<1>3. CASE tagged' = tagged
    BY <1>3 DEF TypeOK
<1>4. ASSUME NEW t \in Tasks, NEW e \in Entities,
             Exists(t, e) \/ Unban(t, e) \/ Synchronize(t) \/ Protect(e)
      PROVE  tagged' = tagged
    BY <1>4 DEF Exists, Unban, Synchronize, Protect, chain
<1>5. ASSUME NEW t \in Tasks, NEW e \in Entities, NEW o \in Offences, Decide(t, e, o)
      PROVE  tagged' = tagged
    BY <1>5 DEF Decide, chain
<1>6. ASSUME NEW t \in Tasks, Synchronize(t)
      PROVE  tagged' = tagged
    BY <1>6 DEF Synchronize, chain
<1>7. ASSUME NEW e \in Entities, Protect(e)
      PROVE  tagged' = tagged
    BY <1>7 DEF Protect, chain
<1>8. Restart \/ UNCHANGED vars => tagged' = tagged
    BY DEF Restart, vars, chain
<1>9. "tag" \in Commands /\ "add" \in Commands /\ "drop" \in Commands
    BY DEF Commands
<1> QED
    BY <1>1, <1>2, <1>3, <1>4, <1>5, <1>6, <1>7, <1>8, <1>9, CommandsShare DEF Next

LEMMA StepKeepsDesired ==
    ASSUME TypeOK, DesiredIsBlocked, [Next]_vars
    PROVE  DesiredIsBlocked'
<1>1. ASSUME NEW f \in desired PROVE tagged'[f] > 0
    <2>1. f \in Entities /\ tagged[f] \in Nat /\ tagged[f] > 0 /\ tagged'[f] >= tagged[f]
        BY NothingIsUntagged DEF TypeOK, DesiredIsBlocked
    <2>2. tagged' \in [Entities -> Nat]
        BY StepKeepsTypes DEF TypeOK
    <2> QED
        BY <2>1, <2>2
<1>2. CASE desired' \subseteq desired
    BY <1>1, <1>2 DEF DesiredIsBlocked
<1>3. ASSUME NEW t \in Tasks, NEW e \in Entities, Ban(t, e)
      PROVE  DesiredIsBlocked'
    <2>1. CASE Succeeds(t, "tag", e) /\ desired' = Want(TRUE, e)
        <3>1. tagged' = [tagged EXCEPT ![e] = tagged[e] + 1]
            BY <2>1 DEF Succeeds, Works
        <3>2. tagged'[e] > 0
            BY <3>1 DEF TypeOK
        <3>3. desired' = desired \cup {e}
            BY <2>1 DEF Want
        <3> QED
            BY <1>1, <3>2, <3>3 DEF DesiredIsBlocked
    <2> QED
        BY <1>2, <1>3, <2>1 DEF Ban, Want
<1>4. ASSUME NEW t \in Tasks, NEW e \in Entities,
             Exists(t, e) \/ Refresh(t, e) \/ Unban(t, e) \/ RemoveRule(t, e) \/ Readd(t, e)
      PROVE  desired' \subseteq desired
    BY <1>4 DEF Exists, Refresh, Unban, RemoveRule, Readd
<1>5. ASSUME NEW t \in Tasks, NEW e \in Entities, NEW o \in Offences, Decide(t, e, o)
      PROVE  desired' \subseteq desired
    BY <1>5 DEF Decide
<1>6. ASSUME NEW t \in Tasks, Synchronize(t)
      PROVE  desired' \subseteq desired
    BY <1>6 DEF Synchronize
<1>7. ASSUME NEW e \in Entities, Protect(e)
      PROVE  desired' \subseteq desired
    BY <1>7 DEF Protect
<1>8. ASSUME NEW k \in Commands, NEW e \in Entities, LateCommand(k, e)
      PROVE  desired' \subseteq desired
    BY <1>8 DEF LateCommand
<1>9. Restart \/ UNCHANGED vars => desired' \subseteq desired
    BY DEF Restart, vars
<1> QED
    BY <1>2, <1>3, <1>4, <1>5, <1>6, <1>7, <1>8, <1>9 DEF Next

-----------------------------------------------------------------------------
(* One rule per ban *)

\* The tasks about to tag f.
Taggers(f) == {t \in Tasks : task[t].pc = "tag" /\ f \in task[t].todo}

LEMMA TaggersAreUnderway ==
    ASSUME NEW f
    PROVE  /\ Underway("tag", f) = Taggers(f)
           /\ IsFiniteSet(Taggers(f)) /\ Cardinality(Taggers(f)) \in Nat
<1>1. Underway("tag", f) = Taggers(f)
    BY DEF Underway, Taggers
<1> QED
    BY <1>1, UnderwayIsFinite

\* Who begins to tag nobody, is one tagger the less, or the more.
LEMMA FewerTaggers ==
    ASSUME NEW f, NEW T, T \subseteq Taggers(f)
    PROVE  Cardinality(T) \in Nat /\ Cardinality(T) <= Cardinality(Taggers(f))
BY TaggersAreUnderway, FS_Subset, FS_CardinalityType

LEMMA OneTaggerLess ==
    ASSUME NEW f, NEW t \in Taggers(f), NEW T, T \subseteq Taggers(f) \ {t}
    PROVE  Cardinality(T) \in Nat /\ Cardinality(T) <= Cardinality(Taggers(f)) - 1
<1>1. IsFiniteSet(Taggers(f) \ {t}) /\ Cardinality(Taggers(f) \ {t}) = Cardinality(Taggers(f)) - 1
    BY TaggersAreUnderway, FS_RemoveElement
<1> QED
    BY <1>1, FS_Subset, FS_CardinalityType

LEMMA OneTaggerMore ==
    ASSUME NEW f, NEW t, NEW T, T \subseteq Taggers(f) \cup {t}
    PROVE  Cardinality(T) \in Nat /\ Cardinality(T) <= Cardinality(Taggers(f)) + 1
<1>1. /\ IsFiniteSet(Taggers(f) \cup {t})
      /\ Cardinality(Taggers(f) \cup {t}) \in {Cardinality(Taggers(f)), Cardinality(Taggers(f)) + 1}
    BY TaggersAreUnderway, FS_AddElement
<1>2. Cardinality(T) \in Nat /\ Cardinality(T) <= Cardinality(Taggers(f) \cup {t})
    BY <1>1, FS_Subset, FS_CardinalityType
<1> QED
    BY <1>1, <1>2, TaggersAreUnderway

\* The rules and those that may come, of one entity.
Rules(f) == tagged[f] + late["tag"][f] + Cardinality(Taggers(f))

LEMMA RulesAreOneRulePerBan ==
    OneRulePerBan <=> \A f \in Entities : Rules(f) <= judged[f].ban
BY TaggersAreUnderway DEF OneRulePerBan, Rules

\* A command that tags e turns one tagger of e into a rule, or a late command, or nothing;
\* the others leave taggers and rules alone.
LEMMA CommandsKeepRules ==
    ASSUME TypeOK, NEW t \in Tasks, NEW k \in Commands, NEW e \in Entities, At(t, k, e),
           NEW f \in Entities
    PROVE  Rules(f)' <= Rules(f)
<1>0. /\ tagged[f] \in Nat /\ late["tag"][f] \in Nat /\ Cardinality(Taggers(f)) \in Nat
      /\ End(t, e)
    BY TaggersAreUnderway DEF TypeOK, Commands, At, Succeeds, Fails, GiveUp
<1>1. Taggers(f)' \subseteq Taggers(f)
    BY <1>0, EndStartsNothing DEF Taggers
<1>2. k = "tag" => t \notin Taggers(f)'
    BY <1>0 DEF At, End, Taggers, TypeOK
<1>3. \/ tagged' = tagged /\ late' = late
      \/ /\ k = "tag" /\ late' = late
         /\ tagged' = [tagged EXCEPT ![e] = tagged[e] + 1]
      \/ /\ tagged' = tagged
         /\ late' = [late EXCEPT ![k][e] = late[k][e] + 1]
      \/ k # "tag" /\ tagged' = tagged /\ late' = late
    BY DEF At, Succeeds, Fails, Works, chain
<1>4. CASE k # "tag" \/ e # f
    <2>1. tagged'[f] = tagged[f] /\ late'["tag"][f] = late["tag"][f]
        BY <1>3, <1>4 DEF TypeOK, Commands
    <2>2. Cardinality(Taggers(f)') \in Nat /\ Cardinality(Taggers(f)') <= Cardinality(Taggers(f))
        BY <1>1, FewerTaggers
    <2> QED
        BY <1>0, <2>1, <2>2 DEF Rules
<1>5. CASE k = "tag" /\ e = f
    <2>1. t \in Taggers(f)
        BY <1>5 DEF At, Taggers
    <2>2. /\ Cardinality(Taggers(f)') \in Nat
          /\ Cardinality(Taggers(f)') <= Cardinality(Taggers(f)) - 1
        BY <1>1, <1>2, <1>5, <2>1, OneTaggerLess
    <2>3. \/ tagged'[f] = tagged[f] /\ late'["tag"][f] = late["tag"][f]
          \/ tagged'[f] = tagged[f] + 1 /\ late'["tag"][f] = late["tag"][f]
          \/ tagged'[f] = tagged[f] /\ late'["tag"][f] = late["tag"][f] + 1
        BY <1>3, <1>5 DEF TypeOK, Commands
    <2> QED
        BY <1>0, <2>2, <2>3 DEF Rules
<1> QED
    BY <1>4, <1>5

\* Nothing but a verdict adds to the rules there are and may come.
LEMMA StepKeepsOneRule ==
    ASSUME TypeOK, OneRulePerBan, [Next]_vars
    PROVE  OneRulePerBan'
<1>0. \A f \in Entities : /\ tagged[f] \in Nat /\ late["tag"][f] \in Nat
                          /\ Cardinality(Taggers(f)) \in Nat /\ judged[f].ban \in Nat
    BY TaggersAreUnderway DEF TypeOK, Commands
<1>1. \A f \in Entities : Rules(f) <= judged[f].ban
    BY RulesAreOneRulePerBan
<1> SUFFICES ASSUME NEW f \in Entities PROVE Rules(f)' <= judged'[f].ban
    <2>1. ASSUME NEW g \in Entities PROVE Underway("tag", g)' = Taggers(g)'
        BY DEF Underway, Taggers
    <2> QED
        BY <2>1 DEF OneRulePerBan, Rules
<1>2. CASE Rules(f)' <= Rules(f) /\ judged'[f] = judged[f] /\ Rules(f)' \in Int
    BY <1>0, <1>1, <1>2 DEF Rules
<1>3. CASE UNCHANGED <<tagged, late, judged>> /\ Taggers(f)' \subseteq Taggers(f)
    <2>1. Cardinality(Taggers(f)') \in Nat /\ Cardinality(Taggers(f)') <= Cardinality(Taggers(f))
        BY <1>3, FewerTaggers
    <2> QED
        BY <1>0, <1>2, <1>3, <2>1 DEF Rules
<1>4. ASSUME NEW t \in Tasks, NEW e \in Entities, NEW o \in Offences, Decide(t, e, o)
      PROVE  Rules(f)' <= judged'[f].ban
    <2>0. UNCHANGED <<tagged, late>>
        BY <1>4 DEF Decide, chain
    <2>1. CASE Skips(e) \/ Escalation(o, record[e].bans) = 0 \/ e # f
        <3>1. Taggers(f)' \subseteq Taggers(f)
            BY <1>4, <2>1 DEF Decide, Taggers, TypeOK, Operation
        <3>2. judged'[f].ban = judged[f].ban
            BY <1>4, <2>1 DEF Decide, TypeOK
        <3>3. Cardinality(Taggers(f)') \in Nat /\ Cardinality(Taggers(f)') <= Cardinality(Taggers(f))
            BY <3>1, FewerTaggers
        <3> QED
            BY <1>0, <1>1, <2>0, <3>2, <3>3 DEF Rules
    <2>2. CASE ~Skips(e) /\ Escalation(o, record[e].bans) # 0 /\ e = f
        <3>1. Taggers(f)' \subseteq Taggers(f) \cup {t}
            BY <1>4, <2>2 DEF Decide, Taggers, TypeOK
        <3>2. judged'[f].ban = judged[f].ban + 1
            <4>1. judged' = [judged EXCEPT ![e].ban = judged[e].ban + 1]
                BY <1>4, <2>2 DEF Decide, Skips
            <4> QED
                BY <2>2, <4>1 DEF TypeOK
        <3>3. Cardinality(Taggers(f)') \in Nat /\ Cardinality(Taggers(f)') <= Cardinality(Taggers(f)) + 1
            BY <3>1, OneTaggerMore
        <3> QED
            BY <1>0, <1>1, <2>0, <3>2, <3>3 DEF Rules
    <2> QED
        BY <2>1, <2>2
<1>5. ASSUME NEW t \in Tasks, NEW e \in Entities,
             Ban(t, e) \/ Refresh(t, e) \/ RemoveRule(t, e) \/ Readd(t, e)
      PROVE  Rules(f)' <= judged'[f].ban
    <2>1. PICK k \in Commands : At(t, k, e)
        BY <1>5, CommandsShare DEF Commands
    <2>2. Rules(f)' <= Rules(f) /\ judged' = judged
        BY <2>1, CommandsKeepRules DEF At
    <2>3. Rules(f)' \in Int
        <3>1. Taggers(f)' \subseteq Taggers(f)
            BY <2>1, EndStartsNothing DEF At, Succeeds, Fails, GiveUp, Taggers
        <3>2. Cardinality(Taggers(f)') \in Nat
            BY <3>1, FewerTaggers
        <3>3. TypeOK'
            BY StepKeepsTypes
        <3>4. tagged'[f] \in Nat /\ late'["tag"][f] \in Nat
            BY <3>3 DEF TypeOK, Commands
        <3> QED
            BY <3>2, <3>4 DEF Rules
    <2> QED
        BY <1>2, <2>2, <2>3
<1>6. ASSUME NEW t \in Tasks, NEW e \in Entities, Exists(t, e)
      PROVE  Rules(f)' <= judged'[f].ban
    <2>1. Taggers(f)' \subseteq Taggers(f)
        <3>1. CASE task' = [task EXCEPT ![t].pc = "add"]
            BY <3>1 DEF Taggers, TypeOK
        <3>2. CASE End(t, e)
            BY <3>2, EndStartsNothing DEF Taggers
        <3> QED
            BY <1>6, <3>1, <3>2 DEF Exists
    <2> QED
        BY <1>3, <1>6, <2>1 DEF Exists, chain
<1>7. ASSUME NEW t \in Tasks, NEW e \in Entities, Unban(t, e) \/ Synchronize(t)
      PROVE  Rules(f)' <= judged'[f].ban
    <2>1. ASSUME NEW s \in Tasks
          PROVE  task'[s] = task[s] \/ task'[s].pc \in {"drop", "sync"}
        <3>1. CASE Unban(t, e)
            BY <3>1 DEF Unban, TypeOK
        <3>2. CASE Synchronize(t)
            BY <3>2 DEF Synchronize, TypeOK
        <3> QED
            BY <1>7, <3>1, <3>2
    <2>2. Taggers(f)' \subseteq Taggers(f)
        BY <2>1 DEF Taggers
    <2> QED
        BY <1>3, <1>7, <2>2 DEF Unban, Synchronize, chain
<1>8. ASSUME NEW e \in Entities, Protect(e)
      PROVE  Rules(f)' <= judged'[f].ban
    <2>1. Taggers(f)' = Taggers(f)
        BY <1>8 DEF Protect, Taggers
    <2> QED
        BY <1>3, <1>8, <2>1 DEF Protect, chain
<1>9. ASSUME NEW k \in Commands, NEW e \in Entities, LateCommand(k, e)
      PROVE  Rules(f)' <= judged'[f].ban
    <2>1. UNCHANGED <<task, judged>> /\ Works(k, e) /\ late[k][e] > 0
          /\ late' = [late EXCEPT ![k][e] = late[k][e] - 1]
        BY <1>9 DEF LateCommand
    <2>2. Taggers(f)' = Taggers(f)
        BY <2>1 DEF Taggers
    <2>3. tagged'[f] + late'["tag"][f] \in Int /\ tagged'[f] + late'["tag"][f] = tagged[f] + late["tag"][f]
        <3>1. CASE k = "tag"
            <4>1. tagged' = [tagged EXCEPT ![e] = tagged[e] + 1]
                BY <2>1, <3>1 DEF Works
            <4>2. tagged'[f] = IF e = f THEN tagged[f] + 1 ELSE tagged[f]
                BY <4>1 DEF TypeOK
            <4>3. late'["tag"][f] = IF e = f THEN late["tag"][f] - 1 ELSE late["tag"][f]
                BY <2>1, <3>1 DEF TypeOK
            <4> QED
                BY <1>0, <4>2, <4>3
        <3>2. CASE k # "tag"
            <4>1. tagged' = tagged
                BY <2>1, <3>2 DEF Works
            <4> QED
                BY <1>0, <2>1, <3>2, <4>1 DEF TypeOK, Commands
        <3> QED
            BY <3>1, <3>2
    <2> QED
        BY <1>0, <1>1, <2>1, <2>2, <2>3 DEF Rules
<1>10. CASE Restart
    <2>1. tagged' = tagged /\ judged' = judged /\ task' = Cut
        BY <1>10 DEF Restart
    <2>2. late'["tag"][f] = late["tag"][f] + Cardinality(Taggers(f))
        BY <1>10, TaggersAreUnderway DEF Restart, Commands
    <2>3. Taggers(f)' = {}
        BY <2>1 DEF Cut, Taggers
    <2>4. Cardinality(Taggers(f)') = 0
        BY <2>3, FS_EmptySet
    <2> QED
        BY <1>0, <1>1, <2>1, <2>2, <2>4 DEF Rules
<1>11. CASE UNCHANGED vars
    <2>1. Taggers(f)' = Taggers(f)
        BY <1>11 DEF Taggers, vars
    <2> QED
        BY <1>3, <1>11, <2>1 DEF vars, chain
<1>12. ASSUME NEW t \in Tasks, Synchronize(t)
       PROVE  Rules(f)' <= judged'[f].ban
    BY <1>7, <1>12
<1> QED
    BY <1>4, <1>5, <1>6, <1>7, <1>8, <1>9, <1>10, <1>11, <1>12 DEF Next

LEMMA InitHasNoRules ==
    Init => OneRulePerBan
<1> SUFFICES ASSUME Init, NEW f \in Entities
             PROVE  tagged[f] + late["tag"][f] + Cardinality(Underway("tag", f)) <= judged[f].ban
    BY DEF OneRulePerBan
<1>1. Underway("tag", f) = {}
    BY DEF Init, Underway
<1>2. Cardinality(Underway("tag", f)) = 0
    BY <1>1, FS_EmptySet
<1>3. tagged[f] = 0 /\ late["tag"][f] = 0 /\ judged[f].ban = 0
    BY DEF Init, Commands
<1> QED
    BY <1>2, <1>3

-----------------------------------------------------------------------------
(* The theorems *)

\* The record always tells which offence and how many bans made its level.
THEOREM Explained == Spec => []EnforcementInv
<1>1. Init => EnforcementInv
    BY InitHolds
<1>2. EnforcementInv /\ [Next]_vars => EnforcementInv'
    BY StepKeepsTypes, StepKeepsRecord DEF EnforcementInv
<1> QED
    BY <1>1, <1>2, PTL DEF Spec

\* The variables of engine, backend and chain keep their types.
THEOREM EnforcementTypeCorrect == Spec => []TypeOK
<1>1. EnforcementInv => TypeOK
    BY DEF EnforcementInv
<1> QED
    BY <1>1, Explained, PTL

\* calculate_escalation, through BanHistory, never eases: the same offence again gets
\* the same level or a higher one.
THEOREM EscalationNeverEases == Spec => NeverMilder
<1>1. EnforcementInv /\ [Next]_vars => NeverMilderStep
    BY StepKeepsRecord
<1>2. EnforcementInv /\ [Next]_vars => [NeverMilderStep]_vars
    BY <1>1
<1> QED
    BY <1>2, Explained, PTL DEF Spec, NeverMilder

\* No rule, command under way or entry of _desired is about an entity that no verdict
\* condemned while neither whitelist nor exemption protected it.
THEOREM JudgedBeforeBlocked == Spec => []OnlyTheJudgedAreBlocked
<1>1. Init => OnlyTheJudgedAreBlocked
    BY InitHolds
<1>2. TypeOK /\ OnlyTheJudgedAreBlocked /\ [Next]_vars => OnlyTheJudgedAreBlocked'
    BY StepKeepsJudged
<1> QED
    BY <1>1, <1>2, EnforcementTypeCorrect, PTL DEF Spec

\* What FirewallState calls desired has a rule in the chain.
THEOREM DesiredStaysBlocked == Spec => []DesiredIsBlocked
<1>1. Init => DesiredIsBlocked
    BY InitHolds
<1>2. TypeOK /\ DesiredIsBlocked /\ [Next]_vars => DesiredIsBlocked'
    BY StepKeepsDesired
<1> QED
    BY <1>1, <1>2, EnforcementTypeCorrect, PTL DEF Spec

\* Tagged rules, commands for one and tasks about to issue one are no more than the bans
\* that were decided.
THEOREM BansTagOnce == Spec => []OneRulePerBan
<1>1. TypeOK /\ OneRulePerBan /\ [Next]_vars => OneRulePerBan'
    BY StepKeepsOneRule
<1> QED
    BY <1>1, InitHasNoRules, EnforcementTypeCorrect, PTL DEF Spec

\* The three facts about the chain, the backend's belief and the verdicts, together.
THEOREM EnforcementSound == Spec => []EnforcementIsSound
BY JudgedBeforeBlocked, DesiredStaysBlocked, BansTagOnce, PTL DEF EnforcementIsSound

-----------------------------------------------------------------------------
(* The detectors.                                                          *)

DetectorAt == [name : DetectorNames, enabled : BOOLEAN]

NamedOnce(ds) == \A i, j \in 1 .. Len(ds) : ds[i].name = ds[j].name => i = j

\* An analysis has passed k of the detectors it began with.
Reached(a, k) ==
    /\ k \in 0 .. Len(a.began) /\ a.todo = SubSeq(a.began, k + 1, Len(a.began))
    /\ \A n \in a.failed \cup a.silent : \E i \in 1 .. k : a.began[i] = n
    /\ a.results = Sifted(SubSeq(a.began, 1, k), Wanted(a))
AnalysisIsSound(a) ==
    /\ a.phase = "running" => NoneTwice(a.began) /\ \E k \in 0 .. Len(a.began) : Reached(a, k)
    /\ a.phase = "returned" => a.results = Sifted(a.began, Wanted(a))

DetectorInv ==
    /\ detectors \in Seq(DetectorAt) /\ NamedOnce(detectors)
    /\ analysis \in Analyses /\ AnalysisIsSound(analysis)

LEMMA SiftedNone == ASSUME NEW A PROVE Sifted(<<>>, A) = <<>>
<1>1. PICK e : e = <<>>
  OBVIOUS
<1>2. PICK X : X = {0}
  OBVIOUS
<1>3. e \in Seq(X) /\ Len(e) = 0
  BY <1>1
<1>4. PICK q : q = Sifted(e, A)
  OBVIOUS
<1>5. q \in Seq(X) /\ Len(q) \in Nat /\ Len(q) <= Len(e)
  BY <1>3, <1>4, SiftedElements
<1>6. q = <<>>
  BY <1>3, <1>5
<1> QED
  BY <1>1, <1>4, <1>6

LEMMA NewAnalyses ==
    ASSUME NEW e \in AnalyzedEvents
    PROVE  NewAnalysis(e) \in Analyses /\ NewAnalysis(e).phase = "new"
  BY DEF NewAnalysis, Analyses

LEMMA InitDetectors == DetectorsInit => DetectorInv
<1> SUFFICES ASSUME DetectorsInit PROVE DetectorInv
  OBVIOUS
<1>1. detectors = <<>>
  BY DEF DetectorsInit
<1>2. PICK e \in AnalyzedEvents : analysis = NewAnalysis(e)
  BY DEF DetectorsInit
<1>3. analysis \in Analyses /\ analysis.phase = "new"
  BY <1>2, NewAnalyses
<1>4. detectors \in Seq(DetectorAt) /\ NamedOnce(detectors)
  BY <1>1 DEF NamedOnce
<1> QED
  BY <1>3, <1>4 DEF DetectorInv, AnalysisIsSound

\* Detectors picked out are named once if all are.
LEMMA NamedOnceSifted ==
    ASSUME NEW ds \in Seq(DetectorAt), NEW A, NEW q, q = Sifted(ds, A), NamedOnce(ds)
    PROVE  q \in Seq(DetectorAt) /\ NamedOnce(q)
<1>1. q \in Seq(DetectorAt) /\ \E at : ArePlaces(at, q, ds, A, Len(ds))
  BY SiftedPlaces
<1>2. PICK at : ArePlaces(at, q, ds, A, Len(ds))
  BY <1>1
<1>3. /\ at \in [1 .. Len(q) -> 1 .. Len(ds)]
      /\ \A k \in 1 .. Len(q) : q[k] = ds[at[k]]
      /\ \A k, l \in 1 .. Len(q) : k < l => at[k] < at[l]
  BY <1>2 DEF ArePlaces
<1>4. Len(q) \in Nat /\ Len(ds) \in Nat
  BY <1>1
<1>5. ASSUME NEW k \in 1 .. Len(q), NEW l \in 1 .. Len(q), q[k].name = q[l].name PROVE k = l
  <2>1. at[k] \in 1 .. Len(ds) /\ at[l] \in 1 .. Len(ds) /\ at[k] = at[l]
    BY <1>3, <1>5 DEF NamedOnce
  <2>2. ~(k < l) /\ ~(l < k)
    BY <1>3, <1>4, <2>1
  <2> QED
    BY <1>4, <2>2
<1> QED
  BY <1>1, <1>5 DEF NamedOnce

LEMMA ListIsOnce ==
    ASSUME DetectorInv PROVE ListEnabled \in Seq(DetectorNames) /\ NoneTwice(ListEnabled)
<1>1. PICK A : A = {d \in ToSet(detectors) : d.enabled}
  OBVIOUS
<1>2. PICK q : q = Sifted(detectors, A)
  OBVIOUS
<1>3. q \in Seq(DetectorAt) /\ NamedOnce(q)
  BY <1>2, NamedOnceSifted DEF DetectorInv
<1>4. PICK called : called = NamesOf(q)
  OBVIOUS
<1>5. Len(q) \in Nat /\ \A i \in 1 .. Len(q) : q[i].name \in DetectorNames
  <2>1. Len(q) \in Nat
    BY <1>3
  <2>2. ASSUME NEW i \in 1 .. Len(q) PROVE q[i].name \in DetectorNames
    <3>1. q[i] \in DetectorAt
      BY <1>3
    <3> QED
      BY <3>1 DEF DetectorAt
  <2> QED
    BY <2>1, <2>2
<1>6. called = [i \in 1 .. Len(q) |-> q[i].name]
  BY <1>3, <1>4 DEF NamesOf
<1>7. called \in Seq(DetectorNames) /\ Len(called) = Len(q)
  BY <1>5, <1>6
<1>8. NoneTwice(called)
  BY <1>3, <1>6, <1>7 DEF NoneTwice, NamedOnce
<1> QED
  BY <1>1, <1>2, <1>4, <1>7, <1>8 DEF ListEnabled

LEMMA RegistrySteps ==
    ASSUME DetectorInv, detectors' \in Seq(DetectorAt), NamedOnce(detectors'), analysis' = analysis
    PROVE  DetectorInv'
<1>1. AnalysisIsSound(analysis)'
  BY DEF DetectorInv, AnalysisIsSound, Reached, Wanted, NoneTwice, CanProcess
<1>2. NamedOnce(detectors)'
  BY DEF NamedOnce
<1> QED
  BY <1>1, <1>2 DEF DetectorInv, Analyses

LEMMA EnabledKeeps ==
    ASSUME NEW ds \in Seq(DetectorAt), NamedOnce(ds), NEW n \in DetectorNames, NEW on \in BOOLEAN,
           NEW new, new = WithEnabled(ds, n, on)
    PROVE  new \in Seq(DetectorAt) /\ NamedOnce(new)
<1>1. new = [i \in 1 .. Len(ds) |-> IF ds[i].name = n THEN [ds[i] EXCEPT !.enabled = on] ELSE ds[i]]
  BY DEF WithEnabled
<1>2. ASSUME NEW i \in 1 .. Len(ds) PROVE new[i] \in DetectorAt /\ new[i].name = ds[i].name
  <2>1. ds[i] \in DetectorAt
    OBVIOUS
  <2>2. CASE ds[i].name = n
    <3>1. new[i] = [ds[i] EXCEPT !.enabled = on]
      BY <1>1, <2>2
    <3> QED
      BY <2>1, <3>1 DEF DetectorAt
  <2>3. CASE ds[i].name # n
    BY <1>1, <2>1, <2>3
  <2> QED
    BY <2>2, <2>3
<1>3. Len(ds) \in Nat
  OBVIOUS
<1>4. new \in Seq(DetectorAt) /\ Len(new) = Len(ds)
  BY <1>1, <1>2, <1>3
<1> QED
  BY <1>2, <1>4 DEF NamedOnce

LEMMA RegistersKeep ==
    ASSUME DetectorInv, NEW n \in DetectorNames,
           \/ RegisterDetector(n) \/ UnregisterDetector(n)
           \/ \E on \in BOOLEAN : SetEnabled(n, on)
    PROVE  DetectorInv'
<1>1. detectors \in Seq(DetectorAt) /\ NamedOnce(detectors)
  BY DEF DetectorInv
<1>2. analysis' = analysis
  BY DEF RegisterDetector, UnregisterDetector, SetEnabled
<1>3. CASE RegisterDetector(n)
  <2>1. PICK new \in DetectorAt : new = [name |-> n, enabled |-> TRUE]
    BY DEF DetectorAt
  <2>2. PICK ds : ds = Append(detectors, new)
    OBVIOUS
  <2>3. detectors' = ds
    BY <1>3, <2>1, <2>2 DEF RegisterDetector
  <2>4. ds \in Seq(DetectorAt) /\ Len(ds) = Len(detectors) + 1 /\ Len(detectors) \in Nat
        /\ ds[Len(detectors) + 1] = new /\ \A i \in 1 .. Len(detectors) : ds[i] = detectors[i]
    BY <1>1, <2>2
  <2>5. ASSUME NEW i \in 1 .. Len(detectors) PROVE ds[i].name # n
    <3>1. NamesOf(detectors)[i] = detectors[i].name /\ i \in DOMAIN NamesOf(detectors)
      BY <1>1 DEF NamesOf
    <3>2. detectors[i].name \in Registered
      BY <3>1 DEF Registered, ToSet
    <3> QED
      BY <1>3, <2>4, <3>2 DEF RegisterDetector
  <2>6. NamedOnce(ds)
    <3>1. \A i \in 1 .. Len(ds) : i = Len(detectors) + 1 \/ i \in 1 .. Len(detectors)
      BY <2>4
    <3>2. new.name = n
      BY <2>1
    <3>3. \A i, j \in 1 .. Len(detectors) : ds[i].name = ds[j].name => i = j
      BY <1>1, <2>4 DEF NamedOnce
    <3> QED
      BY <2>4, <2>5, <3>1, <3>2, <3>3 DEF NamedOnce
  <2> QED
    BY <1>2, <2>3, <2>4, <2>6, RegistrySteps
<1>4. CASE UnregisterDetector(n)
  <2>1. PICK A : A = {d \in ToSet(detectors) : d.name # n}
    OBVIOUS
  <2>2. PICK q : q = Sifted(detectors, A)
    OBVIOUS
  <2>3. q \in Seq(DetectorAt) /\ NamedOnce(q)
    BY <1>1, <2>2, NamedOnceSifted
  <2>4. detectors' = q
    BY <1>4, <2>1, <2>2 DEF UnregisterDetector
  <2> QED
    BY <1>2, <2>3, <2>4, RegistrySteps
<1>5. CASE \E on \in BOOLEAN : SetEnabled(n, on)
  <2>1. PICK on \in BOOLEAN : detectors' = WithEnabled(detectors, n, on)
    BY <1>5 DEF SetEnabled
  <2>2. PICK q : q = WithEnabled(detectors, n, on)
    OBVIOUS
  <2>3. q \in Seq(DetectorAt) /\ NamedOnce(q)
    BY <1>1, <2>2, EnabledKeeps
  <2> QED
    BY <1>2, <2>1, <2>2, <2>3, RegistrySteps
<1> QED
  BY <1>3, <1>4, <1>5

\* A failed initialisation disables its detector, whichever that is.
LEMMA InitializeKeeps ==
    ASSUME DetectorInv, NEW fails \in BOOLEAN, InitializeDetector(fails) PROVE DetectorInv'
<1>1. detectors \in Seq(DetectorAt) /\ NamedOnce(detectors)
  BY DEF DetectorInv
<1>2. analysis' = analysis
  BY DEF InitializeDetector
<1>3. PICK n : n = Head(initializing.todo)
  OBVIOUS
<1>4. CASE detectors' = detectors
  BY <1>1, <1>2, <1>4, RegistrySteps
<1>5. CASE detectors' = WithEnabled(detectors, n, FALSE)
  <2>1. CASE n \in DetectorNames
    <3>1. PICK q : q = WithEnabled(detectors, n, FALSE)
      OBVIOUS
    <3>2. q \in Seq(DetectorAt) /\ NamedOnce(q)
      BY <1>1, <2>1, <3>1, EnabledKeeps
    <3> QED
      BY <1>2, <1>5, <3>1, <3>2, RegistrySteps
  <2>2. CASE n \notin DetectorNames
    <3>1. ASSUME NEW i \in DOMAIN detectors PROVE detectors[i].name # n
      <4>1. detectors[i] \in DetectorAt
        BY <1>1
      <4> QED
        BY <2>2, <4>1 DEF DetectorAt
    <3>2. WithEnabled(detectors, n, FALSE) = [i \in DOMAIN detectors |-> detectors[i]]
      BY <3>1 DEF WithEnabled
    <3>3. detectors = [i \in DOMAIN detectors |-> detectors[i]]
      BY <1>1
    <3> QED
      BY <1>4, <1>5, <3>2, <3>3
  <2> QED
    BY <2>1, <2>2
<1> QED
  BY <1>3, <1>4, <1>5 DEF InitializeDetector

-----------------------------------------------------------------------------
LEMMA BeginAnalysisKeeps ==
    ASSUME DetectorInv, NEW e \in AnalyzedEvents, BeginAnalysis(e) PROVE DetectorInv'
<1>1. PICK list \in Seq(DetectorNames) : list = ListEnabled /\ NoneTwice(list)
  BY ListIsOnce
<1>2. PICK a : a = [NewAnalysis(e) EXCEPT !.phase = "running", !.todo = list, !.began = list]
  OBVIOUS
<1>3. /\ a \in Analyses /\ a.phase = "running" /\ a.todo = list /\ a.began = list
      /\ a.failed = {} /\ a.silent = {} /\ a.results = <<>>
  <2>1. /\ NewAnalysis(e) \in Analyses /\ NewAnalysis(e).failed = {} /\ NewAnalysis(e).silent = {}
        /\ NewAnalysis(e).results = <<>>
    BY NewAnalyses DEF NewAnalysis
  <2> QED
    BY <1>2, <2>1 DEF Analyses
<1>4. Reached(a, 0)
  <2>1. Len(list) \in Nat /\ SubSeq(list, 0 + 1, Len(list)) = list
    OBVIOUS
  <2>2. SubSeq(list, 1, 0) = <<>>
    OBVIOUS
  <2>3. Sifted(SubSeq(list, 1, 0), Wanted(a)) = <<>>
    BY <2>2, SiftedNone
  <2>4. a.results = Sifted(SubSeq(a.began, 1, 0), Wanted(a))
    BY <1>3, <2>3
  <2>5. a.todo = SubSeq(a.began, 0 + 1, Len(a.began)) /\ 0 \in 0 .. Len(a.began)
    BY <1>3, <2>1
  <2>6. \A n \in a.failed \cup a.silent : \E i \in 1 .. 0 : a.began[i] = n
    BY <1>3
  <2> QED
    BY <2>4, <2>5, <2>6 DEF Reached
<1>5. AnalysisIsSound(a)
  <2>1. 0 \in 0 .. Len(a.began)
    BY <1>3
  <2> QED
    BY <1>1, <1>3, <1>4, <2>1 DEF AnalysisIsSound
<1>6. analysis' = a /\ detectors' = detectors
  BY <1>1, <1>2 DEF BeginAnalysis
<1>7. AnalysisIsSound(analysis)'
  BY <1>5, <1>6 DEF AnalysisIsSound, Reached, Wanted, NoneTwice, CanProcess
<1> QED
  BY <1>3, <1>6, <1>7 DEF DetectorInv, Analyses, NamedOnce

\* The visited detector is done with: it may have failed or been silent, and its result is kept
\* if it is wanted now.
LEMMA VisitEnds ==
    ASSUME DetectorInv, Passing, NEW new \in Analyses, analysis' = new, detectors' = detectors,
           new.phase = "running", new.event = analysis.event, new.began = analysis.began,
           new.todo = Tail(analysis.todo),
           analysis.failed \subseteq new.failed, analysis.silent \subseteq new.silent,
           new.failed \cup new.silent \subseteq analysis.failed \cup analysis.silent \cup {Visited},
           new.results = IF Visited \in Wanted(new) THEN Append(analysis.results, Visited)
                         ELSE analysis.results
    PROVE  DetectorInv'
<1>1. PICK k \in 0 .. Len(analysis.began) : Reached(analysis, k)
  BY DEF DetectorInv, AnalysisIsSound, Passing
<1>2. PICK b \in Seq(DetectorNames) : b = analysis.began /\ NoneTwice(b)
  BY DEF DetectorInv, AnalysisIsSound, Passing, Analyses
<1>3. Len(b) \in Nat /\ k \in 0 .. Len(b) /\ analysis.todo = SubSeq(b, k + 1, Len(b)) /\ analysis.todo # <<>>
  BY <1>1, <1>2 DEF Reached, Passing
<1>4. k + 1 \in 1 .. Len(b) /\ Visited = b[k + 1] /\ Tail(analysis.todo) = SubSeq(b, k + 2, Len(b))
  <2>1. k + 1 <= Len(b)
    BY <1>3
  <2>2. Head(analysis.todo) = b[k + 1]
    BY <1>3, <2>1
  <2>3. Tail(analysis.todo) = SubSeq(b, k + 2, Len(b))
    BY <1>3, <2>1
  <2> QED
    BY <1>3, <2>1, <2>2, <2>3 DEF Visited
<1>5. PICK s : s = SubSeq(b, 1, k)
  OBVIOUS
<1>6. PICK t : t = SubSeq(b, 1, k + 1)
  OBVIOUS
<1>7. s \in Seq(DetectorNames) /\ Len(s) = k /\ \A i \in 1 .. k : s[i] = b[i]
  BY <1>3, <1>5
<1>8. t \in Seq(DetectorNames) /\ Len(t) = k + 1 /\ \A i \in 1 .. k + 1 : t[i] = b[i]
  BY <1>3, <1>4, <1>6
<1>9. PICK A, B : A = Wanted(analysis) /\ B = Wanted(new)
  OBVIOUS
<1>10. ASSUME NEW i \in 1 .. Len(s) PROVE s[i] = t[i] /\ (s[i] \in A <=> s[i] \in B)
  <2>1. i \in 1 .. Len(b) /\ i # k + 1 /\ s[i] = b[i] /\ t[i] = b[i] /\ i \in 1 .. k
    BY <1>3, <1>4, <1>7, <1>8
  <2>2. b[i] # Visited
    BY <1>2, <1>4, <2>1 DEF NoneTwice
  <2>3. b[i] \in new.failed \cup new.silent <=> b[i] \in analysis.failed \cup analysis.silent
    BY <2>2
  <2> QED
    BY <1>9, <2>1, <2>3 DEF Wanted
<1>11. Sifted(t, B) = IF t[Len(t)] \in B THEN Append(Sifted(s, A), t[Len(t)]) ELSE Sifted(s, A)
  <2>1. Len(s) <= Len(t) /\ Len(t) = Len(s) + 1
    BY <1>3, <1>7, <1>8
  <2> QED
    BY <1>7, <1>8, <1>10, <2>1, SiftedFromLeft
<1>12. t[Len(t)] = Visited
  BY <1>3, <1>4, <1>8
<1>13. analysis.results = Sifted(s, A)
  BY <1>1, <1>2, <1>5, <1>9 DEF Reached
<1>14. new.results = Sifted(t, B)
  BY <1>9, <1>11, <1>12, <1>13
<1>15. Reached(new, k + 1)
  <2>1. new.todo = SubSeq(new.began, (k + 1) + 1, Len(new.began)) /\ k + 1 \in 0 .. Len(new.began)
    <3>1. (k + 1) + 1 = k + 2 /\ k + 1 \in 0 .. Len(b)
      BY <1>3, <1>4
    <3>2. new.began = b /\ new.todo = SubSeq(b, k + 2, Len(b))
      BY <1>2, <1>4
    <3> QED
      BY <3>1, <3>2
  <2>2. ASSUME NEW n \in new.failed \cup new.silent PROVE \E i \in 1 .. k + 1 : new.began[i] = n
    <3>1. CASE n = Visited
      BY <1>2, <1>3, <1>4, <3>1
    <3>2. CASE n # Visited
      <4>1. n \in analysis.failed \cup analysis.silent
        BY <2>2, <3>2
      <4>2. PICK i \in 1 .. k : analysis.began[i] = n
        BY <1>1, <4>1 DEF Reached
      <4> QED
        BY <1>3, <4>2
    <3> QED
      BY <3>1, <3>2
  <2>3. new.results = Sifted(SubSeq(new.began, 1, k + 1), Wanted(new))
    BY <1>2, <1>6, <1>9, <1>14
  <2> QED
    BY <2>1, <2>2, <2>3 DEF Reached
<1>16. AnalysisIsSound(new)
  <2>1. k + 1 \in 0 .. Len(new.began)
    BY <1>15 DEF Reached
  <2> QED
    BY <1>2, <1>15, <2>1 DEF AnalysisIsSound
<1>17. AnalysisIsSound(analysis)'
  BY <1>16 DEF AnalysisIsSound, Reached, Wanted, NoneTwice, CanProcess
<1> QED
  BY <1>17 DEF DetectorInv, Analyses, NamedOnce

LEMMA VisitsKeep ==
    ASSUME DetectorInv,
           SkipDetector \/ DetectorRaises \/ \E finds \in BOOLEAN : DetectorAnswers(finds)
    PROVE  DetectorInv'
<1>1. Passing /\ detectors' = detectors
  BY DEF SkipDetector, DetectorRaises, DetectorAnswers
<1>2. PICK a \in Analyses : a = analysis
  BY DEF DetectorInv
<1>3. PICK n \in DetectorNames : n = Visited
  BY <1>1, <1>2 DEF Passing, Visited, Analyses
<1>4. PICK rest \in Seq(DetectorNames) : rest = Tail(a.todo)
  <2>1. PICK t \in Seq(DetectorNames) : t = a.todo
    BY DEF Analyses
  <2>2. t # <<>>
    BY <1>1, <1>2, <2>1 DEF Passing
  <2>3. Tail(t) \in Seq(DetectorNames)
    BY <2>2
  <2> QED
    BY <2>1, <2>3
<1>5. n \notin a.failed \cup a.silent
  <2>1. PICK k \in 0 .. Len(a.began) : Reached(a, k)
    BY <1>1, <1>2 DEF DetectorInv, AnalysisIsSound, Passing
  <2>2. PICK b \in Seq(DetectorNames) : b = a.began /\ NoneTwice(b)
    BY <1>1, <1>2 DEF DetectorInv, AnalysisIsSound, Passing, Analyses
  <2>3. Len(b) \in Nat /\ k \in 0 .. Len(b) /\ a.todo = SubSeq(b, k + 1, Len(b)) /\ a.todo # <<>>
    BY <1>1, <1>2, <2>1, <2>2 DEF Reached, Passing
  <2>4. k + 1 \in 1 .. Len(b)
    BY <2>3
  <2>5. n = b[k + 1]
    BY <1>2, <1>3, <2>3, <2>4 DEF Visited
  <2>6. ASSUME n \in a.failed \cup a.silent PROVE FALSE
    <3>1. PICK i \in 1 .. k : a.began[i] = n
      BY <2>1, <2>6 DEF Reached
    <3>2. i \in 1 .. Len(b) /\ i # k + 1 /\ b[i] = b[k + 1]
      BY <2>2, <2>3, <2>5, <3>1
    <3> QED
      BY <2>2, <2>4, <3>2 DEF NoneTwice
  <2> QED
    BY <2>6
<1>6. CASE SkipDetector
  <2>1. PICK new : new = [a EXCEPT !.todo = rest]
    OBVIOUS
  <2>2. /\ new \in Analyses /\ new.phase = a.phase /\ new.event = a.event /\ new.began = a.began
        /\ new.todo = rest /\ new.failed = a.failed /\ new.silent = a.silent /\ new.results = a.results
    BY <1>2, <1>4, <2>1 DEF Analyses
  <2>3. analysis' = new /\ ~CanProcess(n, a.event)
    BY <1>2, <1>3, <1>4, <1>6, <2>1 DEF SkipDetector
  <2>4. n \notin Wanted(new)
    BY <2>2, <2>3 DEF Wanted
  <2> QED
    BY <1>1, <1>2, <1>3, <1>4, <2>2, <2>3, <2>4, VisitEnds DEF Passing
<1>7. CASE DetectorRaises
  <2>1. PICK new : new = [a EXCEPT !.todo = rest, !.failed = @ \cup {n}]
    OBVIOUS
  <2>2. /\ new \in Analyses /\ new.phase = a.phase /\ new.event = a.event /\ new.began = a.began
        /\ new.todo = rest /\ new.failed = a.failed \cup {n} /\ new.silent = a.silent
        /\ new.results = a.results
    BY <1>2, <1>4, <2>1 DEF Analyses
  <2>3. analysis' = new
    BY <1>2, <1>3, <1>4, <1>7, <2>1 DEF DetectorRaises, AfterFailure, Visited
  <2>4. n \notin Wanted(new)
    BY <2>2 DEF Wanted
  <2> QED
    BY <1>1, <1>2, <1>3, <1>4, <2>2, <2>3, <2>4, VisitEnds DEF Passing
<1>8. ASSUME DetectorAnswers(TRUE) PROVE DetectorInv'
  <2>1. PICK out : out = Append(a.results, n)
    OBVIOUS
  <2>2. out \in Seq(DetectorNames)
    BY <1>2, <2>1 DEF Analyses
  <2>3. PICK new : new = [a EXCEPT !.todo = rest, !.results = out]
    OBVIOUS
  <2>4. /\ new \in Analyses /\ new.phase = a.phase /\ new.event = a.event /\ new.began = a.began
        /\ new.todo = rest /\ new.failed = a.failed /\ new.silent = a.silent /\ new.results = out
    BY <1>2, <1>4, <2>2, <2>3 DEF Analyses
  <2>5. analysis' = new /\ CanProcess(n, a.event)
    <3>1. [a EXCEPT !.todo = rest, !.results = out, !.silent = a.silent] = new
      BY <1>2, <2>3 DEF Analyses
    <3>2. analysis' = [a EXCEPT !.todo = rest, !.results = out, !.silent = a.silent]
      BY <1>2, <1>3, <1>4, <1>8, <2>1 DEF DetectorAnswers
    <3> QED
      BY <1>2, <1>3, <1>8, <3>1, <3>2 DEF DetectorAnswers
  <2>6. n \in Wanted(new)
    BY <1>5, <2>4, <2>5 DEF Wanted
  <2> QED
    BY <1>1, <1>2, <1>3, <1>4, <2>1, <2>4, <2>5, <2>6, VisitEnds DEF Passing
<1>9. ASSUME DetectorAnswers(FALSE) PROVE DetectorInv'
  <2>1. PICK new : new = [a EXCEPT !.todo = rest, !.silent = @ \cup {n}]
    OBVIOUS
  <2>2. /\ new \in Analyses /\ new.phase = a.phase /\ new.event = a.event /\ new.began = a.began
        /\ new.todo = rest /\ new.failed = a.failed /\ new.silent = a.silent \cup {n}
        /\ new.results = a.results
    BY <1>2, <1>4, <2>1 DEF Analyses
  <2>3. analysis' = new
    <3>1. analysis' = [a EXCEPT !.todo = rest, !.results = a.results, !.silent = @ \cup {n}]
      BY <1>2, <1>3, <1>4, <1>9 DEF DetectorAnswers
    <3>2. [a EXCEPT !.todo = rest, !.results = a.results, !.silent = @ \cup {n}] = new
      BY <1>2, <2>1 DEF Analyses
    <3> QED
      BY <3>1, <3>2
  <2>4. n \notin Wanted(new)
    BY <2>2 DEF Wanted
  <2> QED
    BY <1>1, <1>2, <1>3, <1>4, <2>2, <2>3, <2>4, VisitEnds DEF Passing
<1> QED
  BY <1>6, <1>7, <1>8, <1>9

LEMMA AnalysisEnds ==
    ASSUME DetectorInv, AnalysisCancelled \/ AnalysisReturns PROVE DetectorInv'
<1>1. PICK a \in Analyses : a = analysis
  BY DEF DetectorInv
<1>2. detectors' = detectors
  BY DEF AnalysisCancelled, AnalysisReturns
<1>3. PICK new \in Analyses : analysis' = new /\ AnalysisIsSound(new)
  <2>1. CASE AnalysisCancelled
    <3>4. PICK out : out = <<>>
      OBVIOUS
    <3>5. out \in Seq(DetectorNames)
      BY <3>4
    <3>1. PICK new : new = [a EXCEPT !.phase = "cancelled", !.results = out]
      OBVIOUS
    <3>2. new \in Analyses /\ new.phase = "cancelled"
      BY <3>1, <3>5 DEF Analyses
    <3>3. analysis' = new
      BY <1>1, <2>1, <3>1, <3>4 DEF AnalysisCancelled
    <3> QED
      BY <3>2, <3>3 DEF AnalysisIsSound
  <2>2. CASE AnalysisReturns
    <3>1. PICK new : new = [a EXCEPT !.phase = "returned"]
      OBVIOUS
    <3>2. /\ new \in Analyses /\ new.phase = "returned" /\ new.event = a.event /\ new.began = a.began
          /\ new.failed = a.failed /\ new.silent = a.silent /\ new.results = a.results
      BY <3>1 DEF Analyses
    <3>3. analysis' = new /\ a.phase = "running" /\ a.todo = <<>>
      BY <1>1, <2>2, <3>1 DEF AnalysisReturns
    <3>4. PICK k \in 0 .. Len(a.began) : Reached(a, k)
      BY <1>1, <3>3 DEF DetectorInv, AnalysisIsSound
    <3>5. PICK b \in Seq(DetectorNames) : b = a.began
      BY DEF Analyses
    <3>6. Len(b) \in Nat /\ k \in 0 .. Len(b) /\ SubSeq(b, k + 1, Len(b)) = <<>>
      BY <3>3, <3>4, <3>5 DEF Reached
    <3>7. k = Len(b)
      <4>1. PICK q : q = SubSeq(b, k + 1, Len(b))
        OBVIOUS
      <4>2. Len(q) = 0
        <5>1. q = <<>>
          BY <3>6, <4>1
        <5> QED
          BY <5>1
      <4>3. k < Len(b) => Len(q) = Len(b) - k
        BY <3>6, <4>1
      <4> QED
        BY <3>6, <4>2, <4>3
    <3>8. SubSeq(b, 1, k) = b
      BY <3>6, <3>7
    <3>9. Wanted(new) = Wanted(a)
      BY <3>2 DEF Wanted
    <3>10. new.results = Sifted(new.began, Wanted(new))
      BY <3>2, <3>4, <3>5, <3>8, <3>9 DEF Reached
    <3> QED
      BY <3>2, <3>3, <3>10 DEF AnalysisIsSound
  <2> QED
    BY <2>1, <2>2
<1>4. AnalysisIsSound(analysis)'
  BY <1>3 DEF AnalysisIsSound, Reached, Wanted, NoneTwice, CanProcess
<1> QED
  BY <1>2, <1>3, <1>4 DEF DetectorInv, Analyses, NamedOnce

LEMMA NextDetectors == DetectorInv /\ [DetectorsNext]_detectorVars => DetectorInv'
<1> SUFFICES ASSUME DetectorInv, [DetectorsNext]_detectorVars PROVE DetectorInv'
  OBVIOUS
<1>1. ASSUME UNCHANGED <<detectors, analysis>> PROVE DetectorInv'
  <2>1. detectors' \in Seq(DetectorAt) /\ NamedOnce(detectors')
    BY <1>1 DEF DetectorInv
  <2> QED
    BY <1>1, <2>1, RegistrySteps
<1>2. CASE InitializeAllDetectors \/ InitializeAllEnds \/ ShutdownAllDetectors
  BY <1>1, <1>2 DEF InitializeAllDetectors, InitializeAllEnds, ShutdownAllDetectors
<1>3. CASE UNCHANGED detectorVars
  BY <1>1, <1>3 DEF detectorVars
<1> QED
  BY <1>2, <1>3, RegistersKeep, InitializeKeeps, BeginAnalysisKeeps, VisitsKeep, AnalysisEnds
  DEF DetectorsNext

\* What analyze() returns is complete and in the order of registration, for any detectors, events
\* and number of analyses, whatever fails in one detector and whatever changes in the registry
\* meanwhile (DetectorManager.analyze).
THEOREM AnalysesAreComplete == DetectorsSpec => []ResultsAreComplete
<1>1. DetectorInv => ResultsAreComplete
  BY DEF DetectorInv, AnalysisIsSound, ResultsAreComplete
<1> QED
  BY <1>1, InitDetectors, NextDetectors, PTL DEF DetectorsSpec

CountsAre == [{"calls", "analyzed", "skipped", "failed", "detections"} -> Nat]

\* What the registry's calls and the analyses leave of the rest.
DetectorRest ==
    /\ prepared \subseteq DetectorNames
    /\ initializing \in [running : BOOLEAN, todo : Seq(DetectorNames)]
    /\ detectorCounts \in CountsAre

LEMMA ListedNames == ASSUME NEW ds \in Seq(DetectorAt) PROVE NamesOf(ds) \in Seq(DetectorNames)
<1>1. \A i \in 1 .. Len(ds) : ds[i].name \in DetectorNames
  <2>1. ASSUME NEW i \in 1 .. Len(ds) PROVE ds[i].name \in DetectorNames
    <3>1. ds[i] \in DetectorAt
      OBVIOUS
    <3> QED
      BY <3>1 DEF DetectorAt
  <2> QED
    BY <2>1
<1>2. NamesOf(ds) = [i \in 1 .. Len(ds) |-> ds[i].name]
  BY DEF NamesOf
<1> QED
  BY <1>1, <1>2

LEMMA RestKeeps ==
    ASSUME DetectorInv, DetectorRest, [DetectorsNext]_detectorVars
    PROVE  DetectorRest'
<1>1. ASSUME detectorCounts' = detectorCounts, initializing' = initializing, prepared' \subseteq prepared
      PROVE  DetectorRest'
  BY <1>1 DEF DetectorRest
<1>2. ASSUME NEW n \in DetectorNames, RegisterDetector(n) \/ UnregisterDetector(n) PROVE DetectorRest'
  BY <1>1, <1>2 DEF RegisterDetector, UnregisterDetector
<1>3. ASSUME NEW n \in DetectorNames, NEW on \in BOOLEAN, SetEnabled(n, on) PROVE DetectorRest'
  BY <1>1, <1>3 DEF SetEnabled
<1>4. CASE InitializeAllDetectors
  <2>1. ListAll \in Seq(DetectorNames)
    BY ListedNames DEF ListAll, DetectorInv
  <2> QED
    BY <1>4, <2>1 DEF InitializeAllDetectors, DetectorRest
<1>5. ASSUME NEW fails \in BOOLEAN, InitializeDetector(fails) PROVE DetectorRest'
  <2>1. PICK s \in Seq(DetectorNames) : s = initializing.todo /\ s # <<>>
    BY <1>5 DEF InitializeDetector, DetectorRest
  <2>2. Head(s) \in DetectorNames /\ Tail(s) \in Seq(DetectorNames)
    BY <2>1
  <2>3. \/ initializing' = [running |-> FALSE, todo |-> <<>>]
        \/ initializing' = [initializing EXCEPT !.todo = Tail(s)]
    BY <1>5, <2>1 DEF InitializeDetector
  <2>4. initializing' \in [running : BOOLEAN, todo : Seq(DetectorNames)]
    <3>1. PICK T : T = Seq(DetectorNames)
      OBVIOUS
    <3>2. initializing \in [running : BOOLEAN, todo : T] /\ Tail(s) \in T
      BY <2>2, <3>1 DEF DetectorRest
    <3>3. PICK none : none = <<>>
      OBVIOUS
    <3>4. none \in T
      BY <3>1, <3>3
    <3>5. [running |-> FALSE, todo |-> none] \in [running : BOOLEAN, todo : T]
      BY <3>4
    <3>6. [initializing EXCEPT !.todo = Tail(s)] \in [running : BOOLEAN, todo : T]
      BY <3>2
    <3> QED
      BY <2>3, <3>1, <3>3, <3>5, <3>6
  <2>5. prepared' \subseteq DetectorNames
    BY <1>5, <2>1, <2>2 DEF InitializeDetector, DetectorRest
  <2> QED
    BY <1>5, <2>4, <2>5 DEF InitializeDetector, DetectorRest
<1>6. CASE InitializeAllEnds
  BY <1>6 DEF InitializeAllEnds, DetectorRest
<1>7. CASE ShutdownAllDetectors
  BY <1>1, <1>7 DEF ShutdownAllDetectors
<1>8. ASSUME NEW c \in CountsAre PROVE /\ [c EXCEPT !.calls = @ + 1] \in CountsAre
                                       /\ [c EXCEPT !.skipped = @ + 1] \in CountsAre
                                       /\ [c EXCEPT !.failed = @ + 1] \in CountsAre
                                       /\ \A x \in {0, 1} : [c EXCEPT !.analyzed = @ + 1, !.detections = @ + x] \in CountsAre
  <2>1. [c EXCEPT !.calls = @ + 1] \in CountsAre
    BY DEF CountsAre
  <2>2. [c EXCEPT !.skipped = @ + 1] \in CountsAre
    BY DEF CountsAre
  <2>3. [c EXCEPT !.failed = @ + 1] \in CountsAre
    BY DEF CountsAre
  <2>4. ASSUME NEW x \in {0, 1} PROVE [c EXCEPT !.analyzed = @ + 1, !.detections = @ + x] \in CountsAre
    <3>1. PICK d : d = [c EXCEPT !.analyzed = @ + 1]
      OBVIOUS
    <3>2. d \in CountsAre
      BY <3>1 DEF CountsAre
    <3>3. x \in Nat
      OBVIOUS
    <3>4. [d EXCEPT !.detections = @ + x] \in CountsAre
      BY <3>2, <3>3 DEF CountsAre
    <3>5. [c EXCEPT !.analyzed = @ + 1, !.detections = @ + x] = [d EXCEPT !.detections = @ + x]
      BY <3>1 DEF CountsAre
    <3> QED
      BY <3>4, <3>5
  <2> QED
    BY <2>1, <2>2, <2>3, <2>4
<1>9. ASSUME NEW e \in AnalyzedEvents, BeginAnalysis(e) PROVE DetectorRest'
  BY <1>8, <1>9 DEF BeginAnalysis, DetectorRest
<1>10. CASE SkipDetector \/ DetectorRaises \/ AnalysisCancelled \/ AnalysisReturns
  BY <1>1, <1>8, <1>10 DEF SkipDetector, DetectorRaises, AnalysisCancelled, AnalysisReturns, DetectorRest
<1>11. ASSUME NEW finds \in BOOLEAN, DetectorAnswers(finds) PROVE DetectorRest'
  <2>1. PICK x \in {0, 1} : x = IF finds THEN 1 ELSE 0
    OBVIOUS
  <2>2. detectorCounts' = [detectorCounts EXCEPT !.analyzed = @ + 1, !.detections = @ + x]
    BY <1>11, <2>1 DEF DetectorAnswers
  <2>3. detectorCounts' \in CountsAre
    BY <1>8, <2>2 DEF DetectorRest
  <2> QED
    BY <1>11, <2>3 DEF DetectorAnswers, DetectorRest
<1>12. CASE UNCHANGED detectorVars
  BY <1>1, <1>12 DEF detectorVars
<1> QED
  BY <1>2, <1>3, <1>4, <1>5, <1>6, <1>7, <1>9, <1>10, <1>11, <1>12 DEF DetectorsNext

\* A detector is listed once: there are as many places as names.
LEMMA PlacesAreNames ==
    ASSUME NEW ds \in Seq(DetectorAt), NamedOnce(ds)
    PROVE  Len(ds) = Cardinality(ToSet(NamesOf(ds)))
<1>1. PICK n \in Nat : n = Len(ds)
  OBVIOUS
<1>2. PICK f : f = NamesOf(ds)
  OBVIOUS
<1>3. f = [i \in 1 .. n |-> ds[i].name]
  BY <1>1, <1>2 DEF NamesOf
<1>4. PICK S : S = {f[i] : i \in 1 .. n}
  OBVIOUS
<1>5. ToSet(f) = S
  BY <1>3, <1>4 DEF ToSet
<1>6. f \in [1 .. n -> S]
  BY <1>3, <1>4
<1>7. \A i, j \in 1 .. n : f[i] = f[j] => i = j
  BY <1>1, <1>3 DEF NamedOnce
<1>8. f \in Bijection(1 .. n, S)
  BY <1>4, <1>6, <1>7 DEF Bijection, Injection, Surjection, IsInjective
<1>9. ExistsBijection(1 .. n, S)
  BY <1>8 DEF ExistsBijection
<1>10. IsFiniteSet(1 .. n) /\ Cardinality(1 .. n) = n
  BY FS_Interval
<1>11. Cardinality(S) = n
  BY <1>9, <1>10, FS_Bijection
<1> QED
  BY <1>1, <1>2, <1>5, <1>11

\* A detector is listed once, and what an analysis and initialize_all() have yet to visit are
\* detectors: DetectorRegistry and DetectorManager.
THEOREM DetectorsTypeCorrect == DetectorsSpec => []DetectorsTypeOK
<1>1. DetectorsInit => DetectorRest
  BY DEF DetectorsInit, DetectorRest, CountsAre
<1>2. DetectorInv /\ DetectorRest /\ [DetectorsNext]_detectorVars => DetectorRest'
  BY RestKeeps
<1>3. ASSUME DetectorInv, DetectorRest PROVE DetectorsTypeOK
  <2>1. Len(detectors) = Cardinality(Registered)
    BY <1>3, PlacesAreNames DEF DetectorInv, Registered
  <2> QED
    BY <1>3, <2>1 DEF DetectorInv, DetectorRest, DetectorsTypeOK, CountsAre, DetectorAt
<1> QED
  BY <1>1, <1>2, <1>3, InitDetectors, NextDetectors, PTL DEF DetectorsSpec

-----------------------------------------------------------------------------
(* Threat scores and reputation.                                           *)

USE ThreatsAssumption

Points == REPUTATION_MIN .. REPUTATION_MAX
Records == [seen : BOOLEAN, score : Points, previous : Points, confidence : 0 .. 100,
            last_seen : 0 .. LastHalf, event_count : 0 .. MaxEvents, ban_count : 0 .. 1]
Contacts == [score : Points, at : 0 .. LastHalf]
AssessmentIsTyped(a) ==
    /\ a.incident \in ThreatIncidents
    /\ a.confidence \in 0 .. 100 /\ a.score \in 0 .. 100
    /\ a.severity \in 0 .. 10 /\ a.risk \in 0 .. 4
    /\ a.action \in RecommendedAction

\* The score x is what d days leave of y: no further from zero, and on the same side of it.
Faded(y, x, d) ==
    /\ y >= 0 => x >= 0 /\ x <= y /\ y - x <= d
    /\ y <= 0 => x <= 0 /\ y <= x /\ x - y <= d

\* What record r owes to contact c was paid up to the moment it was last touched.
Paid(r, c) ==
    IF r.seen THEN c.at <= r.last_seen /\ Faded(c.score, r.score, (r.last_seen - c.at) \div 2)
    ELSE c.score = 0 /\ r.score = 0 /\ c.at = 0

ThreatInv ==
    /\ \A a \in assessments : AssessmentIsTyped(a)
    /\ half \in 0 .. LastHalf
    /\ reputation \in [ScoredEntities -> Records] /\ contact \in [ScoredEntities -> Contacts]
    /\ \A e \in ScoredEntities : reputation[e].last_seen <= half /\ Paid(reputation[e], contact[e])

LEMMA ClampsIntoPoints == ASSUME NEW n \in Int PROVE Clamp(REPUTATION_MIN, REPUTATION_MAX, n) \in Points
  BY DEF Clamp, AtLeast, AtMost, Points, REPUTATION_MIN, REPUTATION_MAX

LEMMA ClampsIntoHundred == ASSUME NEW n \in Int PROVE Clamp(0, 100, n) \in 0 .. 100
  BY DEF Clamp, AtLeast, AtMost

LEMMA RoundsToInts == ASSUME NEW n \in Int, NEW d \in Nat \ {0} PROVE Rounded(n, d) \subseteq Int
<1>1. n \div d \in Int
  OBVIOUS
<1>2. PICK q \in Int : q = n \div d
  BY <1>1
<1> QED
  BY <1>2 DEF Rounded

LEMMA HalvesAdd ==
    ASSUME NEW a \in Int, NEW b \in Int, NEW c \in Int, a <= b, b <= c
    PROVE  /\ (b - a) \div 2 + (c - b) \div 2 <= (c - a) \div 2
           /\ (b - a) \div 2 \in Nat /\ (c - b) \div 2 \in Nat /\ (c - a) \div 2 \in Nat
           /\ (b - a) \div 2 <= (c - a) \div 2
  OBVIOUS

LEMMA InitThreats == ThreatsInit => ThreatInv
<1> SUFFICES ASSUME ThreatsInit PROVE ThreatInv
  OBVIOUS
<1>1. NoReputation \in Records
  BY DEF NoReputation, Records, Points, REPUTATION_MIN, REPUTATION_MAX
<1>2. PICK c \in Contacts : c = [score |-> 0, at |-> 0]
  <2>1. 0 \in Points /\ 0 \in 0 .. LastHalf
    BY DEF Points, REPUTATION_MIN, REPUTATION_MAX
  <2> QED
    BY <2>1 DEF Contacts
<1>3. reputation = [e \in ScoredEntities |-> NoReputation] /\ contact = [e \in ScoredEntities |-> c]
  BY <1>2 DEF ThreatsInit
<1>4. reputation \in [ScoredEntities -> Records] /\ contact \in [ScoredEntities -> Contacts]
  BY <1>1, <1>3
<1>5. NoReputation.last_seen = 0 /\ ~NoReputation.seen /\ NoReputation.score = 0
  BY DEF NoReputation
<1>6. \A e \in ScoredEntities : reputation[e].last_seen <= half /\ Paid(reputation[e], contact[e])
  BY <1>2, <1>3, <1>5 DEF Paid, ThreatsInit
<1> QED
  BY <1>4, <1>6 DEF ThreatInv, ThreatsInit

\* Every assessment has its fields in range.
LEMMA AssessKeeps ==
    ASSUME ThreatInv, NEW i \in ThreatIncidents, NEW c \in Severities, NEW r \in Severities, Assess(i, c, r)
    PROVE  ThreatInv'
<1>1. PICK a \in Assessments(i, c, r) : assessments' = assessments \cup {a}
  BY DEF Assess
<1>2. c \in 0 .. 10 /\ r \in 0 .. 10 /\ i.modifier \in Int /\ i.progress \in Int /\ i.rules \in Nat
  OBVIOUS
<1>3. PICK severity : severity = CalculateSeverity(c, r)
  OBVIOUS
<1>4. PICK confidence : confidence = CalculateConfidence(i.modifier, 0, i.rules)
  OBVIOUS
<1>5. severity \in 0 .. 10
  BY <1>2, <1>3 DEF CalculateSeverity, Clamp, AtLeast, AtMost
<1>6. confidence \in 0 .. 100
  <2>1. AtMost(20, 2 * i.rules) \in Int
    BY <1>2 DEF AtMost
  <2>2. PICK n \in Int : n = i.modifier + 0 + AtMost(20, 2 * i.rules)
    BY <1>2, <2>1
  <2>3. confidence = Clamp(0, 100, n)
    BY <1>4, <2>2 DEF CalculateConfidence
  <2> QED
    BY <2>3, ClampsIntoHundred
<1>7. PICK stages : stages = IF i.progress > 0 THEN i.progress \div 10 ELSE 0
  OBVIOUS
<1>8. stages \in Int
  BY <1>2, <1>7
<1>9. PICK s \in ThreatScores(confidence, stages, severity, i.modifier) :
          a = [incident |-> i, confidence |-> confidence, score |-> s,
               severity |-> severity, risk |-> ClassifyRisk(s),
               action |-> RecommendAction(ClassifyRisk(s), confidence, i.completed)]
  BY <1>1, <1>3, <1>4, <1>7 DEF Assessments
<1>10. s \in 0 .. 100
  <2>1. PICK n \in Int : n = 4 * confidence + 30 * stages + 20 * severity + i.modifier
    BY <1>2, <1>5, <1>6, <1>8
  <2>2. PICK x \in Rounded(n, 10) : s = Clamp(0, 100, x)
    BY <1>9, <2>1 DEF ThreatScores
  <2>3. x \in Int
    BY <2>1, <2>2, RoundsToInts
  <2> QED
    BY <2>2, <2>3, ClampsIntoHundred
<1>11. ClassifyRisk(s) \in 0 .. 4
  BY <1>10 DEF ClassifyRisk, RiskLevel
<1>12. RecommendAction(ClassifyRisk(s), confidence, i.completed) \in RecommendedAction
  BY DEF RecommendAction, RecommendedAction
<1>13. AssessmentIsTyped(a)
  BY <1>5, <1>6, <1>9, <1>10, <1>11, <1>12 DEF AssessmentIsTyped
<1>14. \A b \in assessments' : AssessmentIsTyped(b)
  BY <1>1, <1>13 DEF ThreatInv
<1>15. UNCHANGED <<reputation, contact, half>>
  BY DEF Assess
<1> QED
  BY <1>14, <1>15 DEF ThreatInv, Paid, Faded

\* A record written now.
WritesNow(e, s, k, b) ==
    \E r \in Records : /\ Upserted(e, s, k, b) = [reputation EXCEPT ![e] = r]
                       /\ r.seen /\ r.score = s /\ r.last_seen = half

LEMMA UpsertsAreTyped ==
    ASSUME ThreatInv, NEW e \in ScoredEntities, Countable(e), NEW s \in Points, NEW k \in 0 .. 100, NEW b \in 0 .. 1
    PROVE  WritesNow(e, s, k, b)
<1>1. PICK old \in Records : old = reputation[e]
  BY DEF ThreatInv
<1>2. old.event_count + 1 \in 0 .. MaxEvents
  BY <1>1 DEF Countable, Records
<1>3. PICK n \in 0 .. MaxEvents : n = IF old.seen THEN old.event_count + 1 ELSE 1
  <2>1. 1 \in 0 .. MaxEvents
    BY <1>1, <1>2 DEF Records
  <2> QED
    BY <1>2, <2>1
<1>4. PICK bans \in 0 .. 1 : bans = IF old.seen THEN AtLeast(old.ban_count, b) ELSE b
  BY <1>1 DEF Records, AtLeast
<1>5. PICK p \in Points : p = IF old.seen THEN old.score ELSE 0
  BY <1>1 DEF Records, Points, REPUTATION_MIN, REPUTATION_MAX
<1>6. PICK r : r = [seen |-> TRUE, score |-> s, previous |-> p, confidence |-> k, last_seen |-> half,
                    event_count |-> n, ban_count |-> bans]
  OBVIOUS
<1>7. r \in Records /\ r.seen /\ r.score = s /\ r.last_seen = half
  BY <1>6 DEF Records, ThreatInv
<1>8. Upserted(e, s, k, b) = [reputation EXCEPT ![e] = r]
  <2>1. reputation \in [ScoredEntities -> Records]
    BY DEF ThreatInv
  <2> QED
    BY <1>1, <1>3, <1>4, <1>5, <1>6, <2>1 DEF Upserted
<1> QED
  BY <1>7, <1>8 DEF WritesNow

\* A threat or praise is a new contact.
LEMMA ContactKeeps ==
    ASSUME ThreatInv, NEW e \in ScoredEntities, Countable(e), NEW s \in Points, NEW k \in 0 .. 100, NEW b \in 0 .. 1,
           reputation' = Upserted(e, s, k, b), contact' = [contact EXCEPT ![e] = [score |-> s, at |-> half]],
           UNCHANGED <<assessments, half>>
    PROVE  ThreatInv'
<1>1. PICK r \in Records : Upserted(e, s, k, b) = [reputation EXCEPT ![e] = r]
                           /\ r.seen /\ r.score = s /\ r.last_seen = half
  <2>1. WritesNow(e, s, k, b)
    BY UpsertsAreTyped
  <2> QED
    BY <2>1 DEF WritesNow
<1>2. PICK c \in Contacts : c = [score |-> s, at |-> half]
  BY DEF Contacts, ThreatInv
<1>3. reputation' = [reputation EXCEPT ![e] = r] /\ contact' = [contact EXCEPT ![e] = c]
  BY <1>1, <1>2
<1>4. reputation' \in [ScoredEntities -> Records] /\ contact' \in [ScoredEntities -> Contacts]
  BY <1>3 DEF ThreatInv
<1>5. half \in Int /\ s \in Int
  BY DEF ThreatInv, Points, REPUTATION_MIN, REPUTATION_MAX
<1>6. Paid(r, c)
  BY <1>1, <1>2, <1>5 DEF Paid, Faded
<1>7. ASSUME NEW f \in ScoredEntities PROVE (reputation[f].last_seen <= half /\ Paid(reputation[f], contact[f]))'
  <2>1. CASE f = e
    <3>1. reputation'[f] = r /\ contact'[f] = c /\ half' = half
      BY <1>3, <2>1 DEF ThreatInv
    <3> QED
      BY <1>1, <1>5, <1>6, <3>1 DEF Paid, Faded
  <2>2. CASE f # e
    <3>1. reputation'[f] = reputation[f] /\ contact'[f] = contact[f] /\ half' = half
      BY <1>3, <2>2 DEF ThreatInv
    <3> QED
      BY <3>1 DEF ThreatInv, Paid, Faded
  <2> QED
    BY <2>1, <2>2
<1> QED
  BY <1>4, <1>7 DEF ThreatInv, AssessmentIsTyped

LEMMA DecaysTyped ==
    ASSUME NEW x \in Points, NEW at \in 0 .. LastHalf, half \in 0 .. LastHalf, at <= half, NEW y, y = CalculateDecay(x, at)
    PROVE  y \in Points /\ Faded(x, y, (half - at) \div 2)
<1>1. PICK d \in Nat : d = (half - at) \div 2
  OBVIOUS
<1>2. y = IF x > 0 THEN x - AtMost(x, d) ELSE x + AtMost(-x, d)
  BY <1>1 DEF CalculateDecay
<1>3. x \in -100 .. 100
  BY DEF Points, REPUTATION_MIN, REPUTATION_MAX
<1>4. y \in -100 .. 100 /\ Faded(x, y, d)
  BY <1>2, <1>3 DEF AtMost, Faded
<1> QED
  BY <1>1, <1>4 DEF Points, REPUTATION_MIN, REPUTATION_MAX

LEMMA ProcessThreatKeeps ==
    ASSUME ThreatInv, NEW e \in ScoredEntities, NEW a \in assessments, NEW repeat \in BOOLEAN, NEW b \in {0, 1},
           ProcessThreat(e, a, repeat, b)
    PROVE  ThreatInv'
<1>1. PICK change, decayed, s :
         /\ change \in ScoreChanges(a, repeat, b)
         /\ decayed = IF reputation[e].seen
                      THEN CalculateDecay(reputation[e].score, reputation[e].last_seen) ELSE 0
         /\ s = Clamp(REPUTATION_MIN, REPUTATION_MAX,
                      decayed + change + CalculatePositiveChange(reputation[e].event_count))
         /\ reputation' = Upserted(e, s, a.confidence, b)
         /\ contact' = [contact EXCEPT ![e] = [score |-> s, at |-> half]]
  BY DEF ProcessThreat
<1>2. AssessmentIsTyped(a) /\ reputation[e] \in Records /\ half \in 0 .. LastHalf /\ reputation[e].last_seen <= half
  BY DEF ThreatInv
<1>3. change \in Int
  <2>1. PICK u \in Int : u = IF repeat THEN 3 ELSE 2
    OBVIOUS
  <2>2. PICK v \in Int : v = AtMost(12, 4 + b)
    BY DEF AtMost
  <2>3. PICK w \in Int : w = IF a.risk >= RiskLevel.high THEN 13 ELSE 10
    OBVIOUS
  <2>4. PICK x \in Int : x = a.score
    BY <1>2 DEF AssessmentIsTyped
  <2>5. PICK y \in Int : y = a.confidence
    BY <1>2 DEF AssessmentIsTyped
  <2>6. 9 * x * y * u * v * w \in Int
    <3>1. 9 * x \in Int
      OBVIOUS
    <3>2. (9 * x) * y \in Int
      BY <3>1
    <3>3. (9 * x * y) * u \in Int
      BY <3>2
    <3>4. (9 * x * y * u) * v \in Int
      BY <3>3
    <3> QED
      BY <3>4
  <2>7. PICK n \in Int : n = 9 * x * y * u * v * w
    BY <2>6
  <2>8. PICK p \in Rounded(n, 160000) : change = Clamp(REPUTATION_MIN, REPUTATION_MAX, -p)
    BY <1>1, <2>1, <2>2, <2>3, <2>4, <2>5, <2>7 DEF ScoreChanges
  <2>9. -p \in Int
    <3>1. p \in Int
      BY <2>7, <2>8, RoundsToInts
    <3> QED
      BY <3>1
  <2>10. change \in Points
    <3>1. PICK m \in Int : m = -p
      BY <2>9
    <3> QED
      BY <2>8, <3>1, ClampsIntoPoints
  <2> QED
    BY <2>10 DEF Points, REPUTATION_MIN, REPUTATION_MAX
<1>4. decayed \in Int
  <2>1. reputation[e].score \in Points /\ reputation[e].last_seen \in 0 .. LastHalf
    BY <1>2 DEF Records
  <2>2. CASE reputation[e].seen
    <3>1. decayed \in Points
      BY <1>1, <1>2, <2>1, <2>2, DecaysTyped
    <3> QED
      BY <3>1 DEF Points, REPUTATION_MIN, REPUTATION_MAX
  <2>3. CASE ~reputation[e].seen
    BY <1>1, <2>3
  <2> QED
    BY <2>2, <2>3
<1>5. PICK g \in Int : g = CalculatePositiveChange(reputation[e].event_count)
  BY DEF CalculatePositiveChange
<1>6. PICK n \in Int : n = decayed + change + g
  BY <1>3, <1>4
<1>7. s \in Points
  BY <1>1, <1>5, <1>6, ClampsIntoPoints
<1>8. Countable(e) /\ UNCHANGED <<assessments, half>> /\ a.confidence \in 0 .. 100 /\ b \in 0 .. 1
  BY <1>2 DEF ProcessThreat, AssessmentIsTyped
<1> QED
  BY <1>1, <1>7, <1>8, ContactKeeps

LEMMA ProcessPositiveKeeps ==
    ASSUME ThreatInv, NEW e \in ScoredEntities, NEW points \in Praise, ProcessPositive(e, points)
    PROVE  ThreatInv'
<1>1. PICK s : /\ s = IF reputation[e].seen
                      THEN Clamp(REPUTATION_MIN, REPUTATION_MAX, reputation[e].score + points)
                      ELSE points
               /\ reputation' = Upserted(e, s, 50, 0)
               /\ contact' = [contact EXCEPT ![e] = [score |-> s, at |-> half]]
  BY DEF ProcessPositive
<1>2. points \in Int
  OBVIOUS
<1>3. reputation[e].score \in -100 .. 100
  BY DEF ThreatInv, Records, Points, REPUTATION_MIN, REPUTATION_MAX
<1>4. s \in Points
  <2>1. CASE reputation[e].seen
    <3>1. PICK n \in Int : n = reputation[e].score + points
      BY <1>2, <1>3
    <3> QED
      BY <1>1, <2>1, <3>1, ClampsIntoPoints
  <2>2. CASE ~reputation[e].seen
    BY <1>1, <2>2 DEF ProcessPositive, Points
  <2> QED
    BY <2>1, <2>2
<1>5. Countable(e) /\ UNCHANGED <<assessments, half>>
  BY DEF ProcessPositive
<1>6. 50 \in 0 .. 100 /\ 0 \in 0 .. 1
  OBVIOUS
<1> QED
  BY <1>1, <1>4, <1>5, <1>6, ContactKeeps

\* Two stretches of decay, one after the other, are worth no more than the time of both.
LEMMA FadedTwice ==
    ASSUME NEW x \in Int, NEW y \in Int, NEW z \in Int, NEW c \in Nat, NEW d \in Nat, NEW f \in Nat,
           c + d <= f, Faded(x, y, c), Faded(y, z, d)
    PROVE  Faded(x, z, f)
  BY DEF Faded

LEMMA ApplyDecayKeeps == ASSUME ThreatInv, ApplyDecay PROVE ThreatInv'
<1> DEFINE Now(e) == CalculateDecay(reputation[e].score, reputation[e].last_seen)
           Changed(e) == reputation[e].seen /\ Now(e) # reputation[e].score
           New(e) == Upserted(e, Now(e), reputation[e].confidence, reputation[e].ban_count)[e]
<1>1. reputation' = [e \in ScoredEntities |-> IF Changed(e) THEN New(e) ELSE reputation[e]]
  BY DEF ApplyDecay
<1>2. UNCHANGED <<assessments, contact, half>> /\ \A e \in ScoredEntities : Countable(e)
  BY DEF ApplyDecay
<1>3. half \in 0 .. LastHalf /\ reputation \in [ScoredEntities -> Records] /\ contact \in [ScoredEntities -> Contacts]
  BY DEF ThreatInv
<1>4. ASSUME NEW e \in ScoredEntities
      PROVE  /\ reputation'[e] \in Records /\ reputation'[e].last_seen <= half
             /\ Paid(reputation'[e], contact[e])
  <2>1. PICK old \in Records : old = reputation[e]
    BY <1>3
  <2>2. PICK c \in Contacts : c = contact[e]
    BY <1>3
  <2>3. /\ old.score \in Points /\ old.last_seen \in 0 .. LastHalf /\ old.last_seen <= half /\ Paid(old, c)
        /\ old.confidence \in 0 .. 100 /\ old.ban_count \in 0 .. 1
    BY <2>1, <2>2 DEF ThreatInv, Records
  <2>4. CASE ~Changed(e)
    <3>1. reputation'[e] = old
      BY <1>1, <2>1, <2>4
    <3> QED
      BY <2>2, <2>3, <3>1
  <2>5. CASE Changed(e)
    <3>1. PICK y : y = Now(e)
      OBVIOUS
    <3>2. y \in Points /\ Faded(old.score, y, (half - old.last_seen) \div 2)
      BY <1>3, <2>1, <2>3, <3>1, DecaysTyped
    <3>3. PICK r \in Records : /\ Upserted(e, y, old.confidence, old.ban_count) = [reputation EXCEPT ![e] = r]
                               /\ r.seen /\ r.score = y /\ r.last_seen = half
      <4>1. WritesNow(e, y, old.confidence, old.ban_count)
        BY <1>2, <2>3, <3>2, UpsertsAreTyped
      <4> QED
        BY <4>1 DEF WritesNow
    <3>4. reputation'[e] = r
      <4>1. New(e) = [reputation EXCEPT ![e] = r][e]
        BY <2>1, <3>1, <3>3
      <4>2. reputation'[e] = New(e)
        BY <1>1, <2>5
      <4> QED
        BY <1>3, <4>1, <4>2
    <3>5. old.seen /\ c.at <= old.last_seen /\ Faded(c.score, old.score, (old.last_seen - c.at) \div 2)
      BY <2>1, <2>3, <2>5 DEF Paid
    <3>6. c.at \in Int /\ old.last_seen \in Int /\ half \in Int /\ c.score \in Int /\ old.score \in Int /\ y \in Int
      BY <1>3, <2>2, <2>3, <3>2 DEF Contacts, Points, REPUTATION_MIN, REPUTATION_MAX
    <3>7. /\ (old.last_seen - c.at) \div 2 + (half - old.last_seen) \div 2 <= (half - c.at) \div 2
          /\ (old.last_seen - c.at) \div 2 \in Nat /\ (half - old.last_seen) \div 2 \in Nat /\ (half - c.at) \div 2 \in Nat
      BY <2>3, <3>5, <3>6, HalvesAdd
    <3>8. Faded(c.score, y, (half - c.at) \div 2)
      BY <3>2, <3>5, <3>6, <3>7, FadedTwice
    <3>9. c.at <= half
      BY <2>3, <3>5, <3>6
    <3> QED
      BY <1>3, <2>2, <3>3, <3>4, <3>6, <3>8, <3>9 DEF Paid
  <2> QED
    BY <2>4, <2>5
<1>5. reputation' \in [ScoredEntities -> Records]
  BY <1>1, <1>4
<1>6. ASSUME NEW e \in ScoredEntities PROVE (reputation[e].last_seen <= half /\ Paid(reputation[e], contact[e]))'
  BY <1>2, <1>4 DEF Paid, Faded
<1> QED
  BY <1>2, <1>5, <1>6 DEF ThreatInv, AssessmentIsTyped

LEMMA ElapseKeeps == ASSUME ThreatInv, Elapse PROVE ThreatInv'
<1>1. UNCHANGED <<assessments, reputation, contact>> /\ half' \in 0 .. LastHalf /\ half' >= half
  BY DEF ThreatInv, Elapse
<1>2. ASSUME NEW e \in ScoredEntities PROVE (reputation[e].last_seen <= half /\ Paid(reputation[e], contact[e]))'
  <2>1. reputation[e].last_seen \in Int /\ half \in Int /\ half' \in Int /\ reputation[e].last_seen <= half
    BY <1>1 DEF ThreatInv, Records
  <2> QED
    BY <1>1, <2>1 DEF ThreatInv, Paid, Faded
<1> QED
  BY <1>1, <1>2 DEF ThreatInv, AssessmentIsTyped

LEMMA NextThreats == ThreatInv /\ [ThreatsNext]_threatVars => ThreatInv'
<1> SUFFICES ASSUME ThreatInv, [ThreatsNext]_threatVars PROVE ThreatInv'
  OBVIOUS
<1>1. CASE UNCHANGED threatVars
  BY <1>1 DEF threatVars, ThreatInv, AssessmentIsTyped, Paid, Faded
<1> QED
  BY <1>1, AssessKeeps, ProcessThreatKeeps, ProcessPositiveKeeps, ApplyDecayKeeps, ElapseKeeps DEF ThreatsNext

LEMMA ThreatInvariant == ThreatsSpec => []ThreatInv
  BY InitThreats, NextThreats, PTL DEF ThreatsSpec

\* Every score, confidence, severity and risk is in its range, for any incidents, entities, praise
\* and clock (Incident, Assessment and ReputationRecord check the same in __post_init__).
THEOREM ThreatsTypeCorrect == ThreatsSpec => []ThreatsTypeOK
<1>1. ThreatInv => ThreatsTypeOK
  BY DEF ThreatInv, ThreatsTypeOK, AssessmentIsTyped, Records, Contacts, Points
<1> QED
  BY <1>1, ThreatInvariant, PTL

LEMMA Signs == ASSUME NEW x \in Int, NEW y \in Int, (x >= 0 /\ y >= 0) \/ (x <= 0 /\ y <= 0) PROVE x * y >= 0
  OBVIOUS

\* Time is paid for once, whatever order threats, praise and decay come in (ReputationManager).
THEOREM DecayPaidOnce == ThreatsSpec => []DecayIsPaidOnce
<1>1. ASSUME ThreatInv PROVE DecayIsPaidOnce
  <2> SUFFICES ASSUME NEW e \in ScoredEntities
               PROVE  /\ Size(contact[e].score) - Size(reputation[e].score) <= (half - contact[e].at) \div 2
                      /\ Size(reputation[e].score) <= Size(contact[e].score)
                      /\ reputation[e].score * contact[e].score >= 0
    BY DEF DecayIsPaidOnce
  <2>1. PICK r \in Records : r = reputation[e]
    BY <1>1 DEF ThreatInv
  <2>2. PICK c \in Contacts : c = contact[e]
    BY <1>1 DEF ThreatInv
  <2>3. r.last_seen <= half /\ Paid(r, c) /\ half \in 0 .. LastHalf
    BY <1>1, <2>1, <2>2 DEF ThreatInv
  <2>4. PICK x \in Int : x = r.score
    BY DEF Records, Points, REPUTATION_MIN, REPUTATION_MAX
  <2>5. PICK y \in Int : y = c.score
    BY DEF Contacts, Points, REPUTATION_MIN, REPUTATION_MAX
  <2>6. PICK a \in Nat : a = c.at
    BY DEF Contacts
  <2>7. PICK l \in Nat : l = r.last_seen
    BY DEF Records
  <2>8. Faded(y, x, (half - a) \div 2) /\ a <= half
    <3>1. CASE r.seen
      <4>1. a <= l /\ l <= half /\ Faded(y, x, (l - a) \div 2)
        BY <2>3, <2>4, <2>5, <2>6, <2>7, <3>1 DEF Paid
      <4>2. (l - a) \div 2 <= (half - a) \div 2 /\ (l - a) \div 2 \in Nat /\ (half - a) \div 2 \in Nat
        BY <2>3, <4>1, HalvesAdd
      <4> QED
        BY <2>3, <4>1, <4>2 DEF Faded
    <3>2. CASE ~r.seen
      <4>1. x = 0 /\ y = 0 /\ a = 0
        BY <2>3, <2>4, <2>5, <2>6, <3>2 DEF Paid
      <4>2. (half - a) \div 2 \in Nat
        BY <2>3, <4>1
      <4> QED
        BY <2>3, <4>1, <4>2 DEF Faded
    <3> QED
      BY <3>1, <3>2
  <2>9. PICK d \in Nat : d = (half - a) \div 2
    BY <2>3, <2>8
  <2>10. Size(y) - Size(x) <= d /\ Size(x) <= Size(y)
    BY <2>8, <2>9 DEF Faded, Size
  <2>11. x * y >= 0
    <3>1. (x >= 0 /\ y >= 0) \/ (x <= 0 /\ y <= 0)
      BY <2>8 DEF Faded
    <3> QED
      BY <3>1, Signs
  <2> QED
    BY <2>1, <2>2, <2>4, <2>5, <2>6, <2>9, <2>10, <2>11
<1> QED
  BY <1>1, ThreatInvariant, PTL

HIDE ThreatsAssumption

-----------------------------------------------------------------------------
(* The SSH detector.                                                       *)

Line == [form : Forms, address : Addresses, user : Users, at : Nat, found : SUBSET ThreatType]

\* The lines of a log s that the trackers of address a record, and those not older than a window.
Failed(s, a) == {j \in 1 .. Len(s) : /\ EventTypeOf(s[j].form) = "failed_password"
                                     /\ s[j].address = a}
Counted(s, a) == {j \in 1 .. Len(s) : /\ EventTypeOf(s[j].form) \in {"failed_password", "success"}
                                      /\ s[j].address = a}
Tried(s, a, u) == {j \in Failed(s, a) : s[j].user = u}
Fresh(s, now, w) == {j \in 1 .. Len(s) : now - s[j].at < w}

\* What they record of a line.
Times(s) == [j \in 1 .. Len(s) |-> s[j].at]
Attempts(s) == [j \in 1 .. Len(s) |-> [user |-> s[j].user, at |-> s[j].at]]

\* The list q has notes of lines in R, each of one of its own, and of all those in W.
IsKept(at, q, note, R, W) ==
    /\ at \in [1 .. Len(q) -> R]
    /\ \A k \in 1 .. Len(q) : q[k] = note[at[k]]
    /\ \A k, l \in 1 .. Len(q) : at[k] = at[l] => k = l
    /\ \A j \in R : j \in W => \E k \in 1 .. Len(q) : at[k] = j
Keeps(q, note, R, W) == \E at : IsKept(at, q, note, R, W)

\* A list does not change by itself, and its window moves on.
LEMMA KeepsLonger ==
    ASSUME NEW q, NEW note, NEW R, NEW W, Keeps(q, note, R, W),
           NEW more, \A j \in R : more[j] = note[j],
           NEW V, \A j \in R : j \in V => j \in W
    PROVE  Keeps(q, more, R, V)
<1>1. PICK at : IsKept(at, q, note, R, W)
  BY DEF Keeps
<1>2. IsKept(at, q, more, R, V)
  BY <1>1 DEF IsKept
<1> QED
  BY <1>2 DEF Keeps

LEMMA KeepsAppended ==
    ASSUME NEW X, NEW q \in Seq(X), NEW note, NEW R, NEW W, Keeps(q, note, R, W),
           NEW x \in X, NEW n, n \notin R, note[n] = x
    PROVE  Keeps(Append(q, x), note, R \cup {n}, W \cup {n})
<1>1. PICK at : IsKept(at, q, note, R, W)
  BY DEF Keeps
<1> DEFINE p == Append(q, x)
<1>2. /\ Len(q) \in Nat /\ Len(p) = Len(q) + 1
      /\ \A k \in 1 .. Len(q) : p[k] = q[k] /\ k # Len(p)
      /\ p[Len(p)] = x
  OBVIOUS
<1> HIDE DEF p
<1>3. PICK bt : bt = [k \in 1 .. Len(p) |-> IF k = Len(p) THEN n ELSE at[k]]
  OBVIOUS
<1>4. /\ \A k \in 1 .. Len(p) : k = Len(p) \/ k \in 1 .. Len(q)
      /\ \A k \in 1 .. Len(q) : k \in 1 .. Len(p) /\ bt[k] = at[k] /\ at[k] \in R
      /\ bt[Len(p)] = n /\ Len(p) \in 1 .. Len(p)
  BY <1>1, <1>2, <1>3 DEF IsKept
<1>5. bt \in [1 .. Len(p) -> R \cup {n}]
  BY <1>3, <1>4
<1>6. \A k \in 1 .. Len(p) : p[k] = note[bt[k]]
  BY <1>1, <1>2, <1>4 DEF IsKept
<1>7. \A k, l \in 1 .. Len(p) : bt[k] = bt[l] => k = l
  BY <1>1, <1>4 DEF IsKept
<1>8. \A j \in R \cup {n} : j \in W \cup {n} => \E k \in 1 .. Len(p) : bt[k] = j
  BY <1>1, <1>4 DEF IsKept
<1>9. IsKept(bt, p, note, R \cup {n}, W \cup {n})
  BY <1>5, <1>6, <1>7, <1>8 DEF IsKept
<1> QED
  BY <1>9 DEF Keeps, p

\* What is sifted out by the window is notes of the lines in the window, and of no others.
LEMMA KeepsSifted ==
    ASSUME NEW X, NEW q \in Seq(X), NEW note, NEW R, NEW W, Keeps(q, note, R, W),
           NEW A, NEW V, \A j \in R : (note[j] \in A <=> j \in V) /\ (j \in V => j \in W)
    PROVE  /\ Sifted(q, A) \in Seq(X)
           /\ Keeps(Sifted(q, A), note, R, V)
           /\ Keeps(Sifted(q, A), note, R \cap V, V)
<1>1. PICK at : IsKept(at, q, note, R, W)
  BY DEF Keeps
<1>2. PICK p : p = Sifted(q, A)
  OBVIOUS
<1>3. p \in Seq(X) /\ Len(p) \in Nat /\ Len(q) \in Nat
  BY <1>2, SiftedPlaces
<1>4. PICK bt : ArePlaces(bt, p, q, A, Len(q))
  BY <1>2, SiftedPlaces
<1>5. /\ bt \in [1 .. Len(p) -> 1 .. Len(q)]
      /\ \A k \in 1 .. Len(p) : p[k] = q[bt[k]] /\ p[k] \in A
      /\ \A k, l \in 1 .. Len(p) : k < l => bt[k] < bt[l]
      /\ \A j \in 1 .. Len(q) : q[j] \in A => \E k \in 1 .. Len(p) : bt[k] = j
  BY <1>4 DEF ArePlaces
<1>6. PICK ct : ct = [k \in 1 .. Len(p) |-> at[bt[k]]]
  OBVIOUS
<1>7. \A k \in 1 .. Len(p) : /\ bt[k] \in 1 .. Len(q) /\ ct[k] = at[bt[k]] /\ ct[k] \in R
                             /\ p[k] = note[ct[k]] /\ ct[k] \in V
  BY <1>1, <1>5, <1>6 DEF IsKept
<1>8. \A k, l \in 1 .. Len(p) : ct[k] = ct[l] => k = l
  <2> SUFFICES ASSUME NEW k \in 1 .. Len(p), NEW l \in 1 .. Len(p), ct[k] = ct[l] PROVE k = l
    OBVIOUS
  <2>1. bt[k] = bt[l] /\ bt[k] \in Nat
    BY <1>1, <1>3, <1>7 DEF IsKept
  <2>2. ~(k < l) /\ ~(l < k)
    <3>1. (k < l => bt[k] < bt[l]) /\ (l < k => bt[l] < bt[k])
      BY <1>5
    <3> QED
      BY <2>1, <3>1
  <2> QED
    BY <1>3, <2>2
<1>9. ASSUME NEW j \in R, j \in V PROVE \E k \in 1 .. Len(p) : ct[k] = j
  <2>1. PICK i \in 1 .. Len(q) : at[i] = j
    BY <1>1, <1>9 DEF IsKept
  <2>2. q[i] \in A
    BY <1>1, <1>9, <2>1 DEF IsKept
  <2>3. PICK k \in 1 .. Len(p) : bt[k] = i
    BY <1>5, <2>2
  <2> QED
    BY <1>7, <2>1, <2>3
<1>10. IsKept(ct, p, note, R, V) /\ IsKept(ct, p, note, R \cap V, V)
  <2>1. ct \in [1 .. Len(p) -> R] /\ ct \in [1 .. Len(p) -> R \cap V]
    BY <1>6, <1>7
  <2> QED
    BY <1>7, <1>8, <1>9, <2>1 DEF IsKept
<1> QED
  BY <1>2, <1>3, <1>10 DEF Keeps

\* A list that has notes of the lines in S, all of them and only them, is as long as they are many.
IsAll(q, note, S) ==
    /\ IsFiniteSet(S) /\ Cardinality(S) = Len(q)
    /\ \A k \in DOMAIN q : \E j \in S : q[k] = note[j]
    /\ \A j \in S : \E k \in DOMAIN q : q[k] = note[j]
LEMMA KeptCount ==
    ASSUME NEW X, NEW q \in Seq(X), NEW note, NEW S, NEW V, Keeps(q, note, S, V), S \subseteq V
    PROVE  IsAll(q, note, S)
<1>1. PICK at : IsKept(at, q, note, S, V)
  BY DEF Keeps
<1>2. Len(q) \in Nat /\ DOMAIN q = 1 .. Len(q)
  OBVIOUS
<1>3. at \in Bijection(1 .. Len(q), S)
  BY <1>1, <1>2 DEF IsKept, Bijection, Injection, Surjection, IsInjective
<1>4. IsFiniteSet(1 .. Len(q)) /\ Cardinality(1 .. Len(q)) = Len(q)
  BY <1>2, FS_Interval
<1>5. IsFiniteSet(S) /\ Cardinality(S) = Cardinality(1 .. Len(q))
  BY <1>3, <1>4, FS_Bijection, Zenon DEF ExistsBijection
<1> QED
  BY <1>1, <1>2, <1>4, <1>5 DEF IsKept, IsAll

\* No more attempts than users times the attempts of each.
Numbered(S, U, m, user, nth) ==
    /\ \A j \in S : user[j] \in U /\ nth[j] \in 1 .. m
    /\ \A i, j \in S : user[i] = user[j] /\ nth[i] = nth[j] => i = j
LEMMA NoMoreThanTimes ==
    ASSUME NEW S, IsFiniteSet(S), NEW U, IsFiniteSet(U), NEW m \in Nat,
           NEW user, NEW nth, Numbered(S, U, m, user, nth)
    PROVE  Cardinality(S) <= Cardinality(U) * m
<1>1. PICK f : f = [j \in S |-> <<user[j], nth[j]>>]
  OBVIOUS
<1>2. PICK P : P = U \X (1 .. m)
  OBVIOUS
<1>3. f \in Injection(S, P)
  <2>1. f \in [S -> P]
    BY <1>1, <1>2 DEF Numbered
  <2>2. \A i, j \in S : f[i] = f[j] => i = j
    BY <1>1 DEF Numbered
  <2> QED
    BY <2>1, <2>2 DEF Injection, IsInjective
<1>4. IsFiniteSet(1 .. m) /\ Cardinality(1 .. m) = m
  BY FS_Interval
<1>5. IsFiniteSet(P) /\ Cardinality(P) = Cardinality(U) * Cardinality(1 .. m)
  BY <1>2, <1>4, FS_Product
<1>6. Cardinality(S) <= Cardinality(P)
  BY <1>3, <1>5, FS_Injection, Zenon DEF ExistsInjection
<1> QED
  BY <1>4, <1>5, <1>6

\* What a line at the end of the log changes in the sets and the notes of the log.
LogOf(s, l, t, n) ==
    /\ t \in Seq(Line) /\ Len(s) \in Nat /\ n = Len(s) + 1 /\ n \in 1 .. n /\ t[n] = l
    /\ \A j \in 1 .. Len(s) : /\ j \in 1 .. n /\ j # n /\ t[j] = s[j]
                              /\ Times(t)[j] = Times(s)[j]
                              /\ Attempts(t)[j] = Attempts(s)[j]
    /\ \A j \in 1 .. n : j \in 1 .. Len(s) \/ j = n
    /\ Times(t)[n] = l.at /\ Attempts(t)[n] = [user |-> l.user, at |-> l.at]
LEMMA LogGrows ==
    ASSUME NEW s \in Seq(Line), NEW l \in Line, NEW t, t = Append(s, l), NEW n, n = Len(t)
    PROVE  LogOf(s, l, t, n)
<1>1. /\ t \in Seq(Line) /\ Len(s) \in Nat /\ n = Len(s) + 1 /\ n \in 1 .. n /\ t[n] = l
      /\ \A j \in 1 .. Len(s) : j \in 1 .. n /\ j # n /\ t[j] = s[j]
      /\ \A j \in 1 .. n : j \in 1 .. Len(s) \/ j = n
  OBVIOUS
<1>2. \A j \in 1 .. Len(s) : Times(t)[j] = Times(s)[j] /\ Attempts(t)[j] = Attempts(s)[j]
  BY <1>1 DEF Times, Attempts
<1>3. Times(t)[n] = l.at /\ Attempts(t)[n] = [user |-> l.user, at |-> l.at]
  BY <1>1 DEF Times, Attempts
<1> QED
  BY <1>1, <1>2, <1>3 DEF LogOf

SetsOf(s, l, t, n, a) ==
    /\ Failed(s, a) \subseteq 1 .. Len(s) /\ Counted(s, a) \subseteq 1 .. Len(s)
    /\ \A u : Tried(s, a, u) \subseteq 1 .. Len(s)
    /\ Failed(t, a) = IF EventTypeOf(l.form) = "failed_password" /\ l.address = a
                      THEN Failed(s, a) \cup {n} ELSE Failed(s, a)
    /\ Counted(t, a) = IF EventTypeOf(l.form) \in {"failed_password", "success"} /\ l.address = a
                       THEN Counted(s, a) \cup {n} ELSE Counted(s, a)
    /\ \A u : Tried(t, a, u) = IF /\ EventTypeOf(l.form) = "failed_password"
                                 /\ l.address = a /\ l.user = u
                              THEN Tried(s, a, u) \cup {n} ELSE Tried(s, a, u)
    /\ \A now, w : \A j \in 1 .. Len(s) : j \in Fresh(t, now, w) => j \in Fresh(s, now, w)
LEMMA SetsGrow ==
    ASSUME NEW s \in Seq(Line), NEW l \in Line, NEW t, t = Append(s, l), NEW n, n = Len(t), NEW a
    PROVE  SetsOf(s, l, t, n, a)
<1>0. PICK type : type = EventTypeOf(l.form)
  OBVIOUS
<1>1. /\ n = Len(s) + 1 /\ n \in 1 .. n /\ t[n] = l
      /\ \A j \in 1 .. Len(s) : j \in 1 .. n /\ j # n /\ t[j] = s[j]
      /\ \A j \in 1 .. n : j \in 1 .. Len(s) \/ j = n
  BY LogGrows DEF LogOf
<1>2. /\ Failed(s, a) \subseteq 1 .. Len(s) /\ Counted(s, a) \subseteq 1 .. Len(s)
      /\ \A u : Tried(s, a, u) \subseteq 1 .. Len(s)
  BY DEF Failed, Counted, Tried
<1>3. Failed(t, a) = IF type = "failed_password" /\ l.address = a
                     THEN Failed(s, a) \cup {n} ELSE Failed(s, a)
  BY <1>0, <1>1 DEF Failed
<1>4. Counted(t, a) = IF type \in {"failed_password", "success"} /\ l.address = a
                      THEN Counted(s, a) \cup {n} ELSE Counted(s, a)
  BY <1>0, <1>1 DEF Counted
<1>5. ASSUME NEW u
      PROVE  Tried(t, a, u) = IF type = "failed_password" /\ l.address = a /\ l.user = u
                              THEN Tried(s, a, u) \cup {n} ELSE Tried(s, a, u)
  BY <1>1, <1>2, <1>3 DEF Tried
<1>6. \A now, w : \A j \in 1 .. Len(s) : j \in Fresh(t, now, w) => j \in Fresh(s, now, w)
  BY <1>1 DEF Fresh
<1> QED
  BY <1>0, <1>2, <1>3, <1>4, <1>5, <1>6 DEF SetsOf

\* A list after its tracker has recorded the last line of a log, which was s before it.
IsExact(p, X, note, R, V) ==
    p \in Seq(X) /\ Keeps(p, note, R, V) /\ Keeps(p, note, R \cap V, V)
Recording(note, more, R, W, n, x, A, V) ==
    /\ n \notin R /\ more[n] = x
    /\ \A j \in R : more[j] = note[j] /\ (j \in V => j \in W)
    /\ \A j \in R \cup {n} : more[j] \in A <=> j \in V
LEMMA ListRecords ==
    ASSUME NEW X, NEW q \in Seq(X), NEW note, NEW more, NEW R, NEW W, Keeps(q, note, R, W),
           NEW n, NEW x \in X, NEW A, NEW V, Recording(note, more, R, W, n, x, A, V),
           NEW p, p = Sifted(Append(q, x), A)
    PROVE  IsExact(p, X, more, R \cup {n}, V)
<1>1. Keeps(q, more, R, W)
  BY KeepsLonger DEF Recording
<1>2. Keeps(Append(q, x), more, R \cup {n}, W \cup {n})
  BY <1>1, KeepsAppended DEF Recording
<1>3. Append(q, x) \in Seq(X)
  OBVIOUS
<1>4. \A j \in R \cup {n} : (more[j] \in A <=> j \in V) /\ (j \in V => j \in W \cup {n})
  BY DEF Recording
<1> QED
  BY <1>2, <1>3, <1>4, KeepsSifted DEF IsExact

\* One that only dropped what is too old.
LEMMA ListForgets ==
    ASSUME NEW X, NEW q \in Seq(X), NEW note, NEW more, NEW R, NEW W, Keeps(q, note, R, W),
           \A j \in R : more[j] = note[j],
           NEW A, NEW V, \A j \in R : (more[j] \in A <=> j \in V) /\ (j \in V => j \in W),
           NEW p, p = Sifted(q, A)
    PROVE  IsExact(p, X, more, R, V)
<1>1. Keeps(q, more, R, W)
  BY KeepsLonger
<1> QED
  BY <1>1, KeepsSifted DEF IsExact

\* Of what is found.
LEMMA FoundIs ==
    ASSUME NEW b1 \in BOOLEAN, NEW b2 \in BOOLEAN, NEW b3 \in BOOLEAN, NEW b4 \in BOOLEAN,
           NEW b5 \in BOOLEAN, NEW found,
           found = When(b1, "excessive_failed_logins") \cup When(b2, "root_login_attempt")
                   \cup When(b3, "username_enumeration") \cup When(b4, "password_spraying")
                   \cup When(b5, "ssh_brute_force")
    PROVE  /\ found \in SUBSET ThreatType
           /\ "excessive_failed_logins" \in found <=> b1
           /\ "username_enumeration" \in found <=> b3
           /\ "password_spraying" \in found <=> b4
           /\ "ssh_brute_force" \in found <=> b5
BY DEF When, ThreatType

-----------------------------------------------------------------------------

SshShape ==
    /\ second \in Nat
    /\ lines \in Seq(Line)
    /\ \A j \in 1 .. Len(lines) : lines[j].at <= second
    /\ failures \in [Addresses -> Seq(Nat)]
    /\ sprays \in [Addresses -> [Users -> Seq(Nat)]]
    /\ brutes \in [Addresses -> Seq([user : Users, at : Nat])]
    /\ DOMAIN names = Addresses
    /\ \A a \in Addresses : /\ names[a] \in [DOMAIN names[a] -> Nat]
                            /\ DOMAIN names[a] \subseteq Users

\* Each tracker has notes of the lines that it recorded, of all those in its window.
FailuresAreKept ==
    \A a \in Addresses :
        Keeps(failures[a], Times(lines), Counted(lines, a), Fresh(lines, second, WINDOW))
BrutesAreKept ==
    \A a \in Addresses :
        Keeps(brutes[a], Attempts(lines), Failed(lines, a), Fresh(lines, second, WINDOW))
SpraysAreKept ==
    \A a \in Addresses, u \in Users :
        Keeps(sprays[a][u], Times(lines), Tried(lines, a, u), Fresh(lines, second, SPRAY_WINDOW))

\* That of names has the time of the latest.
AreLatest(tried, s, a, W) ==
    /\ \A u \in DOMAIN tried : \E j \in Tried(s, a, u) : s[j].at = tried[u]
    /\ \A j \in Failed(s, a) : j \in W => /\ s[j].user \in DOMAIN tried
                                          /\ s[j].at <= tried[s[j].user]
NamesAreKept ==
    \A a \in Addresses : AreLatest(names[a], lines, a, Fresh(lines, second, WINDOW))

SshInv == /\ SshShape /\ FailuresAreKept /\ BrutesAreKept /\ SpraysAreKept /\ NamesAreKept
          /\ SshIsSound

LEMMA InitSsh == SshInit => SshInv
<1> SUFFICES ASSUME SshInit PROVE SshInv
  OBVIOUS
<1>1. SshShape
  BY DEF SshInit, SshShape
<1>2. /\ lines = <<>> /\ Len(lines) = 0
      /\ \A a \in Addresses : /\ failures[a] = <<>> /\ brutes[a] = <<>>
                              /\ \A u \in Users : sprays[a][u] = <<>>
                              /\ names[a] = <<>>
  BY DEF SshInit
<1>3. \A a : Failed(lines, a) = {} /\ Counted(lines, a) = {} /\ \A u : Tried(lines, a, u) = {}
  BY <1>2 DEF Failed, Counted, Tried
<1>4. \A note, W : Keeps(<<>>, note, {}, W)
  <2> SUFFICES ASSUME NEW note, NEW W PROVE Keeps(<<>>, note, {}, W)
    OBVIOUS
  <2>1. IsKept(<<>>, <<>>, note, {}, W)
    BY DEF IsKept
  <2> QED
    BY <2>1 DEF Keeps
<1>5. FailuresAreKept /\ BrutesAreKept /\ SpraysAreKept
  BY <1>2, <1>3, <1>4 DEF FailuresAreKept, BrutesAreKept, SpraysAreKept
<1>6. NamesAreKept
  BY <1>2, <1>3 DEF NamesAreKept, AreLatest
<1>7. SshIsSound
  BY <1>2 DEF SshIsSound, BurstsAreFound, SprayOrBruteForce
<1> QED
  BY <1>1, <1>5, <1>6, <1>7 DEF SshInv

-----------------------------------------------------------------------------

\* A list is sifted by the times that are in the window of a line that is in it.
Sieves(T, s, now, w) ==
    /\ \A j \in 1 .. Len(s) : Times(s)[j] \in T <=> j \in Fresh(s, now, w)
    /\ \A j \in 1 .. Len(s) : Attempts(s)[j] \in [user : Users, at : T]
                              <=> j \in Fresh(s, now, w)
LEMMA FreshIs ==
    ASSUME NEW s \in Seq(Line), NEW now \in Nat, \A j \in 1 .. Len(s) : s[j].at <= now,
           NEW w, NEW T, T = {x \in 0 .. now : now - x < w}
    PROVE  Sieves(T, s, now, w)
<1> SUFFICES ASSUME NEW j \in 1 .. Len(s)
             PROVE  /\ Times(s)[j] \in T <=> j \in Fresh(s, now, w)
                    /\ Attempts(s)[j] \in [user : Users, at : T] <=> j \in Fresh(s, now, w)
  BY DEF Sieves
<1>1. s[j] \in Line /\ s[j].at \in 0 .. now /\ s[j].user \in Users
  <2>1. s[j] \in Line /\ s[j].at <= now
    OBVIOUS
  <2>2. s[j].at \in Nat /\ s[j].user \in Users
    BY <2>1 DEF Line
  <2> QED
    BY <2>1, <2>2
<1>2. s[j].at \in T <=> j \in Fresh(s, now, w)
  BY <1>1 DEF Fresh
<1>3. Times(s)[j] = s[j].at /\ Attempts(s)[j] = [user |-> s[j].user, at |-> s[j].at]
  BY DEF Times, Attempts
<1> QED
  BY <1>1, <1>2, <1>3

\* The tracker of names after a failed password.
NamesExact(p, t, a, now, w) ==
    /\ p \in [DOMAIN p -> Nat] /\ DOMAIN p \subseteq Users
    /\ AreLatest(p, t, a, Fresh(t, now, w))
    /\ DOMAIN p = {t[j].user : j \in Failed(t, a) \cap Fresh(t, now, w)}
NamesRecord(s, l, t, n, now, w, a, tried, all, p) ==
    /\ s \in Seq(Line) /\ l \in Line /\ t = Append(s, l) /\ n = Len(t) /\ now \in Nat /\ w \in Nat
    /\ \A j \in 1 .. n : t[j].at <= now
    /\ EventTypeOf(l.form) = "failed_password" /\ l.address = a /\ l.at = now
    /\ tried \in [DOMAIN tried -> Nat] /\ DOMAIN tried \subseteq Users
    /\ AreLatest(tried, s, a, Fresh(s, now, w))
    /\ all = [u \in DOMAIN tried \cup {l.user} |-> IF u = l.user THEN now ELSE tried[u]]
    /\ p = [u \in {v \in DOMAIN all : now - all[v] < w} |-> all[u]]
LEMMA NamesRecorded ==
    ASSUME NEW s, NEW l, NEW t, NEW n, NEW now, NEW w, NEW a, NEW tried, NEW all, NEW p,
           NamesRecord(s, l, t, n, now, w, a, tried, all, p)
    PROVE  NamesExact(p, t, a, now, w)
<1> USE DEF NamesRecord
<1>1. /\ n = Len(s) + 1 /\ n \in 1 .. n /\ t[n] = l
      /\ \A j \in 1 .. Len(s) : j \in 1 .. n /\ j # n /\ t[j] = s[j]
      /\ \A j \in 1 .. n : j \in 1 .. Len(s) \/ j = n
      /\ t \in Seq(Line)
  BY LogGrows DEF LogOf
<1>2. /\ Failed(s, a) \subseteq 1 .. Len(s) /\ Failed(t, a) = Failed(s, a) \cup {n}
      /\ \A u : Tried(s, a, u) \subseteq 1 .. Len(s)
      /\ \A u : Tried(t, a, u) = IF l.user = u THEN Tried(s, a, u) \cup {n} ELSE Tried(s, a, u)
      /\ \A j \in 1 .. Len(s) : j \in Fresh(t, now, w) => j \in Fresh(s, now, w)
  <2>1. SetsOf(s, l, t, n, a)
    BY SetsGrow
  <2> QED
    BY <2>1 DEF SetsOf
<1>3. /\ DOMAIN all = DOMAIN tried \cup {l.user} /\ all[l.user] = now
      /\ \A u \in DOMAIN tried : u # l.user => all[u] = tried[u]
      /\ \A u \in DOMAIN all : all[u] \in Nat
  OBVIOUS
<1>4. /\ DOMAIN p = {v \in DOMAIN all : now - all[v] < w}
      /\ \A u \in DOMAIN p : p[u] = all[u]
      /\ p \in [DOMAIN p -> Nat] /\ DOMAIN p \subseteq Users
  <2>1. l.user \in Users
    BY DEF Line
  <2> QED
    BY <1>3, <2>1
<1>5. ASSUME NEW u \in DOMAIN p PROVE \E j \in Tried(t, a, u) : t[j].at = p[u]
  <2>1. CASE u = l.user
    BY <1>1, <1>2, <1>3, <1>4, <2>1
  <2>2. CASE u # l.user
    <3>1. u \in DOMAIN tried /\ p[u] = tried[u]
      BY <1>3, <1>4, <2>2
    <3>2. PICK j \in Tried(s, a, u) : s[j].at = tried[u]
      BY <3>1 DEF AreLatest
    <3> QED
      BY <1>1, <1>2, <2>2, <3>1, <3>2
  <2> QED
    BY <2>1, <2>2
<1>6. ASSUME NEW j \in Failed(t, a), j \in Fresh(t, now, w)
      PROVE  t[j].user \in DOMAIN p /\ t[j].at <= p[t[j].user]
  <2>1. j \in 1 .. n /\ t[j] \in Line /\ t[j].at \in Nat /\ t[j].at <= now /\ now - t[j].at < w
    <3>1. j \in 1 .. Len(t) /\ now - t[j].at < w
      BY <1>6 DEF Fresh
    <3>2. t[j] \in Line
      BY <1>1, <3>1
    <3> QED
      BY <3>1, <3>2 DEF Line
  <2>2. CASE t[j].user = l.user
    <3>1. now - now < w
      BY <2>1
    <3> QED
      BY <1>3, <1>4, <2>1, <2>2, <3>1
  <2>3. CASE t[j].user # l.user
    <3>1. j \in 1 .. Len(s) /\ t[j] = s[j] /\ j \in Failed(s, a) /\ j \in Fresh(s, now, w)
      BY <1>1, <1>2, <1>6, <2>1, <2>3
    <3>2. t[j].user \in DOMAIN tried /\ t[j].at <= tried[t[j].user]
      BY <3>1 DEF AreLatest
    <3>3. t[j].user \in DOMAIN all /\ all[t[j].user] = tried[t[j].user] /\ all[t[j].user] \in Nat
      BY <1>3, <2>3, <3>2
    <3>4. now - all[t[j].user] < w
      BY <2>1, <3>2, <3>3
    <3> QED
      BY <1>4, <3>2, <3>3, <3>4
  <2> QED
    BY <2>2, <2>3
<1>7. AreLatest(p, t, a, Fresh(t, now, w))
  BY <1>5, <1>6 DEF AreLatest
<1>8. ASSUME NEW u \in DOMAIN p PROVE u \in {t[j].user : j \in Failed(t, a) \cap Fresh(t, now, w)}
  <2>1. PICK j \in Tried(t, a, u) : t[j].at = p[u]
    BY <1>5
  <2>2. j \in Failed(t, a) /\ t[j].user = u /\ j \in 1 .. Len(t)
    BY DEF Tried, Failed
  <2>3. j \in Fresh(t, now, w)
    BY <1>4, <2>1, <2>2 DEF Fresh
  <2> QED
    BY <2>2, <2>3
<1>9. DOMAIN p = {t[j].user : j \in Failed(t, a) \cap Fresh(t, now, w)}
  <2>1. PICK Y : Y = {t[j].user : j \in Failed(t, a) \cap Fresh(t, now, w)}
    OBVIOUS
  <2>2. \A u \in DOMAIN p : u \in Y
    BY <1>8, <2>1
  <2>3. \A u \in Y : u \in DOMAIN p
    <3> SUFFICES ASSUME NEW u \in Y PROVE u \in DOMAIN p
      OBVIOUS
    <3>1. PICK j \in Failed(t, a) \cap Fresh(t, now, w) : u = t[j].user
      BY <2>1
    <3> QED
      BY <1>6, <3>1
  <2> QED
    BY <2>1, <2>2, <2>3
<1> QED
  BY <1>4, <1>7, <1>9 DEF NamesExact

LEMMA TimesGrow == \A c, d, m \in Nat : c * m <= (c + d) * m
<1> SUFFICES ASSUME NEW c \in Nat, NEW d \in Nat, NEW m \in Nat PROVE c * m <= (c + d) * m
  OBVIOUS
<1>1. (c + d) * m = c * m + d * m /\ d * m \in Nat /\ c * m \in Nat
  OBVIOUS
<1> QED
  BY <1>1

\* The attempts of a spray are too few, by each user, for as many as brute force takes.
LEMMA NeverBoth ==
    ASSUME SshAssumption, NEW t \in Seq(Line), NEW a, NEW now \in Nat, NEW sp, NEW F, NEW G,
           F = Failed(t, a) \cap Fresh(t, now, WINDOW), G = Fresh(t, now, SPRAY_WINDOW),
           \A u \in Users : /\ sp[u] \in Seq(Nat) /\ Len(sp[u]) <= SPRAY_PER_USER
                            /\ Keeps(sp[u], Times(t), Tried(t, a, u) \cap G, G),
           IsFiniteSet(F), NEW U, U = {t[j].user : j \in F}, Cardinality(U) <= SPRAY_USERS
    PROVE  Cardinality(F) < BRUTE_ATTEMPTS
<1>1. PICK at : at = [u \in Users |->
                         CHOOSE x : IsKept(x, sp[u], Times(t), Tried(t, a, u) \cap G, G)]
  OBVIOUS
<1>2. \A u \in Users : IsKept(at[u], sp[u], Times(t), Tried(t, a, u) \cap G, G)
  <2> SUFFICES ASSUME NEW u \in Users
               PROVE  IsKept(at[u], sp[u], Times(t), Tried(t, a, u) \cap G, G)
    OBVIOUS
  <2>1. \E x : IsKept(x, sp[u], Times(t), Tried(t, a, u) \cap G, G)
    BY DEF Keeps
  <2>2. at[u] = CHOOSE x : IsKept(x, sp[u], Times(t), Tried(t, a, u) \cap G, G)
    BY <1>1
  <2> QED
    BY <2>1, <2>2, Zenon
<1>3. /\ {WINDOW, SPRAY_WINDOW, SPRAY_PER_USER, SPRAY_USERS, BRUTE_ATTEMPTS} \subseteq Nat
      /\ WINDOW <= SPRAY_WINDOW /\ BRUTE_ATTEMPTS > SPRAY_USERS * SPRAY_PER_USER
  BY DEF SshAssumption
<1>4. PICK m \in Nat : m = SPRAY_PER_USER
  BY <1>3
<1>5. ASSUME NEW j \in F
      PROVE  t[j].user \in Users /\ \E k \in 1 .. m : at[t[j].user][k] = j
  <2>1. j \in 1 .. Len(t) /\ t[j] \in Line /\ j \in Failed(t, a) /\ now - t[j].at < WINDOW
    BY DEF Failed, Fresh
  <2>2. t[j].user \in Users /\ t[j].at \in Nat
    BY <2>1 DEF Line
  <2>3. j \in G
    <3>1. now - t[j].at \in Int
      BY <2>2, SMTT(30)
    <3> QED
      BY <1>3, <2>1, <3>1 DEF Fresh
  <2>4. PICK u \in Users : u = t[j].user
    BY <2>2
  <2>5. j \in Tried(t, a, u) \cap G
    BY <2>1, <2>3, <2>4 DEF Tried
  <2>6. PICK k \in 1 .. Len(sp[u]) : at[u][k] = j
    BY <1>2, <2>3, <2>5 DEF IsKept
  <2>7. k \in 1 .. m
    <3>1. sp[u] \in Seq(Nat) /\ Len(sp[u]) <= m
      BY <1>4
    <3>2. Len(sp[u]) \in Nat
      BY <3>1
    <3> QED
      BY <3>1, <3>2
  <2> QED
    BY <2>2, <2>4, <2>6, <2>7
<1>6. PICK nth : nth = [j \in F |-> CHOOSE k \in 1 .. m : at[t[j].user][k] = j]
  OBVIOUS
<1>7. \A j \in F : nth[j] \in 1 .. m /\ at[t[j].user][nth[j]] = j
  <2> SUFFICES ASSUME NEW j \in F PROVE nth[j] \in 1 .. m /\ at[t[j].user][nth[j]] = j
    OBVIOUS
  <2>1. nth[j] = CHOOSE k \in 1 .. m : at[t[j].user][k] = j
    BY <1>6
  <2> QED
    BY <1>5, <2>1, Zenon
<1>8. PICK user : user = [j \in F |-> t[j].user]
  OBVIOUS
<1>9. \A i, j \in F : user[i] = user[j] /\ nth[i] = nth[j] => i = j
  <2> SUFFICES ASSUME NEW i \in F, NEW j \in F, user[i] = user[j], nth[i] = nth[j] PROVE i = j
    OBVIOUS
  <2>1. t[i].user = t[j].user
    BY <1>8
  <2>2. at[t[i].user][nth[i]] = i /\ at[t[j].user][nth[j]] = j
    BY <1>7
  <2> QED
    BY <2>1, <2>2
<1>10. U = {user[j] : j \in F} /\ \A j \in F : user[j] \in U
  BY <1>8
<1>11. IsFiniteSet(U)
  <2>1. user \in Surjection(F, U)
    BY <1>8, <1>10 DEF Surjection
  <2> QED
    BY <2>1, FS_Surjection
<1>12. Cardinality(F) <= Cardinality(U) * m
  <2>1. Numbered(F, U, m, user, nth)
    BY <1>7, <1>9, <1>10 DEF Numbered
  <2> QED
    BY <1>11, <2>1, NoMoreThanTimes
<1>13. PICK c, f, b, v : /\ c = Cardinality(U) /\ f = Cardinality(F)
                         /\ v = SPRAY_USERS /\ b = BRUTE_ATTEMPTS
  OBVIOUS
<1>14. {c, f, b, v} \subseteq Nat /\ c <= v /\ f <= c * m /\ b > v * m
  BY <1>3, <1>4, <1>11, <1>12, <1>13, FS_CardinalityType
<1>15. c \in Nat /\ v \in Nat /\ m \in Nat /\ c <= v
  BY <1>3, <1>11, <1>13, FS_CardinalityType
<1>16. PICK d \in Nat : v = c + d
  <2>1. v - c \in Nat /\ v = c + (v - c)
    BY <1>15
  <2> QED
    BY <2>1
<1>17. c * m <= v * m
  BY <1>15, <1>16, TimesGrow
<1>18. PICK x, y : x = c * m /\ y = v * m
  OBVIOUS
<1>19. x \in Nat /\ y \in Nat
  BY <1>15, <1>18
<1>20. f <= x /\ x <= y /\ b > y
  BY <1>14, <1>17, <1>18
<1>21. f \in Nat /\ b \in Nat
  BY <1>14
<1> QED
  BY <1>13, <1>19, <1>20, <1>21

-----------------------------------------------------------------------------

\* What SshIsSound says of line i of a log.
BeforeIn(s, i) == {j \in 1 .. i : /\ EventTypeOf(s[j].form) = "failed_password"
                                  /\ s[j].address = s[i].address
                                  /\ s[i].at - s[j].at < WINDOW}
UsersIn(s, S) == {s[j].user : j \in S}
BurstOK(s, i) ==
    EventTypeOf(s[i].form) = "failed_password" =>
        /\ Cardinality(BeforeIn(s, i)) >= MAX_FAILURES =>
               "excessive_failed_logins" \in s[i].found
        /\ Cardinality(UsersIn(s, BeforeIn(s, i))) >= MAX_USERS
               <=> "username_enumeration" \in s[i].found
        /\ /\ Cardinality(BeforeIn(s, i)) >= BRUTE_ATTEMPTS
           /\ Cardinality(UsersIn(s, BeforeIn(s, i))) <= SPRAY_USERS
           <=> "ssh_brute_force" \in s[i].found
OneAttack(s, i) == ~("password_spraying" \in s[i].found /\ "ssh_brute_force" \in s[i].found)
SoundLog(s) == \A i \in 1 .. Len(s) : BurstOK(s, i) /\ OneAttack(s, i)

LEMMA SoundnessIsOfLines ==
    ASSUME SshIsSound, NEW s \in Seq(Line), s = lines
    PROVE  SoundLog(s)
<1>1. DOMAIN lines = 1 .. Len(s)
  OBVIOUS
<1>2. ASSUME NEW i \in 1 .. Len(s) PROVE BurstOK(s, i)
  <2>1. FailuresBefore(i) = BeforeIn(s, i)
    BY DEF FailuresBefore, BeforeIn
  <2>2. {lines[j].user : j \in BeforeIn(s, i)} = UsersIn(s, BeforeIn(s, i))
    BY DEF UsersIn
  <2>3. EventTypeOf(lines[i].form) = "failed_password" =>
            LET before == FailuresBefore(i)
                users == {lines[j].user : j \in before}
            IN /\ Cardinality(before) >= MAX_FAILURES =>
                      "excessive_failed_logins" \in lines[i].found
               /\ Cardinality(users) >= MAX_USERS <=> "username_enumeration" \in lines[i].found
               /\ /\ Cardinality(before) >= BRUTE_ATTEMPTS
                  /\ Cardinality(users) <= SPRAY_USERS
                  <=> "ssh_brute_force" \in lines[i].found
    BY <1>1 DEF SshIsSound, BurstsAreFound
  <2> QED
    BY <2>1, <2>2, <2>3 DEF BurstOK
<1>3. \A i \in 1 .. Len(s) : OneAttack(s, i)
  BY <1>1 DEF SshIsSound, SprayOrBruteForce, OneAttack
<1> QED
  BY <1>2, <1>3 DEF SoundLog

LEMMA SoundAfter ==
    ASSUME NEW s \in Seq(Line), s = lines', SoundLog(s)
    PROVE  SshIsSound'
<1>1. DOMAIN lines' = 1 .. Len(s)
  OBVIOUS
<1>2. BurstsAreFound'
  <2> SUFFICES ASSUME NEW i \in 1 .. Len(s)
               PROVE  EventTypeOf(lines'[i].form) = "failed_password" =>
                          LET before == FailuresBefore(i)'
                              users == {lines'[j].user : j \in before}
                          IN /\ Cardinality(before) >= MAX_FAILURES =>
                                    "excessive_failed_logins" \in lines'[i].found
                             /\ Cardinality(users) >= MAX_USERS
                                    <=> "username_enumeration" \in lines'[i].found
                             /\ /\ Cardinality(before) >= BRUTE_ATTEMPTS
                                /\ Cardinality(users) <= SPRAY_USERS
                                <=> "ssh_brute_force" \in lines'[i].found
    BY <1>1 DEF BurstsAreFound
  <2>1. FailuresBefore(i)' = BeforeIn(s, i)
    BY DEF FailuresBefore, BeforeIn
  <2>2. {lines'[j].user : j \in BeforeIn(s, i)} = UsersIn(s, BeforeIn(s, i))
    BY DEF UsersIn
  <2>3. BurstOK(s, i)
    BY DEF SoundLog
  <2> QED
    BY <2>1, <2>2, <2>3 DEF BurstOK
<1>3. SprayOrBruteForce'
  BY <1>1 DEF SprayOrBruteForce, OneAttack, SoundLog
<1> QED
  BY <1>2, <1>3 DEF SshIsSound

\* What is said of a line holds whatever follows.
LEMMA LinesStaySound ==
    ASSUME NEW s \in Seq(Line), NEW l \in Line, NEW t, t = Append(s, l), NEW n, n = Len(t),
           SoundLog(s), BurstOK(t, n), OneAttack(t, n)
    PROVE  SoundLog(t)
<1>1. /\ n = Len(s) + 1 /\ Len(s) \in Nat
      /\ \A j \in 1 .. Len(s) : t[j] = s[j]
      /\ \A j \in 1 .. n : j \in 1 .. Len(s) \/ j = n
  BY LogGrows DEF LogOf
<1> SUFFICES ASSUME NEW i \in 1 .. Len(s) PROVE BurstOK(t, i) /\ OneAttack(t, i)
  BY <1>1 DEF SoundLog
<1>2. BurstOK(s, i) /\ OneAttack(s, i)
  BY DEF SoundLog
<1>3. t[i] = s[i] /\ \A j \in 1 .. i : t[j] = s[j]
  BY <1>1
<1>4. BeforeIn(t, i) = BeforeIn(s, i) /\ BeforeIn(s, i) \subseteq 1 .. i
  BY <1>3 DEF BeforeIn
<1>5. UsersIn(t, BeforeIn(t, i)) = UsersIn(s, BeforeIn(s, i))
  BY <1>3, <1>4 DEF UsersIn
<1> QED
  BY <1>2, <1>3, <1>4, <1>5 DEF BurstOK, OneAttack

LEMMA PassKeepsSsh == ASSUME SshAssumption, SshInv, PassSecond PROVE SshInv'
<1>1. /\ second' = second + 1 /\ second \in Nat
      /\ UNCHANGED <<failures, names, sprays, brutes, lastLogin, connected, lines>>
  BY DEF PassSecond, SshInv, SshShape
<1>2. SshShape'
  <2>1. \A j \in 1 .. Len(lines) : lines[j].at \in Nat /\ lines[j].at <= second + 1
    <3> SUFFICES ASSUME NEW j \in 1 .. Len(lines)
                 PROVE  lines[j].at \in Nat /\ lines[j].at <= second + 1
      OBVIOUS
    <3>1. lines[j] \in Line /\ lines[j].at <= second
      BY DEF SshInv, SshShape
    <3> QED
      BY <1>1, <3>1, SMTT(30) DEF Line
  <2>2. SshShape
    BY DEF SshInv
  <2>3. second' \in Nat /\ \A j \in 1 .. Len(lines') : lines'[j].at <= second'
    BY <1>1, <2>1
  <2>4. \A a \in Addresses : names'[a] \in [DOMAIN names'[a] -> Nat] /\ DOMAIN names'[a] \subseteq Users
    BY <1>1, <2>2 DEF SshShape
  <2> QED
    BY <1>1, <2>2, <2>3, <2>4 DEF SshShape
<1>3. ASSUME NEW w, w \in {WINDOW, SPRAY_WINDOW}, NEW j, j \in Fresh(lines, second + 1, w)
      PROVE  j \in Fresh(lines, second, w)
  <2>1. j \in 1 .. Len(lines) /\ (second + 1) - lines[j].at < w
    BY <1>3 DEF Fresh
  <2>4. w \in Nat
    BY <1>3 DEF SshAssumption
  <2>2. lines[j] \in Line
    BY <2>1 DEF SshInv, SshShape
  <2>3. lines[j].at \in Nat
    BY <2>2 DEF Line
  <2>5. second - lines[j].at < w
    <3>1. PICK x \in Nat, v \in Nat, now \in Nat : x = lines[j].at /\ v = w /\ now = second
      BY <1>1, <2>3, <2>4
    <3>2. (now + 1) - x < v
      BY <2>1, <3>1
    <3> QED
      BY <3>1, <3>2
  <2> QED
    BY <2>1, <2>5 DEF Fresh
<1>4. \A q, note, R, w : /\ w \in {WINDOW, SPRAY_WINDOW}
                         /\ Keeps(q, note, R, Fresh(lines, second, w))
                         => Keeps(q, note, R, Fresh(lines, second + 1, w))
  <2> SUFFICES ASSUME NEW q, NEW note, NEW R, NEW w, w \in {WINDOW, SPRAY_WINDOW},
                      Keeps(q, note, R, Fresh(lines, second, w))
               PROVE  Keeps(q, note, R, Fresh(lines, second + 1, w))
    OBVIOUS
  <2>1. PICK V : V = Fresh(lines, second + 1, w)
    OBVIOUS
  <2>2. \A j \in R : j \in V => j \in Fresh(lines, second, w)
    BY <1>3, <2>1
  <2> QED
    BY <2>1, <2>2, KeepsLonger
<1>5. FailuresAreKept'
  BY <1>1, <1>4 DEF SshInv, FailuresAreKept
<1>6. BrutesAreKept'
  BY <1>1, <1>4 DEF SshInv, BrutesAreKept
<1>7. SpraysAreKept'
  BY <1>1, <1>4 DEF SshInv, SpraysAreKept
<1>8. NamesAreKept'
  BY <1>1, <1>3 DEF SshInv, NamesAreKept, AreLatest
<1>9. SshIsSound'
  <2>1. SoundLog(lines) /\ lines \in Seq(Line)
    BY SoundnessIsOfLines DEF SshInv, SshShape
  <2> QED
    BY <1>1, <2>1, SoundAfter
<1> QED
  BY <1>2, <1>5, <1>6, <1>7, <1>8, <1>9 DEF SshInv

\* A line from a or another address, which the tracker of a list does not record.
LEMMA OthersAreKept ==
    ASSUME NEW s \in Seq(Line), NEW l \in Line, NEW t, t = Append(s, l), NEW now, NEW w, NEW q,
           NEW R, R \subseteq 1 .. Len(s)
    PROVE  /\ Keeps(q, Times(s), R, Fresh(s, now, w)) => Keeps(q, Times(t), R, Fresh(t, now, w))
           /\ Keeps(q, Attempts(s), R, Fresh(s, now, w))
                  => Keeps(q, Attempts(t), R, Fresh(t, now, w))
<1>1. PICK n, V, W : n = Len(t) /\ V = Fresh(t, now, w) /\ W = Fresh(s, now, w)
  OBVIOUS
<1>2. \A j \in R : Times(t)[j] = Times(s)[j] /\ Attempts(t)[j] = Attempts(s)[j]
  <2>1. \A j \in 1 .. Len(s) : j \in 1 .. Len(t) /\ t[j] = s[j]
    OBVIOUS
  <2> QED
    BY <2>1 DEF Times, Attempts
<1>3. \A j \in R : j \in V => j \in W
  <2>1. SetsOf(s, l, t, n, 0)
    BY <1>1, SetsGrow
  <2> QED
    BY <1>1, <2>1 DEF SetsOf
<1>4. Keeps(q, Times(s), R, W) => Keeps(q, Times(t), R, V)
  BY <1>2, <1>3, KeepsLonger
<1>5. Keeps(q, Attempts(s), R, W) => Keeps(q, Attempts(t), R, V)
  BY <1>2, <1>3, KeepsLonger
<1> QED
  BY <1>1, <1>4, <1>5

\* Any line leaves the logs of the other addresses as they were.
LEMMA LineShape ==
    ASSUME SshInv, NEW l \in Line, l.at = second, NEW t, t = Append(lines, l), NEW n, n = Len(t)
    PROVE  /\ lines \in Seq(Line) /\ t \in Seq(Line) /\ second \in Nat
           /\ \A j \in 1 .. n : t[j].at <= second
<1>1. lines \in Seq(Line) /\ second \in Nat /\ \A j \in 1 .. Len(lines) : lines[j].at <= second
  BY DEF SshInv, SshShape
<1>2. /\ t \in Seq(Line) /\ t[n] = l
      /\ \A j \in 1 .. Len(lines) : t[j] = lines[j]
      /\ \A j \in 1 .. n : j \in 1 .. Len(lines) \/ j = n
  BY <1>1, LogGrows DEF LogOf
<1> QED
  BY <1>1, <1>2

\* The tracker of names, beside a line that it does not hear of.
LEMMA NamesLeft ==
    ASSUME NEW s \in Seq(Line), NEW l \in Line, NEW t, t = Append(s, l), NEW now, NEW w, NEW tried,
           NEW a, AreLatest(tried, s, a, Fresh(s, now, w)), Failed(t, a) = Failed(s, a),
           \A u : Tried(t, a, u) = Tried(s, a, u)
    PROVE  AreLatest(tried, t, a, Fresh(t, now, w))
<1>1. \A j \in 1 .. Len(s) : t[j] = s[j]
  OBVIOUS
<1>2. PICK n : n = Len(t)
  OBVIOUS
<1>3. SetsOf(s, l, t, n, a)
  BY <1>2, SetsGrow
<1>4. /\ \A j \in 1 .. Len(s) : j \in Fresh(t, now, w) => j \in Fresh(s, now, w)
      /\ Failed(s, a) \subseteq 1 .. Len(s) /\ \A u : Tried(s, a, u) \subseteq 1 .. Len(s)
  BY <1>3 DEF SetsOf
<1> QED
  BY <1>1, <1>4 DEF AreLatest

\* The tracker of failures, after a line that it records.
LEMMA FailuresRecord ==
    ASSUME SshAssumption, SshInv, NEW a \in Addresses, NEW l \in Line, l.at = second,
           NEW t, t = Append(lines, l), NEW n, n = Len(t), NEW p, p = FailedTimes(failures[a]),
           Counted(lines, a) \subseteq 1 .. Len(lines), Counted(t, a) = Counted(lines, a) \cup {n}
    PROVE  IsExact(p, Nat, Times(t), Counted(t, a), Fresh(t, second, WINDOW))
<1>1. PICK q, R, W, V, T : /\ q = failures[a] /\ R = Counted(lines, a)
                           /\ W = Fresh(lines, second, WINDOW) /\ V = Fresh(t, second, WINDOW)
                           /\ T = {x \in 0 .. second : second - x < WINDOW}
  OBVIOUS
<1>2. q \in Seq(Nat) /\ Keeps(q, Times(lines), R, W) /\ second \in Nat
  BY <1>1 DEF SshInv, SshShape, FailuresAreKept
<1>3. /\ lines \in Seq(Line) /\ t \in Seq(Line)
      /\ \A j \in 1 .. n : t[j].at <= second
  BY LineShape
<1>4. SetsOf(lines, l, t, n, a)
  BY <1>3, SetsGrow
<1>5. /\ n = Len(lines) + 1 /\ Times(t)[n] = second
      /\ \A j \in 1 .. Len(lines) : j # n /\ Times(t)[j] = Times(lines)[j]
      /\ \A j \in 1 .. Len(lines) : j \in 1 .. n
      /\ n \in 1 .. n
  <2>1. LogOf(lines, l, t, n)
    BY <1>3, LogGrows
  <2> QED
    BY <2>1 DEF LogOf
<1>6. \A j \in 1 .. n : Times(t)[j] \in T <=> j \in V
  <2>1. Sieves(T, t, second, WINDOW)
    BY <1>1, <1>2, <1>3, FreshIs
  <2> QED
    BY <1>1, <2>1 DEF Sieves
<1>7. \A j \in 1 .. Len(lines) : j \in V => j \in W
  BY <1>1, <1>4 DEF SetsOf
<1>8. R \subseteq 1 .. Len(lines) /\ n \notin R
  BY <1>1, <1>5
<1>9. Recording(Times(lines), Times(t), R, W, n, second, T, V)
  BY <1>5, <1>6, <1>7, <1>8 DEF Recording
<1>10. p = Sifted(Append(q, second), T)
  BY <1>1 DEF FailedTimes, Recent, InWindow
<1>11. IsExact(p, Nat, Times(t), R \cup {n}, V)
  BY <1>2, <1>9, <1>10, ListRecords
<1> QED
  BY <1>1, <1>11

LEMMA UnheededKeepsSsh ==
    ASSUME SshAssumption, SshInv, NEW a0 \in Addresses, NEW u0 \in Users, NEW f \in Forms,
           Unheeded(a0, u0, f)
    PROVE  SshInv'
<1>1. PICK l, t, n : /\ l = [form |-> f, address |-> a0, user |-> u0, at |-> second, found |-> {}]
                     /\ t = Append(lines, l) /\ n = Len(t)
  OBVIOUS
<1>2. /\ lines' = t /\ EventTypeOf(f) \notin {"failed_password", "success"}
      /\ UNCHANGED <<second, failures, names, sprays, brutes, lastLogin, connected>>
  BY <1>1 DEF Unheeded, Answered
<1>3. l \in Line /\ l.at = second /\ l.form = f /\ l.found = {}
  BY <1>1 DEF Line, SshInv, SshShape
<1>4. /\ lines \in Seq(Line) /\ t \in Seq(Line) /\ second \in Nat
      /\ \A j \in 1 .. n : t[j].at <= second
  BY <1>1, <1>3, LineShape
<1>5. \A a : SetsOf(lines, l, t, n, a)
  BY <1>1, <1>3, <1>4, SetsGrow
<1>6. \A a : /\ Failed(t, a) = Failed(lines, a) /\ Failed(t, a) \subseteq 1 .. Len(lines)
             /\ Counted(t, a) = Counted(lines, a) /\ Counted(t, a) \subseteq 1 .. Len(lines)
             /\ \A u : Tried(t, a, u) = Tried(lines, a, u) /\ Tried(t, a, u) \subseteq 1 .. Len(lines)
  BY <1>2, <1>3, <1>5 DEF SetsOf
<1>7. SshShape'
  BY <1>1, <1>2, <1>4 DEF SshInv, SshShape
<1>12. \A now, w, q, R : R \subseteq 1 .. Len(lines) =>
           /\ Keeps(q, Times(lines), R, Fresh(lines, now, w))
                  => Keeps(q, Times(t), R, Fresh(t, now, w))
           /\ Keeps(q, Attempts(lines), R, Fresh(lines, now, w))
                  => Keeps(q, Attempts(t), R, Fresh(t, now, w))
  BY <1>1, <1>3, <1>4, OthersAreKept, ZenonT(30)
<1>8. FailuresAreKept'
  BY <1>2, <1>6, <1>12 DEF SshInv, FailuresAreKept
<1>9. BrutesAreKept'
  BY <1>2, <1>6, <1>12 DEF SshInv, BrutesAreKept
<1>10. SpraysAreKept'
  BY <1>2, <1>6, <1>12 DEF SshInv, SpraysAreKept
<1>11. NamesAreKept'
  <2> SUFFICES ASSUME NEW a \in Addresses PROVE AreLatest(names[a], t, a, Fresh(t, second, WINDOW))
    BY <1>2 DEF NamesAreKept
  <2>1. AreLatest(names[a], lines, a, Fresh(lines, second, WINDOW))
    BY DEF SshInv, NamesAreKept
  <2> QED
    BY <1>1, <1>3, <1>4, <1>6, <2>1, NamesLeft
<1>13. SshIsSound'
  <2>1. SoundLog(lines)
    BY <1>4, SoundnessIsOfLines DEF SshInv
  <2>2. t[n] = l
    BY <1>1, <1>3, <1>4, LogGrows DEF LogOf
  <2>3. BurstOK(t, n) /\ OneAttack(t, n)
    BY <1>2, <1>3, <2>2 DEF BurstOK, OneAttack
  <2>4. SoundLog(t)
    BY <1>1, <1>3, <1>4, <2>1, <2>3, LinesStaySound
  <2>5. t = lines'
    BY <1>2
  <2> QED
    BY <1>4, <2>4, <2>5, SoundAfter
<1> QED
  BY <1>7, <1>8, <1>9, <1>10, <1>11, <1>13 DEF SshInv

\* An accepted password is recorded by the tracker of failures.
LEMMA AcceptedKeepsSsh ==
    ASSUME SshAssumption, SshInv, NEW a0 \in Addresses, NEW u0 \in Users, NEW f \in Forms,
           AcceptedPassword(a0, u0, f)
    PROVE  SshInv'
<1>0. PICK fl, found : fl = failures'[a0] /\ found = When(Len(fl) > 0, "success_after_failures")
                           \cup When(lastLogin[u0] \notin {Nobody, a0}, "impossible_travel")
  OBVIOUS
<1>1. PICK l, t, n : /\ l = [form |-> f, address |-> a0, user |-> u0, at |-> second, found |-> found]
                     /\ t = Append(lines, l) /\ n = Len(t)
  OBVIOUS
<1>2. /\ lines' = t /\ EventTypeOf(f) = "success"
      /\ failures' = [failures EXCEPT ![a0] = FailedTimes(failures[a0])]
      /\ UNCHANGED <<second, names, sprays, brutes>>
  BY <1>0, <1>1 DEF AcceptedPassword, Answered
<1>3. /\ l \in Line /\ l.at = second /\ l.form = f /\ l.address = a0
      /\ "ssh_brute_force" \notin l.found
  <2>1. found \in SUBSET ThreatType /\ "ssh_brute_force" \notin found
    BY <1>0 DEF When, ThreatType
  <2> QED
    BY <1>1, <2>1 DEF Line, SshInv, SshShape
<1>4. /\ lines \in Seq(Line) /\ t \in Seq(Line) /\ second \in Nat
      /\ \A j \in 1 .. n : t[j].at <= second
  BY <1>1, <1>3, LineShape
<1>5. \A a : SetsOf(lines, l, t, n, a)
  BY <1>1, <1>3, <1>4, SetsGrow
<1>6. \A a : /\ Failed(t, a) = Failed(lines, a) /\ Failed(t, a) \subseteq 1 .. Len(lines)
             /\ Counted(lines, a) \subseteq 1 .. Len(lines)
             /\ Counted(t, a) = IF a = a0 THEN Counted(lines, a) \cup {n} ELSE Counted(lines, a)
             /\ \A u : Tried(t, a, u) = Tried(lines, a, u) /\ Tried(t, a, u) \subseteq 1 .. Len(lines)
  BY <1>2, <1>3, <1>5 DEF SetsOf
<1>7. fl \in Seq(Nat) /\ Keeps(fl, Times(t), Counted(t, a0), Fresh(t, second, WINDOW))
  <2>1. fl = FailedTimes(failures[a0])
    BY <1>0, <1>2 DEF SshInv, SshShape
  <2>2. Counted(lines, a0) \subseteq 1 .. Len(lines) /\ Counted(t, a0) = Counted(lines, a0) \cup {n}
    BY <1>6
  <2> QED
    BY <1>1, <1>3, <2>1, <2>2, FailuresRecord DEF IsExact
<1>8. SshShape'
  <2>1. SshShape /\ failures' = [failures EXCEPT ![a0] = fl]
    BY <1>0, <1>2 DEF SshInv, SshShape
  <2>2. failures' \in [Addresses -> Seq(Nat)]
    BY <1>7, <2>1 DEF SshShape
  <2> QED
    BY <1>1, <1>2, <1>4, <2>1, <2>2 DEF SshShape
<1>9. \A now, w, q, R : R \subseteq 1 .. Len(lines) =>
           /\ Keeps(q, Times(lines), R, Fresh(lines, now, w))
                  => Keeps(q, Times(t), R, Fresh(t, now, w))
           /\ Keeps(q, Attempts(lines), R, Fresh(lines, now, w))
                  => Keeps(q, Attempts(t), R, Fresh(t, now, w))
  BY <1>1, <1>3, <1>4, OthersAreKept, ZenonT(30)
<1>10. FailuresAreKept'
  <2> SUFFICES ASSUME NEW a \in Addresses
               PROVE  Keeps(failures'[a], Times(t), Counted(t, a), Fresh(t, second, WINDOW))
    BY <1>2 DEF FailuresAreKept
  <2>1. CASE a = a0
    BY <1>0, <1>7, <2>1
  <2>2. CASE a # a0
    <3>1. failures'[a] = failures[a]
      BY <1>2, <2>2 DEF SshInv, SshShape
    <3>2. Keeps(failures[a], Times(lines), Counted(lines, a), Fresh(lines, second, WINDOW))
      BY DEF SshInv, FailuresAreKept
    <3> QED
      BY <1>6, <1>9, <2>2, <3>1, <3>2
  <2> QED
    BY <2>1, <2>2
<1>11. BrutesAreKept'
  BY <1>2, <1>6, <1>9 DEF SshInv, BrutesAreKept
<1>12. SpraysAreKept'
  BY <1>2, <1>6, <1>9 DEF SshInv, SpraysAreKept
<1>13. NamesAreKept'
  <2> SUFFICES ASSUME NEW a \in Addresses PROVE AreLatest(names[a], t, a, Fresh(t, second, WINDOW))
    BY <1>2 DEF NamesAreKept
  <2>1. AreLatest(names[a], lines, a, Fresh(lines, second, WINDOW))
    BY DEF SshInv, NamesAreKept
  <2> QED
    BY <1>1, <1>3, <1>4, <1>6, <2>1, NamesLeft
<1>14. SshIsSound'
  <2>1. SoundLog(lines)
    BY <1>4, SoundnessIsOfLines DEF SshInv
  <2>2. t[n] = l
    BY <1>1, <1>3, <1>4, LogGrows DEF LogOf
  <2>3. BurstOK(t, n) /\ OneAttack(t, n)
    BY <1>2, <1>3, <2>2 DEF BurstOK, OneAttack
  <2>4. SoundLog(t)
    BY <1>1, <1>3, <1>4, <2>1, <2>3, LinesStaySound
  <2>5. t = lines'
    BY <1>2
  <2> QED
    BY <1>4, <2>4, <2>5, SoundAfter
<1> QED
  BY <1>8, <1>10, <1>11, <1>12, <1>13, <1>14 DEF SshInv

\* The tracker of brute force, and that of sprays, after a failed password.
LEMMA BrutesRecord ==
    ASSUME SshAssumption, SshInv, NEW a \in Addresses, NEW l \in Line, l.at = second,
           NEW t, t = Append(lines, l), NEW n, n = Len(t),
           NEW p, p = BruteAttempts(brutes[a], l.user), Failed(t, a) = Failed(lines, a) \cup {n}
    PROVE  IsExact(p, [user : Users, at : Nat], Attempts(t), Failed(t, a), Fresh(t, second, WINDOW))
<1>1. PICK q, R, W, V, T, A, x, X :
         /\ q = brutes[a] /\ R = Failed(lines, a)
         /\ W = Fresh(lines, second, WINDOW) /\ V = Fresh(t, second, WINDOW)
         /\ T = {y \in 0 .. second : second - y < WINDOW} /\ A = [user : Users, at : T]
         /\ x = [user |-> l.user, at |-> second] /\ X = [user : Users, at : Nat]
  OBVIOUS
<1>2. q \in Seq(X) /\ Keeps(q, Attempts(lines), R, W) /\ second \in Nat
  BY <1>1 DEF SshInv, SshShape, BrutesAreKept
<1>3. /\ lines \in Seq(Line) /\ t \in Seq(Line)
      /\ \A j \in 1 .. n : t[j].at <= second
  BY LineShape
<1>4. SetsOf(lines, l, t, n, a) /\ LogOf(lines, l, t, n)
  BY <1>3, SetsGrow, LogGrows
<1>5. /\ n = Len(lines) + 1 /\ Attempts(t)[n] = x
      /\ \A j \in 1 .. Len(lines) : j # n /\ Attempts(t)[j] = Attempts(lines)[j]
      /\ \A j \in 1 .. Len(lines) : j \in 1 .. n
      /\ n \in 1 .. n
  BY <1>1, <1>4 DEF LogOf
<1>6. \A j \in 1 .. n : Attempts(t)[j] \in A <=> j \in V
  <2>1. Sieves(T, t, second, WINDOW)
    BY <1>1, <1>2, <1>3, FreshIs
  <2> QED
    BY <1>1, <2>1 DEF Sieves
<1>7. (\A j \in 1 .. Len(lines) : j \in V => j \in W) /\ R \subseteq 1 .. Len(lines)
  BY <1>1, <1>4 DEF SetsOf
<1>8. Recording(Attempts(lines), Attempts(t), R, W, n, x, A, V)
  BY <1>5, <1>6, <1>7 DEF Recording
<1>9. x \in X
  BY <1>1, <1>2 DEF Line
<1>10. p = Sifted(Append(q, x), A)
  BY <1>1 DEF BruteAttempts, InWindow
<1>11. IsExact(p, X, Attempts(t), R \cup {n}, V)
  BY <1>2, <1>8, <1>9, <1>10, ListRecords
<1> QED
  BY <1>1, <1>11

LEMMA SpraysRecord ==
    ASSUME SshAssumption, SshInv, NEW a \in Addresses, NEW l \in Line, l.at = second,
           NEW t, t = Append(lines, l), NEW n, n = Len(t),
           NEW p, p = SprayTimes(sprays[a], l.user), NEW u \in Users,
           Tried(t, a, u) = IF u = l.user THEN Tried(lines, a, u) \cup {n} ELSE Tried(lines, a, u)
    PROVE  IsExact(p[u], Nat, Times(t), Tried(t, a, u), Fresh(t, second, SPRAY_WINDOW))
<1>1. PICK q, R, W, V, T :
         /\ q = sprays[a][u] /\ R = Tried(lines, a, u)
         /\ W = Fresh(lines, second, SPRAY_WINDOW) /\ V = Fresh(t, second, SPRAY_WINDOW)
         /\ T = {y \in 0 .. second : second - y < SPRAY_WINDOW}
  OBVIOUS
<1>2. q \in Seq(Nat) /\ Keeps(q, Times(lines), R, W) /\ second \in Nat
  BY <1>1 DEF SshInv, SshShape, SpraysAreKept
<1>3. /\ lines \in Seq(Line) /\ t \in Seq(Line)
      /\ \A j \in 1 .. n : t[j].at <= second
  BY LineShape
<1>4. SetsOf(lines, l, t, n, a) /\ LogOf(lines, l, t, n)
  BY <1>3, SetsGrow, LogGrows
<1>5. /\ n = Len(lines) + 1 /\ Times(t)[n] = second
      /\ \A j \in 1 .. Len(lines) : j # n /\ Times(t)[j] = Times(lines)[j]
      /\ \A j \in 1 .. Len(lines) : j \in 1 .. n
      /\ n \in 1 .. n
  BY <1>4 DEF LogOf
<1>6. \A j \in 1 .. n : Times(t)[j] \in T <=> j \in V
  <2>1. Sieves(T, t, second, SPRAY_WINDOW)
    BY <1>1, <1>2, <1>3, FreshIs
  <2> QED
    BY <1>1, <2>1 DEF Sieves
<1>7. (\A j \in 1 .. Len(lines) : j \in V => j \in W) /\ R \subseteq 1 .. Len(lines)
  BY <1>1, <1>4 DEF SetsOf
<1>8. CASE u = l.user
  <2>1. Recording(Times(lines), Times(t), R, W, n, second, T, V)
    BY <1>5, <1>6, <1>7 DEF Recording
  <2>2. PICK s : s = p[u]
    OBVIOUS
  <2>3. s = Sifted(Append(q, second), T)
    BY <1>1, <1>8, <2>2 DEF SprayTimes, Recent, InWindow
  <2>4. IsExact(s, Nat, Times(t), R \cup {n}, V)
    BY <1>2, <2>1, <2>3, ListRecords
  <2> QED
    BY <1>1, <1>8, <2>2, <2>4
<1>9. CASE u # l.user
  <2>1. /\ \A j \in R : Times(t)[j] = Times(lines)[j]
        /\ \A j \in R : (Times(t)[j] \in T <=> j \in V) /\ (j \in V => j \in W)
    BY <1>5, <1>6, <1>7
  <2>2. PICK s : s = p[u]
    OBVIOUS
  <2>3. s = Sifted(q, T)
    BY <1>1, <1>9, <2>2 DEF SprayTimes, Recent, InWindow
  <2>4. IsExact(s, Nat, Times(t), R, V)
    BY <1>2, <2>1, <2>3, ListForgets
  <2> QED
    BY <1>1, <1>9, <2>2, <2>4
<1> QED
  BY <1>8, <1>9

\* A failed password is recorded by all four trackers of failures, and answered as they say.
FailedSituation(a0, l, t, n, fl, nm, sp, br) ==
    /\ l \in Line /\ l.at = second /\ l.address = a0 /\ EventTypeOf(l.form) = "failed_password"
    /\ t = Append(lines, l) /\ n = Len(t)
    /\ fl = FailedTimes(failures[a0]) /\ nm = NamesTried(names[a0], l.user)
    /\ sp = SprayTimes(sprays[a0], l.user) /\ br = BruteAttempts(brutes[a0], l.user)
FailedOutcome(a0, t, fl, nm, sp, br) ==
    /\ IsExact(fl, Nat, Times(t), Counted(t, a0), Fresh(t, second, WINDOW))
    /\ IsExact(br, [user : Users, at : Nat], Attempts(t), Failed(t, a0), Fresh(t, second, WINDOW))
    /\ \A u \in Users :
           IsExact(sp[u], Nat, Times(t), Tried(t, a0, u), Fresh(t, second, SPRAY_WINDOW))
    /\ NamesExact(nm, t, a0, second, WINDOW)

LEMMA TrackersRecord ==
    ASSUME SshAssumption, SshInv, NEW a0 \in Addresses, NEW l, NEW t, NEW n, NEW fl, NEW nm, NEW sp,
           NEW br, FailedSituation(a0, l, t, n, fl, nm, sp, br)
    PROVE  FailedOutcome(a0, t, fl, nm, sp, br)
<1> USE DEF FailedSituation
<1>1. /\ lines \in Seq(Line) /\ t \in Seq(Line) /\ second \in Nat
      /\ \A j \in 1 .. n : t[j].at <= second
  BY LineShape
<1>2. SetsOf(lines, l, t, n, a0)
  BY <1>1, SetsGrow
<1>3. /\ Failed(t, a0) = Failed(lines, a0) \cup {n}
      /\ Counted(lines, a0) \subseteq 1 .. Len(lines) /\ Counted(t, a0) = Counted(lines, a0) \cup {n}
      /\ \A u : Tried(t, a0, u) = IF u = l.user THEN Tried(lines, a0, u) \cup {n}
                                  ELSE Tried(lines, a0, u)
  BY <1>2 DEF SetsOf
<1>4. IsExact(fl, Nat, Times(t), Counted(t, a0), Fresh(t, second, WINDOW))
  BY <1>3, FailuresRecord
<1>5. IsExact(br, [user : Users, at : Nat], Attempts(t), Failed(t, a0), Fresh(t, second, WINDOW))
  BY <1>3, BrutesRecord
<1>6. ASSUME NEW u \in Users
      PROVE  IsExact(sp[u], Nat, Times(t), Tried(t, a0, u), Fresh(t, second, SPRAY_WINDOW))
  BY <1>3, SpraysRecord
<1>7. NamesExact(nm, t, a0, second, WINDOW)
  <2>1. PICK tried, all : /\ tried = names[a0]
                          /\ all = [u \in DOMAIN tried \cup {l.user} |->
                                       IF u = l.user THEN second ELSE tried[u]]
    OBVIOUS
  <2>2. /\ tried \in [DOMAIN tried -> Nat] /\ DOMAIN tried \subseteq Users
        /\ AreLatest(tried, lines, a0, Fresh(lines, second, WINDOW))
    BY <2>1 DEF SshInv, SshShape, NamesAreKept
  <2>3. nm = [u \in {v \in DOMAIN all : second - all[v] < WINDOW} |-> all[u]]
    BY <2>1 DEF NamesTried, InWindow
  <2>4. WINDOW \in Nat
    BY DEF SshAssumption
  <2>5. NamesRecord(lines, l, t, n, second, WINDOW, a0, tried, all, nm)
    BY <1>1, <2>1, <2>2, <2>3, <2>4 DEF NamesRecord
  <2> QED
    BY <2>5, NamesRecorded
<1> QED
  BY <1>4, <1>5, <1>6, <1>7 DEF FailedOutcome

\* What is answered is right, when the trackers are exact.
AnswerSituation(t, n, l, a0, now, fl, nm, sp, br, b2, F, U) ==
    /\ t \in Seq(Line) /\ n = Len(t) /\ n \in 1 .. n /\ t[n] = l
    /\ l.address = a0 /\ l.at = now /\ now \in Nat /\ b2 \in BOOLEAN
    /\ F = Failed(t, a0) \cap Fresh(t, now, WINDOW) /\ U = UsersIn(t, F) /\ DOMAIN nm = U
    /\ IsExact(fl, Nat, Times(t), Counted(t, a0), Fresh(t, now, WINDOW))
    /\ IsExact(br, [user : Users, at : Nat], Attempts(t), Failed(t, a0), Fresh(t, now, WINDOW))
    /\ \A u \in Users :
           IsExact(sp[u], Nat, Times(t), Tried(t, a0, u), Fresh(t, now, SPRAY_WINDOW))
    /\ l.found = When(Len(fl) >= MAX_FAILURES, "excessive_failed_logins")
                 \cup When(b2, "root_login_attempt")
                 \cup When(Cardinality(DOMAIN nm) >= MAX_USERS, "username_enumeration")
                 \cup When(IsSpray(sp), "password_spraying")
                 \cup When(IsBruteForce(br), "ssh_brute_force")
LEMMA AnswerIsRight ==
    ASSUME SshAssumption, NEW t, NEW n, NEW l, NEW a0, NEW now, NEW fl, NEW nm, NEW sp, NEW br,
           NEW b2, NEW F, NEW U, AnswerSituation(t, n, l, a0, now, fl, nm, sp, br, b2, F, U)
    PROVE  BurstOK(t, n) /\ OneAttack(t, n)
<1> USE DEF AnswerSituation
<1>1. BeforeIn(t, n) = F
  BY DEF BeforeIn, Failed, Fresh
<1>2. PICK C : C = Counted(t, a0) \cap Fresh(t, now, WINDOW)
  OBVIOUS
<1>3. IsFiniteSet(F) /\ Cardinality(F) = Len(br) /\ {br[i].user : i \in DOMAIN br} = U
  <2>0. PICK V, X, note : /\ V = Fresh(t, now, WINDOW) /\ X = [user : Users, at : Nat]
                          /\ note = Attempts(t)
    OBVIOUS
  <2>1. br \in Seq(X) /\ Keeps(br, note, F, V)
    BY <2>0 DEF IsExact
  <2>2. F \subseteq V /\ F \subseteq 1 .. Len(t)
    BY <2>0 DEF Failed
  <2>7. U = {t[j].user : j \in F}
    BY DEF UsersIn
  <2> HIDE DEF AnswerSituation
  <2>3. /\ IsFiniteSet(F) /\ Cardinality(F) = Len(br)
        /\ \A k \in DOMAIN br : \E j \in F : br[k] = note[j]
        /\ \A j \in F : \E k \in DOMAIN br : br[k] = note[j]
    <3>1. IsAll(br, note, F)
      BY <2>1, <2>2, KeptCount
    <3> QED
      BY <3>1 DEF IsAll
  <2>4. \A j \in F : note[j].user = t[j].user
    BY <2>0, <2>2 DEF Attempts
  <2>5. \A k \in DOMAIN br : br[k].user \in U
    BY <2>3, <2>4, <2>7
  <2>6. \A j \in F : \E k \in DOMAIN br : t[j].user = br[k].user
    BY <2>3, <2>4, SMTT(30)
  <2>8. {br[i].user : i \in DOMAIN br} = U
    BY <2>5, <2>6, <2>7
  <2> QED
    BY <2>3, <2>8
<1>4. Cardinality(F) <= Len(fl) /\ Len(fl) \in Nat /\ Cardinality(F) \in Nat
  <2>1. fl \in Seq(Nat) /\ Keeps(fl, Times(t), C, Fresh(t, now, WINDOW))
    BY <1>2 DEF IsExact
  <2>2. C \subseteq Fresh(t, now, WINDOW) /\ F \subseteq C
    BY <1>2 DEF Failed, Counted
  <2>3. IsFiniteSet(C) /\ Cardinality(C) = Len(fl)
    BY <2>1, <2>2, KeptCount DEF IsAll
  <2> QED
    BY <1>3, <2>1, <2>2, <2>3, FS_Subset, FS_CardinalityType
<1>5. PICK b1, b3, b4, b5 : /\ b1 = (Len(fl) >= MAX_FAILURES) /\ b3 = (Cardinality(U) >= MAX_USERS)
                            /\ b4 = IsSpray(sp) /\ b5 = IsBruteForce(br)
  OBVIOUS
<1>6. /\ b1 \in BOOLEAN /\ b3 \in BOOLEAN /\ b4 \in BOOLEAN /\ b5 \in BOOLEAN
  BY <1>5 DEF IsSpray, IsBruteForce
<1>7. /\ "excessive_failed_logins" \in l.found <=> b1
      /\ "username_enumeration" \in l.found <=> b3
      /\ "password_spraying" \in l.found <=> b4
      /\ "ssh_brute_force" \in l.found <=> b5
  <2>1. PICK found : found = When(b1, "excessive_failed_logins") \cup When(b2, "root_login_attempt")
                         \cup When(b3, "username_enumeration") \cup When(b4, "password_spraying")
                         \cup When(b5, "ssh_brute_force")
    OBVIOUS
  <2>2. l.found = found
    BY <1>5, <2>1
  <2>3. b2 \in BOOLEAN
    OBVIOUS
  <2> HIDE DEF AnswerSituation
  <2>4. /\ "excessive_failed_logins" \in found <=> b1
        /\ "username_enumeration" \in found <=> b3
        /\ "password_spraying" \in found <=> b4
        /\ "ssh_brute_force" \in found <=> b5
    BY <1>6, <2>1, <2>3, FoundIs, SMTT(30)
  <2> QED
    BY <2>2, <2>4
<1>8. b5 <=> Cardinality(F) >= BRUTE_ATTEMPTS /\ Cardinality(U) <= SPRAY_USERS
  BY <1>3, <1>5 DEF IsBruteForce
<1>9. Cardinality(F) >= MAX_FAILURES => b1
  <2> HIDE DEF AnswerSituation
  <2> SUFFICES ASSUME Cardinality(F) >= MAX_FAILURES PROVE Len(fl) >= MAX_FAILURES
    BY <1>5
  <2>1. MAX_FAILURES \in Nat
    BY DEF SshAssumption
  <2>2. PICK c, d, m \in Nat : c = Cardinality(F) /\ d = Len(fl) /\ m = MAX_FAILURES
    BY <1>4, <2>1
  <2> QED
    BY <1>4, <2>2
<1>10. BurstOK(t, n)
  BY <1>1, <1>5, <1>7, <1>8, <1>9 DEF BurstOK
<1>11. ~(b4 /\ b5)
  <2> SUFFICES ASSUME b4, b5 PROVE FALSE
    OBVIOUS
  <2>1. PICK G : G = Fresh(t, now, SPRAY_WINDOW)
    OBVIOUS
  <2>2. \A u \in Users : /\ sp[u] \in Seq(Nat) /\ Len(sp[u]) <= SPRAY_PER_USER
                         /\ Keeps(sp[u], Times(t), Tried(t, a0, u) \cap G, G)
    BY <1>5, <2>1 DEF IsSpray, IsExact
  <2>3. U = {t[j].user : j \in F}
    BY DEF UsersIn
  <2>4. Cardinality(F) < BRUTE_ATTEMPTS
    BY <1>3, <1>8, <2>1, <2>2, <2>3, NeverBoth
  <2> QED
    BY <1>4, <1>8, <2>4 DEF SshAssumption
<1>12. OneAttack(t, n)
  BY <1>7, <1>11 DEF OneAttack
<1> QED
  BY <1>10, <1>12

LEMMA FailedKeepsSsh ==
    ASSUME SshAssumption, SshInv, NEW a0 \in Addresses, NEW u0 \in Users, NEW f \in Forms,
           FailedPassword(a0, u0, f)
    PROVE  SshInv'
<1>0. PICK fl, nm, sp, br, found :
          /\ fl = FailedTimes(failures[a0]) /\ nm = NamesTried(names[a0], u0)
          /\ sp = SprayTimes(sprays[a0], u0) /\ br = BruteAttempts(brutes[a0], u0)
          /\ found = When(Len(fl) >= MAX_FAILURES, "excessive_failed_logins")
                     \cup When(u0 = "root", "root_login_attempt")
                     \cup When(Cardinality(DOMAIN nm) >= MAX_USERS, "username_enumeration")
                     \cup When(IsSpray(sp), "password_spraying")
                     \cup When(IsBruteForce(br), "ssh_brute_force")
  OBVIOUS
<1>1. PICK l, t, n : /\ l = [form |-> f, address |-> a0, user |-> u0, at |-> second, found |-> found]
                     /\ t = Append(lines, l) /\ n = Len(t)
  OBVIOUS
<1>2. /\ failures' = [failures EXCEPT ![a0] = fl] /\ names' = [names EXCEPT ![a0] = nm]
      /\ sprays' = [sprays EXCEPT ![a0] = sp] /\ brutes' = [brutes EXCEPT ![a0] = br]
      /\ EventTypeOf(f) = "failed_password" /\ second' = second
  BY <1>0 DEF FailedPassword
<1>3. /\ failures'[a0] = fl /\ names'[a0] = nm /\ sprays'[a0] = sp /\ brutes'[a0] = br
      /\ \A a \in Addresses : a # a0 => /\ failures'[a] = failures[a] /\ names'[a] = names[a]
                                        /\ sprays'[a] = sprays[a] /\ brutes'[a] = brutes[a]
  BY <1>2 DEF SshInv, SshShape
<1>4. lines' = t
  BY <1>0, <1>1, <1>3 DEF FailedPassword, Answered
<1>5. /\ l \in Line /\ l.at = second /\ l.form = f /\ l.address = a0 /\ l.user = u0
      /\ l.found = found
  <2>1. found \in SUBSET ThreatType
    BY <1>0 DEF When, ThreatType
  <2> QED
    BY <1>1, <2>1 DEF Line, SshInv, SshShape
<1>6. /\ lines \in Seq(Line) /\ t \in Seq(Line) /\ second \in Nat
      /\ \A j \in 1 .. n : t[j].at <= second
  BY <1>1, <1>5, LineShape
<1>7. \A a : SetsOf(lines, l, t, n, a)
  BY <1>1, <1>5, <1>6, SetsGrow
<1>8. \A a : /\ Failed(lines, a) \subseteq 1 .. Len(lines)
             /\ Counted(lines, a) \subseteq 1 .. Len(lines)
             /\ \A u : Tried(lines, a, u) \subseteq 1 .. Len(lines)
             /\ a # a0 => /\ Failed(t, a) = Failed(lines, a)
                          /\ Counted(t, a) = Counted(lines, a)
                          /\ \A u : Tried(t, a, u) = Tried(lines, a, u)
  BY <1>5, <1>7 DEF SetsOf
<1>9. FailedOutcome(a0, t, fl, nm, sp, br)
  <2>1. FailedSituation(a0, l, t, n, fl, nm, sp, br)
    BY <1>0, <1>1, <1>2, <1>5 DEF FailedSituation
  <2> QED
    BY <2>1, TrackersRecord
<1>10. /\ IsExact(fl, Nat, Times(t), Counted(t, a0), Fresh(t, second, WINDOW))
       /\ IsExact(br, [user : Users, at : Nat], Attempts(t), Failed(t, a0), Fresh(t, second, WINDOW))
       /\ \A u \in Users :
              IsExact(sp[u], Nat, Times(t), Tried(t, a0, u), Fresh(t, second, SPRAY_WINDOW))
       /\ NamesExact(nm, t, a0, second, WINDOW)
  BY <1>9 DEF FailedOutcome
<1>11. /\ fl \in Seq(Nat) /\ br \in Seq([user : Users, at : Nat]) /\ sp \in [Users -> Seq(Nat)]
       /\ nm \in [DOMAIN nm -> Nat] /\ DOMAIN nm \subseteq Users
  <2>1. \A u \in Users : sp[u] \in Seq(Nat)
    BY <1>10 DEF IsExact
  <2>2. sp \in [Users -> Seq(Nat)]
    BY <1>0, <2>1 DEF SprayTimes
  <2> QED
    BY <1>10, <2>2 DEF IsExact, NamesExact
<1>12. SshShape'
  <2>1. SshShape
    BY DEF SshInv
  <2>2. /\ failures' \in [Addresses -> Seq(Nat)] /\ sprays' \in [Addresses -> [Users -> Seq(Nat)]]
        /\ brutes' \in [Addresses -> Seq([user : Users, at : Nat])] /\ DOMAIN names' = Addresses
    BY <1>2, <1>11, <2>1 DEF SshShape
  <2>3. \A a \in Addresses : /\ names'[a] \in [DOMAIN names'[a] -> Nat]
                             /\ DOMAIN names'[a] \subseteq Users
    <3> SUFFICES ASSUME NEW a \in Addresses
                 PROVE  names'[a] \in [DOMAIN names'[a] -> Nat] /\ DOMAIN names'[a] \subseteq Users
      OBVIOUS
    <3>1. CASE a = a0
      BY <1>3, <1>11, <3>1
    <3>2. CASE a # a0
      BY <1>3, <2>1, <3>2 DEF SshShape
    <3> QED
      BY <3>1, <3>2
  <2>4. /\ second' \in Nat /\ lines' \in Seq(Line)
        /\ \A j \in 1 .. Len(lines') : lines'[j].at <= second'
    BY <1>1, <1>2, <1>4, <1>6
  <2> QED
    BY <2>2, <2>3, <2>4 DEF SshShape
<1>13. \A now, w, q, R : R \subseteq 1 .. Len(lines) =>
           /\ Keeps(q, Times(lines), R, Fresh(lines, now, w))
                  => Keeps(q, Times(t), R, Fresh(t, now, w))
           /\ Keeps(q, Attempts(lines), R, Fresh(lines, now, w))
                  => Keeps(q, Attempts(t), R, Fresh(t, now, w))
  BY <1>1, <1>5, <1>6, OthersAreKept, ZenonT(30)
<1>14. FailuresAreKept'
  <2> SUFFICES ASSUME NEW a \in Addresses
               PROVE  Keeps(failures'[a], Times(t), Counted(t, a), Fresh(t, second, WINDOW))
    BY <1>2, <1>4 DEF FailuresAreKept
  <2>1. CASE a = a0
    BY <1>3, <1>10, <2>1 DEF IsExact
  <2>2. CASE a # a0
    <3>1. Keeps(failures[a], Times(lines), Counted(lines, a), Fresh(lines, second, WINDOW))
      BY DEF SshInv, FailuresAreKept
    <3> QED
      BY <1>3, <1>8, <1>13, <2>2, <3>1
  <2> QED
    BY <2>1, <2>2
<1>15. BrutesAreKept'
  <2> SUFFICES ASSUME NEW a \in Addresses
               PROVE  Keeps(brutes'[a], Attempts(t), Failed(t, a), Fresh(t, second, WINDOW))
    BY <1>2, <1>4 DEF BrutesAreKept
  <2>1. CASE a = a0
    BY <1>3, <1>10, <2>1 DEF IsExact
  <2>2. CASE a # a0
    <3>1. Keeps(brutes[a], Attempts(lines), Failed(lines, a), Fresh(lines, second, WINDOW))
      BY DEF SshInv, BrutesAreKept
    <3> QED
      BY <1>3, <1>8, <1>13, <2>2, <3>1
  <2> QED
    BY <2>1, <2>2
<1>16. SpraysAreKept'
  <2> SUFFICES ASSUME NEW a \in Addresses, NEW u \in Users
               PROVE  Keeps(sprays'[a][u], Times(t), Tried(t, a, u), Fresh(t, second, SPRAY_WINDOW))
    BY <1>2, <1>4 DEF SpraysAreKept
  <2>1. CASE a = a0
    BY <1>3, <1>10, <2>1 DEF IsExact
  <2>2. CASE a # a0
    <3>1. Keeps(sprays[a][u], Times(lines), Tried(lines, a, u), Fresh(lines, second, SPRAY_WINDOW))
      BY DEF SshInv, SpraysAreKept
    <3> QED
      BY <1>3, <1>8, <1>13, <2>2, <3>1, SMTT(30)
  <2> QED
    BY <2>1, <2>2
<1>17. NamesAreKept'
  <2> SUFFICES ASSUME NEW a \in Addresses PROVE AreLatest(names'[a], t, a, Fresh(t, second, WINDOW))
    BY <1>2, <1>4 DEF NamesAreKept
  <2>1. CASE a = a0
    BY <1>3, <1>10, <2>1 DEF NamesExact
  <2>2. CASE a # a0
    <3>1. AreLatest(names[a], lines, a, Fresh(lines, second, WINDOW))
      BY DEF SshInv, NamesAreKept
    <3> QED
      BY <1>1, <1>3, <1>5, <1>6, <1>8, <2>2, <3>1, NamesLeft
  <2> QED
    BY <2>1, <2>2
<1>18. SshIsSound'
  <2>1. SoundLog(lines)
    BY <1>6, SoundnessIsOfLines DEF SshInv
  <2>2. t[n] = l /\ n \in 1 .. n
    BY <1>1, <1>5, <1>6, LogGrows DEF LogOf
  <2>3. PICK F, U, b2 : /\ F = Failed(t, a0) \cap Fresh(t, second, WINDOW) /\ U = UsersIn(t, F)
                        /\ b2 = (u0 = "root")
    OBVIOUS
  <2>4. b2 \in BOOLEAN /\ DOMAIN nm = U
    BY <1>10, <2>3 DEF NamesExact, UsersIn
  <2>8. AnswerSituation(t, n, l, a0, second, fl, nm, sp, br, b2, F, U)
    BY <1>0, <1>1, <1>5, <1>6, <1>10, <2>2, <2>3, <2>4 DEF AnswerSituation
  <2>5. BurstOK(t, n) /\ OneAttack(t, n)
    BY <2>8, AnswerIsRight
  <2>6. SoundLog(t)
    BY <1>1, <1>5, <1>6, <2>1, <2>5, LinesStaySound
  <2>7. t = lines'
    BY <1>4
  <2> QED
    BY <1>6, <2>6, <2>7, SoundAfter
<1> QED
  BY <1>12, <1>14, <1>15, <1>16, <1>17, <1>18 DEF SshInv

LEMMA SshStep == ASSUME SshAssumption, SshInv, [SshNext]_sshVars PROVE SshInv'
<1>1. CASE SshNext
  <2>1. CASE PassSecond
    BY <2>1, PassKeepsSsh
  <2>2. ASSUME NEW a \in Addresses, NEW u \in Users, NEW f \in Forms,
               \/ FailedPassword(a, u, f) \/ AcceptedPassword(a, u, f) \/ Unheeded(a, u, f)
        PROVE  SshInv'
    BY <2>2, FailedKeepsSsh, AcceptedKeepsSsh, UnheededKeepsSsh
  <2> QED
    BY <1>1, <2>1, <2>2 DEF SshNext
<1>2. CASE UNCHANGED sshVars
  <2>1. UNCHANGED <<second, failures, names, sprays, brutes, lines>>
    BY <1>2 DEF sshVars
  <2>2. SshShape' /\ FailuresAreKept' /\ BrutesAreKept' /\ SpraysAreKept' /\ NamesAreKept'
    BY <2>1 DEF SshInv, SshShape, FailuresAreKept, BrutesAreKept, SpraysAreKept, NamesAreKept
  <2>3. SoundLog(lines) /\ lines \in Seq(Line)
    BY SoundnessIsOfLines DEF SshInv, SshShape
  <2>4. SshIsSound'
    BY <2>1, <2>3, SoundAfter
  <2> QED
    BY <2>2, <2>4 DEF SshInv
<1> QED
  BY <1>1, <1>2

\* Whatever lines came before, in whatever order and however far apart, the detector answers a
\* failed password as the failures of the address within the window say, and never as a spray
\* and as brute force at once: analyze and the trackers of detectors/ssh.
THEOREM BurstsFound == SshSpec => []SshIsSound
<1> USE SshAssumption
<1>1. SshInit => SshInv
  BY InitSsh
<1>2. SshInv /\ [SshNext]_sshVars => SshInv'
  BY SshStep
<1>3. SshInv => SshIsSound
  BY DEF SshInv
<1> QED
  BY <1>1, <1>2, <1>3, PTL DEF SshSpec

LEMMA FewerPlaces ==
    ASSUME NEW m \in Nat, NEW n \in Nat, NEW at \in [1 .. m -> 1 .. n],
           \A k, l \in 1 .. m : at[k] = at[l] => k = l
    PROVE  m <= n
<1>1. at \in Injection(1 .. m, 1 .. n)
  BY DEF Injection, IsInjective
<1>2. IsFiniteSet(1 .. m) /\ IsFiniteSet(1 .. n) /\ Cardinality(1 .. m) = m /\ Cardinality(1 .. n) = n
  BY FS_Interval
<1>3. Cardinality(1 .. m) <= Cardinality(1 .. n)
  BY <1>1, <1>2, FS_Injection
<1> QED
  BY <1>2, <1>3

\* The bounds, and the trackers that say nothing of failures.
SshBounds ==
    /\ second <= LastSecond /\ Len(lines) <= MaxLines
    /\ lastLogin \in [Users -> Addresses \cup {Nobody}]
    /\ connected \subseteq Addresses

LEMMA BoundsKeep == ASSUME SshAssumption, SshInv, SshBounds, [SshNext]_sshVars PROVE SshBounds'
<1>1. second \in Nat /\ LastSecond \in Nat /\ MaxLines \in Nat /\ Len(lines) \in Nat /\ lines \in Seq(Line)
  BY DEF SshInv, SshShape, SshAssumption
<1>2. ASSUME NEW a \in Addresses, NEW u \in Users, NEW f \in Forms, NEW l, lines' = Append(lines, l),
             Len(lines) < MaxLines
      PROVE  Len(lines') <= MaxLines
  BY <1>1, <1>2
<1>3. ASSUME NEW a \in Addresses, NEW u \in Users, NEW f \in Forms, FailedPassword(a, u, f) PROVE SshBounds'
  <2>1. Len(lines') <= MaxLines
    BY <1>2, <1>3 DEF FailedPassword, Answered
  <2> QED
    BY <1>3, <2>1 DEF FailedPassword, SshBounds
<1>4. ASSUME NEW a \in Addresses, NEW u \in Users, NEW f \in Forms, AcceptedPassword(a, u, f) PROVE SshBounds'
  <2>1. Len(lines') <= MaxLines
    BY <1>2, <1>4 DEF AcceptedPassword, Answered
  <2> QED
    BY <1>4, <2>1 DEF AcceptedPassword, SshBounds
<1>5. ASSUME NEW a \in Addresses, NEW u \in Users, NEW f \in Forms, Unheeded(a, u, f) PROVE SshBounds'
  <2>1. Len(lines') <= MaxLines
    BY <1>2, <1>5 DEF Unheeded, Answered
  <2> QED
    BY <1>5, <2>1 DEF Unheeded, SshBounds
<1>6. CASE PassSecond
  BY <1>1, <1>6 DEF PassSecond, SshBounds
<1>7. CASE UNCHANGED sshVars
  BY <1>7 DEF sshVars, SshBounds
<1> QED
  BY <1>3, <1>4, <1>5, <1>6, <1>7 DEF SshNext

LEMMA SshTyped == ASSUME SshAssumption, SshInv, SshBounds PROVE SshTypeOK
<1>1. /\ second \in Nat /\ lines \in Seq(Line) /\ Len(lines) \in Nat /\ LastSecond \in Nat
      /\ \A j \in 1 .. Len(lines) : lines[j].at <= second /\ lines[j].at \in Nat
                                    /\ lines[j].found \subseteq ThreatType
  <2>1. second \in Nat /\ lines \in Seq(Line) /\ \A j \in 1 .. Len(lines) : lines[j].at <= second
    BY DEF SshInv, SshShape
  <2>2. ASSUME NEW j \in 1 .. Len(lines) PROVE lines[j].at \in Nat /\ lines[j].found \subseteq ThreatType
    <3>1. lines[j] \in Line
      BY <2>1
    <3> QED
      BY <3>1 DEF Line
  <2>3. Len(lines) \in Nat
    BY <2>1
  <2>4. LastSecond \in Nat
    BY DEF SshAssumption
  <2> QED
    BY <2>1, <2>2, <2>3, <2>4
<1>2. ASSUME NEW a \in Addresses PROVE \A i \in DOMAIN failures[a] : failures[a][i] \in 0 .. second
  <2>1. PICK q \in Seq(Nat) : q = failures[a]
    BY DEF SshInv, SshShape
  <2>2. PICK at : IsKept(at, q, Times(lines), Counted(lines, a), Fresh(lines, second, WINDOW))
    BY <2>1 DEF SshInv, FailuresAreKept, Keeps
  <2>3. ASSUME NEW i \in 1 .. Len(q) PROVE q[i] \in 0 .. second
    <3>1. at[i] \in 1 .. Len(lines) /\ q[i] = Times(lines)[at[i]]
      BY <2>2 DEF IsKept, Counted
    <3>2. q[i] = lines[at[i]].at
      BY <3>1 DEF Times
    <3>3. PICK j \in 1 .. Len(lines) : j = at[i]
      BY <3>1
    <3>4. PICK x \in Nat : x = lines[j].at /\ x <= second
      BY <1>1
    <3>5. second \in Nat /\ x \in 0 .. second
      BY <1>1, <3>4
    <3> QED
      BY <3>2, <3>3, <3>4, <3>5
  <2>4. DOMAIN q = 1 .. Len(q)
    BY <2>1
  <2> QED
    BY <2>1, <2>3, <2>4
<1>3. ASSUME NEW a \in Addresses PROVE /\ DOMAIN names[a] \subseteq Users
                                       /\ \A i \in DOMAIN brutes[a] : brutes[a][i].user \in Users
  <2>0. PICK T : T = [user : Users, at : Nat]
    OBVIOUS
  <2>1. PICK q \in Seq(T) : q = brutes[a]
    BY <2>0 DEF SshInv, SshShape
  <2>2. \A i \in 1 .. Len(q) : q[i].user \in Users
    <3>1. \A i \in 1 .. Len(q) : q[i] \in T
      BY <2>1
    <3>2. \A x \in T : x.user \in Users
      BY <2>0
    <3> QED
      BY <3>1, <3>2
  <2>3. DOMAIN q = 1 .. Len(q)
    BY <2>1
  <2> QED
    BY <2>1, <2>2, <2>3 DEF SshInv, SshShape
<1>4. ASSUME NEW a \in Addresses, NEW u \in Users PROVE Len(sprays[a][u]) <= MaxLines
  <2>1. PICK q \in Seq(Nat) : q = sprays[a][u]
    BY DEF SshInv, SshShape
  <2>2. PICK at : IsKept(at, q, Times(lines), Tried(lines, a, u), Fresh(lines, second, SPRAY_WINDOW))
    BY <2>1 DEF SshInv, SpraysAreKept, Keeps
  <2>3. Tried(lines, a, u) \subseteq 1 .. Len(lines)
    BY DEF Tried, Failed
  <2>4. at \in [1 .. Len(q) -> 1 .. Len(lines)] /\ \A k, l \in 1 .. Len(q) : at[k] = at[l] => k = l
    BY <2>2, <2>3 DEF IsKept
  <2>5. PICK m \in Nat, n \in Nat : m = Len(q) /\ n = Len(lines)
    BY <1>1, <2>1
  <2>6. m <= n
    BY <2>4, <2>5, FewerPlaces
  <2>7. Len(q) <= Len(lines)
    BY <2>5, <2>6
  <2> QED
    BY <1>1, <2>1, <2>5, <2>7 DEF SshBounds, SshAssumption
<1>5. DOMAIN lines = 1 .. Len(lines)
  BY <1>1
<1>6. second \in 0 .. LastSecond
  BY <1>1 DEF SshBounds
<1> QED
  BY <1>1, <1>2, <1>3, <1>4, <1>5, <1>6 DEF SshTypeOK, SshBounds

\* No tracker notes a time to come, a name that is not one or more attempts than there were
\* lines, and what is answered is a kind of threat: detectors/ssh.
THEOREM SshTypeCorrect == SshSpec => []SshTypeOK
<1> USE SshAssumption
<1>1. SshInit => SshInv /\ SshBounds
  <2>1. SshInit => SshBounds
    BY DEF SshInit, SshBounds, SshAssumption
  <2> QED
    BY <2>1, InitSsh
<1>2. SshInv /\ SshBounds /\ [SshNext]_sshVars => SshInv' /\ SshBounds'
  BY SshStep, BoundsKeep
<1>3. SshInv /\ SshBounds => SshTypeOK
  BY SshTyped
<1> QED
  BY <1>1, <1>2, <1>3, PTL DEF SshSpec

-----------------------------------------------------------------------------
(* Rules.                                                                  *)

RulesShape ==
    /\ rules \in Seq({rules[i] : i \in DOMAIN rules}) /\ Len(rules) <= MaxRules
    /\ \A i \in DOMAIN rules : IsTree(rules[i].conditions) /\ ValidConditions(rules[i].conditions)
    /\ DOMAIN compiled = {rules[i].id : i \in DOMAIN rules}
    /\ enabled \subseteq DOMAIN compiled
    /\ matches.event \in EventInputs \cup {<<>>}

\* The table of an id is that of one of the rules that have it.
TablesAreOfRules ==
    \A id \in DOMAIN compiled : \E i \in DOMAIN rules : /\ rules[i].id = id
                                                        /\ compiled[id] = Expressions(rules[i].conditions)

AskedAreThere == matches.asked \subseteq DOMAIN rules

RulesInv == RulesShape /\ TablesAreOfRules /\ AskedAreThere /\ MatchesAsWritten

-----------------------------------------------------------------------------
\* A leaf of conditions with one expression a field matches by their own table what it says by
\* itself: the table holds its expression, or none of its field if it has none that counts.
LEMMA OwnTableIsOwn ==
    ASSUME NEW rule, IsTree(rule.conditions), Unambiguous(rule), NEW event, NEW i \in Leaves(rule.conditions)
    PROVE  Matches(rule.conditions[i], event, Expressions(rule.conditions))
               <=> Says(rule.conditions, i, event)
<1>1. PICK nodes : nodes = rule.conditions
  OBVIOUS
<1>2. PICK leaf : leaf = nodes[i]
  OBVIOUS
<1>3. CASE leaf.operator # "regex"
  <2>1. i \notin Regexes(nodes)
    BY <1>2, <1>3 DEF Regexes
  <2> QED
    BY <1>1, <1>2, <1>3, <2>1 DEF Matches, Says
<1>4. CASE leaf.operator = "regex" /\ i \in Regexes(nodes)
  <2>1. PICK f : f = leaf.field
    OBVIOUS
  <2>3. \A j \in Regexes(nodes) : nodes[j].field = f => j = i
    BY <1>1, <1>2, <1>4, <2>1 DEF Unambiguous, Regexes
  <2>4. f \in {nodes[j].field : j \in Regexes(nodes)}
    BY <1>2, <1>4, <2>1
  <2>5. {j \in Regexes(nodes) : nodes[j].field = f} = {i}
    BY <1>2, <1>4, <2>1, <2>3
  <2>6. i \in Nat
    BY <1>1 DEF IsTree, Leaves
  <2>7. (CHOOSE j \in {i} : \A k \in {i} : k <= j) = i
    BY <2>6
  <2>8. f \in DOMAIN Expressions(nodes) /\ Expressions(nodes)[f] = leaf.value.folded
    BY <1>2, <2>4, <2>5, <2>7 DEF Expressions
  <2>9. Says(nodes, i, event) <=> f \in DOMAIN event /\ event[f] \in leaf.value.folded
    BY <1>2, <1>4, <2>1 DEF Says
  <2> QED
    BY <1>1, <1>2, <1>4, <2>1, <2>8, <2>9 DEF Matches
<1>5. CASE leaf.operator = "regex" /\ i \notin Regexes(nodes)
  <2>1. \A j \in Regexes(nodes) : nodes[j].field # leaf.field
    BY <1>1, <1>2, <1>5 DEF Unambiguous
  <2>2. leaf.field \notin DOMAIN Expressions(nodes)
    BY <2>1 DEF Expressions
  <2>3. leaf.field \notin DOMAIN <<>>
    OBVIOUS
  <2> QED
    BY <1>1, <1>2, <1>5, <2>2, <2>3 DEF Matches, Says
<1> QED
  BY <1>3, <1>4, <1>5

\* And so do the conditions.
LEMMA OwnTableMeansTheSame ==
    ASSUME NEW rule, IsTree(rule.conditions), Unambiguous(rule), NEW event
    PROVE  Evaluate(rule.conditions, event, Expressions(rule.conditions))
               <=> AsWritten(rule.conditions, event)
<1>1. {i \in Leaves(rule.conditions) :
           Matches(rule.conditions[i], event, Expressions(rule.conditions))}
          = {i \in Leaves(rule.conditions) : Says(rule.conditions, i, event)}
  BY OwnTableIsOwn
<1> QED
  BY <1>1 DEF Evaluate, AsWritten

-----------------------------------------------------------------------------
(* That the conditions of a rule have a meaning at all: the recursion from *)
(* the leaves to the root ends, since members come after what has them.    *)

\* What a node is, by what holds of the others.
NodeHolds(conditions, found, i, holds) ==
    IF i \in Leaves(conditions) THEN i \in found ELSE Combine(conditions[i], holds)

Means(conditions, found, holds) ==
    /\ holds \in [DOMAIN conditions -> BOOLEAN]
    /\ \A i \in DOMAIN conditions : holds[i] = NodeHolds(conditions, found, i, holds)

\* A node asks nothing but its members.
LEMMA NodesAskMembers ==
    ASSUME NEW c, IsTree(c), ValidConditions(c), NEW found, NEW i \in DOMAIN c, NEW f, NEW g,
           \A m \in i + 1 .. Len(c) : f[m] = g[m]
    PROVE  /\ NodeHolds(c, found, i, f) = NodeHolds(c, found, i, g)
           /\ NodeHolds(c, found, i, f) \in BOOLEAN
<1>1. CASE i \in Leaves(c)
  BY <1>1 DEF NodeHolds
<1>2. CASE i \notin Leaves(c)
  <2>1. c[i].members \subseteq i + 1 .. Len(c) /\ c[i].logical \in {"and", "or", "not"}
    BY <1>2 DEF IsTree, ValidConditions, Leaves, LogicalOp
  <2>2. \A m \in c[i].members : f[m] = g[m]
    BY <2>1
  <2>3. Combine(c[i], f) = Combine(c[i], g) /\ Combine(c[i], f) \in BOOLEAN
    BY <2>1, <2>2 DEF Combine
  <2> QED
    BY <1>2, <2>3 DEF NodeHolds
<1> QED
  BY <1>1, <1>2

LEMMA MeaningExists ==
    ASSUME NEW c, IsTree(c), ValidConditions(c), NEW found
    PROVE  \E holds : Means(c, found, holds)
<1>1. PICK n \in Nat : n = Len(c) /\ DOMAIN c = 1 .. n
  BY DEF IsTree
<1> DEFINE Decided(k) == \E h \in [1 .. n -> BOOLEAN] :
                          \A i \in n - k + 1 .. n : h[i] = NodeHolds(c, found, i, h)
<1>2. PICK S : S = {k \in 0 .. n : Decided(k)}
  OBVIOUS
<1>3. 0 \in S
  <2>1. PICK h : h = [i \in 1 .. n |-> FALSE]
    OBVIOUS
  <2>2. h \in [1 .. n -> BOOLEAN] /\ \A i : i \notin n - 0 + 1 .. n
    BY <2>1
  <2> QED
    BY <1>2, <2>2
<1>4. ASSUME NEW k \in 1 .. n, k - 1 \in S PROVE k \in S
  <2>1. PICK h \in [1 .. n -> BOOLEAN] :
            \A i \in n - (k - 1) + 1 .. n : h[i] = NodeHolds(c, found, i, h)
    BY <1>2, <1>4
  <2>2. PICK j \in 1 .. n : j = n - k + 1
    OBVIOUS
  <2>3. NodeHolds(c, found, j, h) \in BOOLEAN
    BY <1>1, NodesAskMembers
  <2>4. PICK g : g = [h EXCEPT ![j] = NodeHolds(c, found, j, h)]
    OBVIOUS
  <2>5. /\ g \in [1 .. n -> BOOLEAN] /\ g[j] = NodeHolds(c, found, j, h)
        /\ \A i \in 1 .. n : i # j => g[i] = h[i]
    BY <2>1, <2>3, <2>4
  <2>6. ASSUME NEW i \in j .. n PROVE g[i] = NodeHolds(c, found, i, g)
    <3>1. i \in 1 .. n /\ \A m \in i + 1 .. n : m \in 1 .. n /\ m # j
      BY <2>2
    <3>2. \A m \in i + 1 .. Len(c) : h[m] = g[m]
      BY <1>1, <2>5, <3>1
    <3>3. NodeHolds(c, found, i, h) = NodeHolds(c, found, i, g)
      BY <1>1, <3>1, <3>2, NodesAskMembers
    <3>4. g[i] = NodeHolds(c, found, i, h)
      <4>1. CASE i = j
        BY <2>5, <4>1
      <4>2. CASE i # j
        <5>1. i \in n - (k - 1) + 1 .. n
          BY <2>2, <4>2
        <5> QED
          BY <2>1, <2>5, <3>1, <4>2, <5>1
      <4> QED
        BY <4>1, <4>2
    <3> QED
      BY <3>3, <3>4
  <2>7. Decided(k)
    BY <2>2, <2>5, <2>6
  <2> QED
    BY <1>2, <2>7
<1>5. n \in S
  <2> HIDE DEF Decided
  <2>1. \A k \in 1 .. n : k - 1 \in S => k \in S
    BY <1>4
  <2>2. \A k \in 0 .. n : k \in S
    BY <1>3, <2>1, InductionUpTo
  <2> QED
    BY <2>2
<1>6. PICK h \in [1 .. n -> BOOLEAN] : \A i \in n - n + 1 .. n : h[i] = NodeHolds(c, found, i, h)
  BY <1>2, <1>5
<1> QED
  BY <1>1, <1>6 DEF Means

\* The conditions of any rule have a meaning, that of a composite one by the meanings of its
\* members, whatever the depth: evaluate_condition ends, and what it says of the root is what
\* all, any or not any of the members say.
THEOREM ConditionsMean ==
    ASSUME NEW c, IsTree(c), ValidConditions(c), NEW found
    PROVE  \E holds : Means(c, found, holds) /\ holds[1] = Holds(c, found)
<1> DEFINE Is(h) == h = [i \in DOMAIN c |->
                            IF i \in Leaves(c) THEN i \in found ELSE Combine(c[i], h)]
<1>1. \A h : Means(c, found, h) => Is(h)
  BY DEF Means, NodeHolds
<1>2. \E h : Is(h)
  BY <1>1, MeaningExists
<1>3. PICK holds : holds = CHOOSE h : Is(h)
  OBVIOUS
<1>4. Is(holds)
  BY <1>2, <1>3
<1>5. holds[1] = Holds(c, found)
  BY <1>3 DEF Holds
<1>6. DOMAIN holds = DOMAIN c /\ \A i \in DOMAIN c : holds[i] = NodeHolds(c, found, i, holds)
  BY <1>4 DEF NodeHolds
<1>7. \A i \in DOMAIN c : NodeHolds(c, found, i, holds) \in BOOLEAN
  BY NodesAskMembers
<1>8. holds = [i \in DOMAIN c |-> holds[i]]
  BY <1>4
<1> HIDE DEF Is
<1>9. holds \in [DOMAIN c -> BOOLEAN]
  BY <1>6, <1>7, <1>8
<1> QED
  BY <1>5, <1>6, <1>9 DEF Means

-----------------------------------------------------------------------------
LEMMA InitRules == RulesInit => RulesInv
<1> SUFFICES ASSUME RulesInit PROVE RulesInv
  OBVIOUS
<1>1. rules = <<>> /\ compiled = <<>> /\ enabled = {} /\ matches = NoMatches
  BY DEF RulesInit
<1>2. DOMAIN rules = {} /\ DOMAIN compiled = {} /\ Len(rules) = 0 /\ rules \in Seq({rules[i] : i \in DOMAIN rules})
  BY <1>1
<1>3. matches.event = <<>> /\ matches.asked = {}
  BY <1>1 DEF NoMatches
<1> QED
  BY <1>1, <1>2, <1>3, RulesAssumption
     DEF RulesInv, RulesShape, TablesAreOfRules, AskedAreThere, MatchesAsWritten

LEMMA OwnElements ==
    ASSUME NEW X, NEW s \in Seq(X)
    PROVE  DOMAIN s = 1 .. Len(s) /\ s \in Seq({s[i] : i \in DOMAIN s})
<1>1. PICK n \in Nat : n = Len(s) /\ DOMAIN s = 1 .. n
  OBVIOUS
<1>2. PICK Y : Y = {s[i] : i \in DOMAIN s}
  OBVIOUS
<1>3. s \in [1 .. n -> Y]
  BY <1>1, <1>2
<1>4. s \in Seq(Y)
  BY <1>3
<1> QED
  BY <1>1, <1>2, <1>4

\* The rules that an engine has already stay where they are.
LEMMA LoadKeeps == ASSUME RulesInv, NEW file \in RuleFileContents, LoadRules(file) PROVE RulesInv'
<1>1. /\ ValidRules(file) /\ Len(rules) + Len(file) <= MaxRules /\ rules' = rules \o file
      /\ compiled' = Join(compiled, TablesOf(file))
      /\ enabled' = enabled \cup {file[i].id : i \in {j \in DOMAIN file : file[j].enabled}}
      /\ matches' = matches
  BY DEF LoadRules
<1>2. PICK m \in Nat, n \in Nat : /\ m = Len(rules) /\ n = Len(file)
                                  /\ DOMAIN rules = 1 .. m /\ DOMAIN file = 1 .. n
  <2>1. file \in Seq({file[i] : i \in DOMAIN file})
    BY RulesAssumption
  <2>2. rules \in Seq({rules[i] : i \in DOMAIN rules})
    BY DEF RulesInv, RulesShape
  <2>3. Len(file) \in Nat /\ DOMAIN file = 1 .. Len(file)
    BY <2>1
  <2>4. Len(rules) \in Nat /\ DOMAIN rules = 1 .. Len(rules)
    BY <2>2
  <2> QED
    BY <2>3, <2>4
<1>3. /\ Len(rules') = m + n /\ DOMAIN rules' = 1 .. m + n
      /\ \A i \in 1 .. m : rules'[i] = rules[i]
      /\ \A i \in 1 .. n : rules'[m + i] = file[i]
      /\ rules' \in Seq({rules'[i] : i \in DOMAIN rules'})
  <2>1. PICK X : X = {rules[i] : i \in DOMAIN rules} \cup {file[i] : i \in DOMAIN file}
    OBVIOUS
  <2>2. rules \in Seq(X) /\ file \in Seq(X)
    <3>1. rules \in Seq({rules[i] : i \in DOMAIN rules}) /\ file \in Seq({file[i] : i \in DOMAIN file})
      BY RulesAssumption DEF RulesInv, RulesShape
    <3> QED
      BY <2>1, <3>1
  <2>3. /\ rules' \in Seq(X) /\ Len(rules') = m + n
        /\ \A i \in 1 .. m : rules'[i] = rules[i]
        /\ \A i \in 1 .. n : rules'[m + i] = file[i]
    BY <1>1, <1>2, <2>2
  <2>4. DOMAIN rules' = 1 .. Len(rules') /\ rules' \in Seq({rules'[i] : i \in DOMAIN rules'})
    BY <2>3, OwnElements
  <2> QED
    BY <2>3, <2>4
<1>4. /\ \A i \in 1 .. m + n : i \in 1 .. m \/ (i - m \in 1 .. n /\ i = m + (i - m))
      /\ \A i \in 1 .. m : i \in 1 .. m + n
      /\ \A i \in 1 .. n : m + i \in 1 .. m + n
  OBVIOUS
<1>5. DOMAIN TablesOf(file) = {file[i].id : i \in 1 .. n}
  BY <1>2 DEF TablesOf
<1>6. /\ DOMAIN compiled' = DOMAIN compiled \cup {file[i].id : i \in 1 .. n}
      /\ \A id \in DOMAIN compiled' :
             compiled'[id] = IF id \in DOMAIN TablesOf(file) THEN TablesOf(file)[id] ELSE compiled[id]
  BY <1>1, <1>5 DEF Join
<1>7. {rules'[i].id : i \in DOMAIN rules'} = {rules[i].id : i \in 1 .. m} \cup {file[i].id : i \in 1 .. n}
  <2>1. ASSUME NEW i \in 1 .. m + n
        PROVE  rules'[i].id \in {rules[k].id : k \in 1 .. m} \cup {file[k].id : k \in 1 .. n}
    <3>1. CASE i \in 1 .. m
      BY <1>3, <3>1
    <3>2. CASE i \notin 1 .. m
      <4>1. PICK k \in 1 .. n : i = m + k
        BY <1>4, <3>2
      <4>2. rules'[i] = file[k]
        BY <1>3, <4>1
      <4> QED
        BY <4>2
    <3> QED
      BY <3>1, <3>2
  <2>2. ASSUME NEW i \in 1 .. m PROVE rules[i].id \in {rules'[k].id : k \in 1 .. m + n}
    BY <1>3, <1>4
  <2>3. ASSUME NEW i \in 1 .. n PROVE file[i].id \in {rules'[k].id : k \in 1 .. m + n}
    BY <1>3, <1>4
  <2>4. DOMAIN rules' = 1 .. m + n
    BY <1>3
  <2> QED
    BY <2>1, <2>2, <2>3, <2>4
<1>8. RulesShape'
  <2>1. ASSUME NEW i \in 1 .. m + n PROVE IsTree(rules'[i].conditions) /\ ValidConditions(rules'[i].conditions)
    <3>1. CASE i \in 1 .. m
      BY <1>2, <1>3, <3>1 DEF RulesInv, RulesShape
    <3>2. CASE i \notin 1 .. m
      <4>1. PICK k \in 1 .. n : i = m + k
        BY <1>4, <3>2
      <4>2. IsTree(file[k].conditions) /\ ValidConditions(file[k].conditions)
        BY <1>1, <1>2, RulesAssumption DEF ValidRules
      <4> QED
        BY <1>3, <4>1, <4>2
    <3> QED
      BY <3>1, <3>2
  <2>2. enabled' \subseteq DOMAIN compiled'
    BY <1>1, <1>2, <1>6 DEF RulesInv, RulesShape
  <2>3. DOMAIN compiled' = {rules'[i].id : i \in DOMAIN rules'}
    BY <1>2, <1>6, <1>7 DEF RulesInv, RulesShape
  <2>4. matches'.event \in EventInputs \cup {<<>>}
    BY <1>1 DEF RulesInv, RulesShape
  <2> QED
    BY <1>1, <1>2, <1>3, <2>1, <2>2, <2>3, <2>4 DEF RulesShape
<1>9. TablesAreOfRules'
  <2> SUFFICES ASSUME NEW id \in DOMAIN compiled'
               PROVE  \E i \in 1 .. m + n : /\ rules'[i].id = id
                                            /\ compiled'[id] = Expressions(rules'[i].conditions)
    BY <1>3 DEF TablesAreOfRules
  <2>1. CASE id \in {file[i].id : i \in 1 .. n}
    <3>1. PICK i : i = CHOOSE j \in DOMAIN file : file[j].id = id
      OBVIOUS
    <3>2. i \in 1 .. n /\ file[i].id = id
      BY <1>2, <2>1, <3>1
    <3>3. TablesOf(file)[id] = Expressions(file[i].conditions)
      BY <1>2, <2>1, <3>1 DEF TablesOf
    <3> QED
      BY <1>3, <1>4, <1>5, <1>6, <2>1, <3>2, <3>3
  <2>2. CASE id \notin {file[i].id : i \in 1 .. n}
    <3>1. id \in DOMAIN compiled /\ compiled'[id] = compiled[id]
      BY <1>5, <1>6, <2>2
    <3>2. PICK i \in 1 .. m : rules[i].id = id /\ compiled[id] = Expressions(rules[i].conditions)
      BY <1>2, <3>1 DEF RulesInv, TablesAreOfRules
    <3> QED
      BY <1>3, <1>4, <3>1, <3>2
  <2> QED
    BY <2>1, <2>2
<1>10. AskedAreThere'
  BY <1>1, <1>2, <1>3, <1>4 DEF RulesInv, AskedAreThere
<1>11. MatchesAsWritten'
  <2> SUFFICES ASSUME NEW i \in matches.asked, Unambiguous(rules'[i]),
                      \A j \in DOMAIN rules' : rules'[j].id = rules'[i].id => rules'[j] = rules'[i]
               PROVE  i \in matches.found <=> AsWritten(rules'[i].conditions, matches.event)
    BY <1>1 DEF MatchesAsWritten
  <2>1. i \in 1 .. m /\ rules'[i] = rules[i]
    BY <1>2, <1>3 DEF RulesInv, AskedAreThere
  <2>2. \A j \in DOMAIN rules : rules[j].id = rules[i].id => rules[j] = rules[i]
    BY <1>2, <1>3, <1>4, <2>1
  <2> QED
    BY <2>1, <2>2 DEF RulesInv, MatchesAsWritten
<1> QED
  BY <1>8, <1>9, <1>10, <1>11 DEF RulesInv

LEMMA EvaluateKeeps == ASSUME RulesInv, NEW event \in EventInputs, EvaluateEvent(event) PROVE RulesInv'
<1>1. PICK asked : asked = {i \in DOMAIN rules : rules[i].id \in enabled}
  OBVIOUS
<1>2. /\ UNCHANGED <<rules, compiled, enabled>>
      /\ matches'.event = event /\ matches'.asked = asked
      /\ matches'.found = {i \in asked : Evaluate(rules[i].conditions, event, TableFor(rules[i]))}
  BY <1>1 DEF EvaluateEvent
<1>3. RulesShape' /\ TablesAreOfRules' /\ AskedAreThere'
  BY <1>1, <1>2 DEF RulesInv, RulesShape, TablesAreOfRules, AskedAreThere
<1>4. ASSUME NEW i \in asked, Unambiguous(rules[i]),
             \A j \in DOMAIN rules : rules[j].id = rules[i].id => rules[j] = rules[i]
      PROVE  i \in matches'.found <=> AsWritten(rules[i].conditions, event)
  <2>1. i \in DOMAIN rules /\ IsTree(rules[i].conditions) /\ rules[i].id \in DOMAIN compiled
    BY <1>1 DEF RulesInv, RulesShape
  <2>2. PICK j \in DOMAIN rules : /\ rules[j].id = rules[i].id
                                  /\ compiled[rules[i].id] = Expressions(rules[j].conditions)
    BY <2>1 DEF RulesInv, TablesAreOfRules
  <2>3. TableFor(rules[i]) = Expressions(rules[i].conditions)
    BY <1>4, <2>2 DEF TableFor
  <2>4. Evaluate(rules[i].conditions, event, Expressions(rules[i].conditions))
            <=> AsWritten(rules[i].conditions, event)
    BY <1>4, <2>1, OwnTableMeansTheSame
  <2> QED
    BY <1>2, <2>3, <2>4
<1>5. MatchesAsWritten'
  BY <1>2, <1>4 DEF MatchesAsWritten
<1> QED
  BY <1>3, <1>5 DEF RulesInv

LEMMA NextRules == ASSUME RulesInv, [RulesNext]_ruleVars PROVE RulesInv'
<1>1. CASE \E file \in RuleFileContents : LoadRules(file)
  BY <1>1, LoadKeeps
<1>2. ASSUME UNCHANGED <<rules, compiled, matches>>, enabled' \subseteq DOMAIN compiled
      PROVE  RulesInv'
  BY <1>2 DEF RulesInv, RulesShape, TablesAreOfRules, AskedAreThere, MatchesAsWritten
<1>3. ASSUME NEW id, EnableRule(id) PROVE RulesInv'
  BY <1>2, <1>3 DEF EnableRule, RulesInv, RulesShape
<1>4. ASSUME NEW id, DisableRule(id) PROVE RulesInv'
  BY <1>2, <1>4 DEF DisableRule, RulesInv, RulesShape
<1>5. CASE \E event \in EventInputs : EvaluateEvent(event)
  BY <1>5, EvaluateKeeps
<1>6. CASE ClearRules
  <2>1. (RulesInit)'
    BY <1>6 DEF ClearRules, RulesInit
  <2>2. rules' = <<>> /\ compiled' = <<>> /\ enabled' = {} /\ matches' = NoMatches
    BY <1>6 DEF ClearRules
  <2>3. DOMAIN rules' = {} /\ DOMAIN compiled' = {} /\ Len(rules') = 0 /\ rules' \in Seq({rules'[i] : i \in DOMAIN rules'})
    BY <2>2
  <2>4. matches'.event = <<>> /\ matches'.asked = {}
    BY <2>2 DEF NoMatches
  <2> QED
    BY <2>2, <2>3, <2>4, RulesAssumption
       DEF RulesInv, RulesShape, TablesAreOfRules, AskedAreThere, MatchesAsWritten
<1>7. CASE UNCHANGED ruleVars
  BY <1>2, <1>7 DEF ruleVars, RulesInv, RulesShape
<1> QED
  BY <1>1, <1>3, <1>4, <1>5, <1>6, <1>7 DEF RulesNext

LEMMA RulesInvariance == RulesSpec => []RulesInv
BY InitRules, NextRules, PTL DEF RulesSpec

\* The engine never has more rules than it may, each of them valid, a table for each id, and
\* enables no id it does not have, whatever is loaded and cleared.
THEOREM RulesTypeCorrect == RulesSpec => []RulesTypeOK
<1>1. ValidRules(<<>>)
  BY DEF ValidRules
<1>2. ASSUME RulesInv PROVE RulesTypeOK
  BY <1>1, <1>2 DEF RulesInv, RulesShape, RulesTypeOK
<1> QED
  BY <1>2, RulesInvariance, PTL

\* A rule with one expression a field, whose id no other rule shares, matches by the compiled
\* table what its conditions say: for any files, loaded, disabled and cleared in any order, and
\* conditions of any depth.
THEOREM RulesMatchAsWritten == RulesSpec => []MatchesAsWritten
<1>1. RulesInv => MatchesAsWritten
  BY DEF RulesInv
<1> QED
  BY <1>1, RulesInvariance, PTL

-----------------------------------------------------------------------------
(* The components together, as the run has them.                           *)

\* A step of the composition is a step of each component, or leaves it alone.
LEMMA PartsStep ==
    [DefenceNext]_defenceVars => /\ [Next]_vars /\ [ThreatsNext]_threatVars /\ [RulesNext]_ruleVars
                                 /\ [SshNext]_sshVars /\ [DetectorsNext]_detectorVars
<1> SUFFICES ASSUME [DefenceNext]_defenceVars
             PROVE  /\ [Next]_vars /\ [ThreatsNext]_threatVars /\ [RulesNext]_ruleVars
                    /\ [SshNext]_sshVars /\ [DetectorsNext]_detectorVars
  OBVIOUS
<1>1. CASE UNCHANGED defenceVars
  BY <1>1 DEF defenceVars
<1>2. CASE DefenceNext
  <2>1. CASE Of("enforcement") /\ Next
    BY <2>1 DEF Of
  <2>2. CASE Of("threats") /\ ThreatsNext
    BY <2>2 DEF Of
  <2>3. CASE Of("rules") /\ RulesNext
    BY <2>3 DEF Of
  <2>4. CASE Of("ssh") /\ SshNext
    BY <2>4 DEF Of
  <2>5. CASE Of("detectors") /\ DetectorsNext
    BY <2>5 DEF Of
  <2>6. \/ Of("enforcement") /\ Next
        \/ Of("threats") /\ ThreatsNext
        \/ Of("rules") /\ RulesNext
        \/ Of("ssh") /\ SshNext
        \/ Of("detectors") /\ DetectorsNext
    BY <1>2 DEF DefenceNext, Next, ThreatsNext, RulesNext, SshNext, DetectorsNext
  <2> QED
    BY <2>1, <2>2, <2>3, <2>4, <2>5, <2>6
<1> QED
  BY <1>1, <1>2

\* What is proved of a component alone is so in the composition: its behaviours are behaviours of
\* every component.
THEOREM DefenceIsItsParts ==
    DefenceSpec => Spec /\ ThreatsSpec /\ RulesSpec /\ SshSpec /\ DetectorsSpec
<1>1. DefenceInit => Init /\ ThreatsInit /\ RulesInit /\ SshInit /\ DetectorsInit
  BY DEF DefenceInit
<1> QED
  BY <1>1, PartsStep, PTL DEF DefenceSpec, Spec, ThreatsSpec, RulesSpec, SshSpec, DetectorsSpec

\* All the variables of what judges and acts keep their shape, for any values of the constants.
THEOREM DefenceTypeCorrect == DefenceSpec => []DefenceTypeOK
<1>1. TypeOK /\ ThreatsTypeOK /\ RulesTypeOK /\ SshTypeOK /\ DetectorsTypeOK => DefenceTypeOK
  BY DEF DefenceTypeOK
<1> QED
  BY <1>1, DefenceIsItsParts, EnforcementTypeCorrect, ThreatsTypeCorrect, RulesTypeCorrect,
     SshTypeCorrect, DetectorsTypeCorrect, PTL

\* What the run of the composition checks, all of it, for any values of the constants.
THEOREM DefenceIsSound ==
    DefenceSpec => /\ []EnforcementIsSound /\ NeverMilder /\ []DecayIsPaidOnce
                   /\ []MatchesAsWritten /\ []SshIsSound /\ []ResultsAreComplete
BY DefenceIsItsParts, EnforcementSound, EscalationNeverEases, DecayPaidOnce, RulesMatchAsWritten,
   BurstsFound, AnalysesAreComplete
=============================================================================
