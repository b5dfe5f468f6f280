---------------------------- MODULE Agent_proofs ----------------------------
(***************************************************************************)
(* Theorems about the agent's database, its correlation engine, its        *)
(* monitors, its pipeline and its configuration, one section for each, for *)
(* any keys, deaths, definitions, journals, stages, runs, files and        *)
(* environments; the last section is about all of them together.           *)
(***************************************************************************)
EXTENDS MCAgent, Induction_proofs, FiniteSetTheorems

-----------------------------------------------------------------------------
(* The agent's database.                                                   *)

\* The types, without the bounds on statements and deaths.
StoreTypes ==
    /\ schema \in [Visits -> Nat] /\ \A m \in Visits : schema[m] <= Len(Migrations[m])
    /\ history \in Seq(Visits)
    /\ rows \in [StoreKeys -> Nat] /\ pending \in [StoreKeys -> Nat]
    /\ acked \in [StoreKeys -> Nat]
    /\ statements \in Nat /\ misreads \in Nat
    /\ migrating \in [phase : {"idle", "running", "migrated", "failed"}, at : Nat \ {0},
                      applied : SUBSET Visits, done : Nat]

\* A run of the migrations has on record what is behind it and what it skips; what it does not
\* skip has been recorded by a failed read at most, and the statements that it has executed have
\* taken effect, again if the name is on record.
Behind == {m \in Visits : m < migrating.at \/ m \in migrating.applied}
RunKnows ==
    migrating.phase = "running" =>
        /\ Behind \subseteq ToSet(history)
        /\ \A m \in Visits \ Behind : Recorded(m) <= misreads
        /\ migrating.at \in Visits /\ migrating.at \notin migrating.applied =>
               /\ migrating.done <= schema[migrating.at]
               /\ migrating.at \in ToSet(history) =>
                      \A i \in 1 .. migrating.done : Migrations[migrating.at][i] = "again"

\* No statement that is still to come has been acknowledged.
AckedBefore == \A k \in StoreKeys : acked[k] <= statements

StoreInv == StoreTypes /\ RunKnows /\ MigrationsAreWhole /\ AckedBefore /\ AcknowledgedIsDurable

disk == <<schema, history, migrating, misreads>>
table == <<rows, acked, statements>>

-----------------------------------------------------------------------------
LEMMA VisitsAreNumbers ==
    /\ Len(Migrations) \in Nat /\ Visits = 1 .. Len(Migrations)
    /\ \A m \in Visits : Migrations[m] \in Seq({"again", "once"}) /\ Len(Migrations[m]) \in Nat
<1>1. Migrations \in Seq(Seq({"again", "once"}))
  BY StoreAssumption
<1>2. Len(Migrations) \in Nat /\ Visits = 1 .. Len(Migrations)
  BY <1>1 DEF Visits
<1>3. \A m \in Visits : Migrations[m] \in Seq({"again", "once"})
  BY <1>1, <1>2
<1> QED
  BY <1>2, <1>3

LEMMA InitStore == AgentStoreInit => StoreInv
<1> SUFFICES ASSUME AgentStoreInit PROVE StoreInv
  OBVIOUS
<1>1. history = <<>> /\ ToSet(history) = {} /\ DOMAIN history = {}
  BY DEF AgentStoreInit, ToSet
<1>2. StoreTypes
  BY VisitsAreNumbers DEF AgentStoreInit, StoreTypes, NoRows, Idle
<1>3. RunKnows
  BY DEF AgentStoreInit, RunKnows, Idle
<1>4. MigrationsAreWhole
  <2>1. \A m \in Visits : Recorded(m) = 0
    BY <1>1, FS_EmptySet DEF Recorded
  <2> QED
    BY <1>1, <2>1, VisitsAreNumbers DEF AgentStoreInit, MigrationsAreWhole
<1>5. AckedBefore /\ AcknowledgedIsDurable
  BY DEF AgentStoreInit, AckedBefore, AcknowledgedIsDurable, NoRows
<1> QED
  BY <1>2, <1>3, <1>4, <1>5 DEF StoreInv

\* What the migrations do and what the statements do does not meet.
LEMMA DiskKeeps ==
    ASSUME StoreInv, UNCHANGED disk
    PROVE  /\ RunKnows' /\ MigrationsAreWhole'
           /\ schema' \in [Visits -> Nat] /\ \A m \in Visits : schema'[m] <= Len(Migrations[m])
           /\ history' \in Seq(Visits) /\ misreads' \in Nat
           /\ migrating' \in [phase : {"idle", "running", "migrated", "failed"}, at : Nat \ {0},
                              applied : SUBSET Visits, done : Nat]
<1>1. Behind' = Behind /\ \A m \in Visits : Recorded(m)' = Recorded(m)
  BY DEF disk, Behind, Recorded
<1> QED
  BY <1>1 DEF disk, StoreInv, StoreTypes, RunKnows, MigrationsAreWhole

LEMMA TableKeeps ==
    ASSUME StoreInv, UNCHANGED table
    PROVE  /\ AckedBefore' /\ AcknowledgedIsDurable'
           /\ rows' \in [StoreKeys -> Nat] /\ acked' \in [StoreKeys -> Nat] /\ statements' \in Nat
  BY DEF table, StoreInv, StoreTypes, AckedBefore, AcknowledgedIsDurable

\* A commit never makes a row older.
LEMMA CommitGrows ==
    ASSUME StoreInv, NEW changed \in [StoreKeys -> Nat]
    PROVE  /\ Committed(changed) \in [StoreKeys -> Nat]
           /\ \A k \in StoreKeys : /\ Committed(changed)[k] >= rows[k]
                                   /\ Committed(changed)[k] >= changed[k]
  BY DEF Committed, LargerOf, StoreInv, StoreTypes

-----------------------------------------------------------------------------
(* The migrations *)

\* How often a name is on record, and what one more record makes of it.
CountOf(h, m) == Cardinality({i \in DOMAIN h : h[i] = m})

LEMMA Counted ==
    ASSUME NEW T, NEW h \in Seq(T), NEW m
    PROVE  CountOf(h, m) \in Nat /\ (m \notin ToSet(h) => CountOf(h, m) = 0)
<1>1. PICK S : S = {i \in DOMAIN h : h[i] = m}
  OBVIOUS
<1>2. IsFiniteSet(S) /\ Cardinality(S) \in Nat
  <2>1. IsFiniteSet(1 .. Len(h)) /\ S \in SUBSET (1 .. Len(h))
    BY <1>1, FS_Interval
  <2> QED
    BY <2>1, FS_Subset, FS_CardinalityType
<1>3. m \notin ToSet(h) => S = {}
  BY <1>1 DEF ToSet
<1>4. m \notin ToSet(h) => Cardinality(S) = 0
  BY <1>3, FS_EmptySet, Zenon
<1> QED
  BY <1>1, <1>2, <1>4, Zenon DEF CountOf

LEMMA CountedAgain ==
    ASSUME NEW T, NEW h \in Seq(T), NEW x \in T, NEW m
    PROVE  /\ x = m => CountOf(Append(h, x), m) = CountOf(h, m) + 1
           /\ x # m => CountOf(Append(h, x), m) = CountOf(h, m)
<1>1. PICK S : S = {i \in DOMAIN h : h[i] = m}
  OBVIOUS
<1>2. PICK n : n = Len(h) + 1
  OBVIOUS
<1>3. /\ DOMAIN h = 1 .. Len(h) /\ DOMAIN Append(h, x) = 1 .. n /\ Len(h) \in Nat
      /\ \A i \in 1 .. Len(h) : Append(h, x)[i] = h[i]
      /\ Append(h, x)[n] = x
  BY <1>2
<1>4. IsFiniteSet(S) /\ n \notin S
  <2>1. IsFiniteSet(1 .. Len(h)) /\ S \in SUBSET (1 .. Len(h))
    BY <1>1, <1>3, FS_Interval
  <2>2. IsFiniteSet(S)
    BY <2>1, FS_Subset
  <2>3. n \notin S
    BY <1>1, <1>2, <1>3
  <2> QED
    BY <2>2, <2>3
<1>5. Cardinality(S \cup {n}) = Cardinality(S) + 1
  BY <1>4, FS_AddElement
<1>6. x = m => {i \in DOMAIN Append(h, x) : Append(h, x)[i] = m} = S \cup {n}
  BY <1>1, <1>2, <1>3
<1>7. x # m => {i \in DOMAIN Append(h, x) : Append(h, x)[i] = m} = S
  BY <1>1, <1>2, <1>3
<1>8. CountOf(h, m) = Cardinality(S)
  BY <1>1, Zenon DEF CountOf
<1>9. x = m => CountOf(Append(h, x), m) = Cardinality(S) + 1
  BY <1>5, <1>6, Zenon DEF CountOf
<1>10. x # m => CountOf(Append(h, x), m) = Cardinality(S)
  BY <1>7, Zenon DEF CountOf
<1> QED
  BY <1>8, <1>9, <1>10, Zenon

LEMMA RecordsCount ==
    /\ \A m : Recorded(m) = CountOf(history, m)
    /\ \A m : Recorded(m)' = CountOf(history', m)
  BY DEF Recorded, CountOf

LEMMA MoveIsTyped ==
    ASSUME StoreTypes, NEW a \in Nat \ {0}, NEW d \in Nat,
           migrating' = [migrating EXCEPT !.at = a, !.done = d]
    PROVE  /\ migrating'.at = a /\ migrating'.done = d
           /\ migrating'.phase = migrating.phase /\ migrating'.applied = migrating.applied
           /\ migrating' \in [phase : {"idle", "running", "migrated", "failed"}, at : Nat \ {0},
                              applied : SUBSET Visits, done : Nat]
<1> DEFINE old == migrating
<1>1. /\ old \in [phase : {"idle", "running", "migrated", "failed"}, at : Nat \ {0},
                  applied : SUBSET Visits, done : Nat]
      /\ migrating' = [old EXCEPT !.at = a, !.done = d]
  BY DEF StoreTypes
<1> HIDE DEF old
<1>2. migrating' = [phase |-> old.phase, at |-> a, applied |-> old.applied, done |-> d]
  BY <1>1
<1>3. /\ old.phase \in {"idle", "running", "migrated", "failed"}
      /\ old.applied \in SUBSET Visits
  BY <1>1
<1> QED
  BY <1>2, <1>3 DEF old

LEMMA ExecuteKeeps ==
    ASSUME StoreInv, ExecuteStatement
    PROVE  StoreInv'
<1> DEFINE at == migrating.at
           done == migrating.done
<1>1. /\ migrating.phase = "running" /\ at \in Visits /\ at \notin migrating.applied
      /\ done < Len(Migrations[at])
      /\ schema' = [schema EXCEPT ![at] = IF @ > done THEN @ ELSE done + 1]
      /\ migrating' = [migrating EXCEPT !.done = @ + 1]
      /\ Migrations[at][done + 1] = "again" \/ schema[at] <= done
      /\ UNCHANGED <<history, pending, misreads>> /\ UNCHANGED table
  BY DEF ExecuteStatement, Running, Executes, Script, table
<1>2. at \in Nat /\ done \in Nat /\ schema[at] \in Nat /\ Len(Migrations[at]) \in Nat
  BY <1>1, VisitsAreNumbers DEF StoreInv, StoreTypes
<1>3. schema'[at] <= Len(Migrations[at]) /\ schema'[at] >= done + 1 /\ schema'[at] \in Nat
  BY <1>1, <1>2 DEF StoreInv, StoreTypes
<1>4. \A m \in Visits \ {at} : schema'[m] = schema[m]
  BY <1>1 DEF StoreInv, StoreTypes
<1>5. /\ migrating'.phase = "running" /\ migrating'.at = at /\ migrating'.done = done + 1
      /\ migrating'.applied = migrating.applied
      /\ migrating' \in [phase : {"idle", "running", "migrated", "failed"}, at : Nat \ {0},
                         applied : SUBSET Visits, done : Nat]
  <2>1. migrating' = [migrating EXCEPT !.at = at, !.done = done + 1]
    BY <1>1 DEF StoreInv, StoreTypes
  <2>2. StoreTypes /\ at \in Nat \ {0} /\ done + 1 \in Nat
    BY <1>2 DEF StoreInv, StoreTypes
  <2>3. /\ migrating'.at = at /\ migrating'.done = done + 1
        /\ migrating'.phase = migrating.phase /\ migrating'.applied = migrating.applied
        /\ migrating' \in [phase : {"idle", "running", "migrated", "failed"}, at : Nat \ {0},
                           applied : SUBSET Visits, done : Nat]
    BY <2>1, <2>2, MoveIsTyped
  <2> QED
    BY <1>1, <2>3
<1>6. StoreTypes'
  BY <1>1, <1>3, <1>4, <1>5, TableKeeps DEF StoreInv, StoreTypes
<1>7. /\ \A m \in Visits : Recorded(m)' = Recorded(m)
      /\ at \in ToSet(history) => schema[at] = Len(Migrations[at])
  BY <1>1 DEF Recorded, StoreInv, MigrationsAreWhole
<1>8. RunKnows'
  <2>1. Behind' = Behind
    BY <1>5 DEF Behind
  <2>2. ASSUME at \in ToSet(history), NEW i \in 1 .. (done + 1) PROVE Migrations[at][i] = "again"
    <3>1. Migrations[at][done + 1] = "again"
      BY <1>1, <1>2, <1>7, <2>2
    <3>2. \A k \in 1 .. done : Migrations[at][k] = "again"
      BY <1>1, <2>2 DEF StoreInv, RunKnows
    <3> QED
      BY <1>2, <3>1, <3>2
  <2>3. /\ Behind \subseteq ToSet(history) /\ \A m \in Visits \ Behind : Recorded(m) <= misreads
    BY <1>1 DEF StoreInv, RunKnows
  <2> QED
    BY <1>1, <1>3, <1>5, <1>7, <2>1, <2>2, <2>3 DEF RunKnows
<1>9. MigrationsAreWhole'
  <2>1. \A m \in ToSet(history) : m \in Visits
    BY DEF StoreInv, StoreTypes, ToSet
  <2>2. \A m \in ToSet(history)' : schema'[m] = Len(Migrations[m])
    <3>1. at \in ToSet(history) => schema'[at] = schema[at]
      BY <1>1, <1>2, <1>7 DEF StoreInv, StoreTypes
    <3>2. \A m \in ToSet(history) : schema'[m] = schema[m]
      BY <1>4, <2>1, <3>1
    <3>3. \A m \in ToSet(history) : schema'[m] = Len(Migrations[m])
      BY <3>2 DEF StoreInv, MigrationsAreWhole
    <3> QED
      BY <1>1, <3>3
  <2>3. \A m \in Visits : m < at => m \in ToSet(history)
    BY <1>1 DEF StoreInv, RunKnows, Behind
  <2>4. \A m, n \in Visits : m < n /\ schema'[n] > 0 => m \in ToSet(history)
    BY <1>4, <2>3 DEF StoreInv, MigrationsAreWhole
  <2>5. \A m \in Visits : Recorded(m)' <= IF RunsOnce(m) THEN 1 ELSE 1 + misreads'
    BY <1>1, <1>7 DEF StoreInv, MigrationsAreWhole
  <2> QED
    BY <1>1, <2>2, <2>4, <2>5 DEF MigrationsAreWhole
<1> QED
  BY <1>1, <1>6, <1>8, <1>9, TableKeeps DEF StoreInv

LEMMA RecordKeeps ==
    ASSUME StoreInv, RecordMigration
    PROVE  StoreInv'
<1>0. PICK at : at = migrating.at
  OBVIOUS
<1>1. /\ migrating.phase = "running" /\ at \in Visits /\ at \notin migrating.applied
      /\ migrating.done = Len(Migrations[at])
      /\ history' = Append(history, at)
      /\ migrating' = [migrating EXCEPT !.at = @ + 1, !.done = 0]
      /\ UNCHANGED <<schema, pending, misreads>> /\ UNCHANGED table
  BY <1>0 DEF RecordMigration, Running, Complete, Script, table
<1>2. at \in Nat /\ schema[at] \in Nat /\ Len(Migrations[at]) \in Nat
  BY <1>1, VisitsAreNumbers DEF StoreInv, StoreTypes
<1>3. schema[at] = Len(Migrations[at])
  BY <1>0, <1>1, <1>2 DEF StoreInv, StoreTypes, RunKnows
<1>4. /\ misreads \in Nat
      /\ \A m \in Visits : Recorded(m) \in Nat /\ (m \notin ToSet(history) => Recorded(m) = 0)
      /\ Recorded(at)' = Recorded(at) + 1
      /\ \A m \in Visits \ {at} : Recorded(m)' = Recorded(m)
  <2>1. history \in Seq(Visits) /\ misreads \in Nat /\ at \in Visits /\ history' = Append(history, at)
    BY <1>1 DEF StoreInv, StoreTypes
  <2>2. \A m \in Visits : CountOf(history, m) \in Nat /\ (m \notin ToSet(history) => CountOf(history, m) = 0)
    BY <2>1, Counted
  <2>3. /\ CountOf(Append(history, at), at) = CountOf(history, at) + 1
        /\ \A m \in Visits \ {at} : CountOf(Append(history, at), m) = CountOf(history, m)
    BY <2>1, CountedAgain
  <2> QED
    BY <2>1, <2>2, <2>3, RecordsCount
<1>5. /\ history \in Seq(Visits) /\ history' \in Seq(Visits) /\ Len(history) \in Nat
      /\ DOMAIN history = 1 .. Len(history) /\ DOMAIN history' = 1 .. (Len(history) + 1)
      /\ \A i \in 1 .. Len(history) : history'[i] = history[i]
      /\ history'[Len(history) + 1] = at
  BY <1>1 DEF StoreInv, StoreTypes
<1>6. ToSet(history)' = ToSet(history) \cup {at}
  BY <1>5 DEF ToSet
<1>7. /\ migrating'.phase = "running" /\ migrating'.at = at + 1 /\ migrating'.done = 0
      /\ migrating'.applied = migrating.applied
      /\ migrating' \in [phase : {"idle", "running", "migrated", "failed"}, at : Nat \ {0},
                         applied : SUBSET Visits, done : Nat]
  <2>1. StoreTypes /\ at + 1 \in Nat \ {0} /\ 0 \in Nat
    BY <1>2 DEF StoreInv
  <2>2. migrating' = [migrating EXCEPT !.at = at + 1, !.done = 0]
    BY <1>0, <1>1
  <2>3. /\ migrating'.at = at + 1 /\ migrating'.done = 0
        /\ migrating'.phase = migrating.phase /\ migrating'.applied = migrating.applied
        /\ migrating' \in [phase : {"idle", "running", "migrated", "failed"}, at : Nat \ {0},
                           applied : SUBSET Visits, done : Nat]
    BY <2>1, <2>2, MoveIsTyped
  <2> QED
    BY <1>1, <2>3
<1>8. StoreTypes'
  BY <1>1, <1>5, <1>7, TableKeeps DEF StoreInv, StoreTypes
<1>9. RunKnows'
  <2>1. Behind' = Behind \cup {at}
    BY <1>0, <1>1, <1>2, <1>7, VisitsAreNumbers DEF Behind
  <2>2. /\ Behind' \subseteq ToSet(history)'
        /\ \A m \in Visits \ Behind' : Recorded(m)' <= misreads'
    <3>1. Behind \subseteq ToSet(history) /\ \A m \in Visits \ Behind : Recorded(m) <= misreads
      BY <1>1, <1>0 DEF StoreInv, RunKnows
    <3> QED
      BY <1>1, <1>4, <1>6, <2>1, <3>1
  <2>3. \A m \in Visits : 0 <= schema'[m]
    BY <1>1 DEF StoreInv, StoreTypes
  <2>4. \A i \in 1 .. 0 : FALSE
    OBVIOUS
  <2> QED
    BY <1>7, <2>2, <2>3, <2>4 DEF RunKnows
<1>10. MigrationsAreWhole'
  <2>1. \A m \in ToSet(history)' : schema'[m] = Len(Migrations[m])
    BY <1>1, <1>3, <1>6 DEF StoreInv, MigrationsAreWhole
  <2>2. \A m, n \in Visits : m < n /\ schema'[n] > 0 => m \in ToSet(history)'
    BY <1>1, <1>6 DEF StoreInv, MigrationsAreWhole
  <2>3. at \notin Behind
    BY <1>0, <1>1, <1>2 DEF Behind
  <2>4. Recorded(at) <= misreads /\ (RunsOnce(at) => Recorded(at) = 0)
    <3>1. Recorded(at) <= misreads
      BY <1>1, <2>3, <1>0 DEF StoreInv, RunKnows
    <3>2. ASSUME at \in ToSet(history) PROVE ~RunsOnce(at)
      <4>1. \A i \in 1 .. Len(Migrations[at]) : Migrations[at][i] = "again"
        BY <1>1, <3>2, <1>0 DEF StoreInv, RunKnows
      <4>2. DOMAIN Migrations[at] = 1 .. Len(Migrations[at])
        BY <1>1, VisitsAreNumbers
      <4> QED
        BY <4>1, <4>2 DEF RunsOnce, ToSet
    <3> QED
      BY <1>1, <1>4, <3>1, <3>2
  <2>5. \A m \in Visits : Recorded(m) <= IF RunsOnce(m) THEN 1 ELSE 1 + misreads
    BY DEF StoreInv, MigrationsAreWhole
  <2>6. \A m \in Visits : Recorded(m)' <= IF RunsOnce(m) THEN 1 ELSE 1 + misreads'
    <3>1. \A m \in Visits \ {at} : Recorded(m)' <= IF RunsOnce(m) THEN 1 ELSE 1 + misreads'
      BY <1>1, <1>4, <2>5
    <3>2. Recorded(at)' <= IF RunsOnce(at) THEN 1 ELSE 1 + misreads'
      BY <1>1, <1>4, <2>4
    <3> QED
      BY <3>1, <3>2
  <2> QED
    BY <2>1, <2>2, <2>6 DEF MigrationsAreWhole
<1> QED
  BY <1>1, <1>8, <1>9, <1>10, TableKeeps DEF StoreInv

\* A run begins, with the history it reads or, where the read fails, with none.
LEMMA BeginKeeps ==
    ASSUME StoreInv, NEW fails \in BOOLEAN, BeginMigrations(fails)
    PROVE  StoreInv'
<1>1. /\ UNCHANGED <<schema, history, pending>> /\ UNCHANGED table
      /\ misreads' = IF fails THEN misreads + 1 ELSE misreads
      /\ migrating' = [phase |-> "running", at |-> 1, done |-> 0,
                       applied |-> IF fails THEN {} ELSE ToSet(history)]
  BY DEF BeginMigrations, table
<1>2. /\ history \in Seq(Visits) /\ ToSet(history) \subseteq Visits /\ misreads \in Nat
  BY DEF StoreInv, StoreTypes, ToSet
<1>3. \A m \in Visits : /\ Recorded(m) \in Nat /\ Recorded(m)' = Recorded(m)
                        /\ m \notin ToSet(history) => Recorded(m) = 0
  <2>1. \A m \in Visits : Recorded(m)' = Recorded(m)
    BY <1>1 DEF Recorded
  <2>2. \A m \in Visits : Recorded(m) \in Nat /\ (m \notin ToSet(history) => Recorded(m) = 0)
    BY <1>2, RecordsCount, Counted
  <2> QED
    BY <2>1, <2>2
<1>4. \A m \in Visits : Recorded(m) <= IF RunsOnce(m) THEN 1 ELSE 1 + misreads
  BY DEF StoreInv, MigrationsAreWhole
<1>5. migrating' \in [phase : {"idle", "running", "migrated", "failed"}, at : Nat \ {0},
                      applied : SUBSET Visits, done : Nat]
  BY <1>1, <1>2
<1>6. RunKnows'
  <2>1. Behind' = IF fails THEN {} ELSE ToSet(history)
    BY <1>1, <1>2, VisitsAreNumbers DEF Behind
  <2>2. \A m \in Visits \ Behind' : Recorded(m)' <= misreads'
    BY <1>1, <1>2, <1>3, <1>4, <2>1
  <2>3. \A m \in Visits : 0 <= schema'[m]
    BY <1>1 DEF StoreInv, StoreTypes
  <2>4. \A i \in 1 .. 0 : FALSE
    OBVIOUS
  <2>5. Behind' \subseteq ToSet(history)'
    BY <1>1, <2>1
  <2> QED
    BY <1>1, <2>2, <2>3, <2>4, <2>5 DEF RunKnows
<1>7. MigrationsAreWhole'
  <2>1. \A m \in Visits : Recorded(m)' <= IF RunsOnce(m) THEN 1 ELSE 1 + misreads'
    BY <1>1, <1>2, <1>3, <1>4
  <2> QED
    BY <1>1, <2>1 DEF StoreInv, MigrationsAreWhole
<1>8. StoreTypes'
  BY <1>1, <1>2, <1>5, TableKeeps DEF StoreInv, StoreTypes
<1> QED
  BY <1>1, <1>6, <1>7, <1>8, TableKeeps DEF StoreInv

\* The other steps of a run, and its end: only migrating changes.
LEMMA RunKeeps ==
    ASSUME StoreInv, SkipApplied \/ StatementFails \/ MigrationsEnd
                 \/ \E dies \in BOOLEAN : Restart(dies)
    PROVE  StoreInv'
<1>1. UNCHANGED <<schema, history, misreads>> /\ UNCHANGED table
  BY DEF SkipApplied, StatementFails, MigrationsEnd, Restart, table
<1>2. pending' \in [StoreKeys -> Nat]
  BY DEF StoreInv, StoreTypes, SkipApplied, StatementFails, MigrationsEnd, Restart, NoRows
<1>3. \A m \in Visits : Recorded(m)' = Recorded(m)
  BY <1>1 DEF Recorded
<1>4. migrating' \in [phase : {"idle", "running", "migrated", "failed"}, at : Nat \ {0},
                      applied : SUBSET Visits, done : Nat]
  <2>2. CASE SkipApplied
    <3>1. migrating' = [migrating EXCEPT !.at = migrating.at + 1, !.done = 0]
      BY <2>2 DEF SkipApplied
    <3>2. StoreTypes /\ migrating.at + 1 \in Nat \ {0} /\ 0 \in Nat
      BY DEF StoreInv, StoreTypes
    <3> QED
      BY <3>1, <3>2, MoveIsTyped
  <2>3. CASE StatementFails \/ MigrationsEnd
    BY <2>3 DEF StoreInv, StoreTypes, StatementFails, MigrationsEnd
  <2>4. CASE \E dies \in BOOLEAN : Restart(dies)
    BY <2>4 DEF Restart, Idle
  <2> QED
    BY <2>2, <2>3, <2>4
<1>5. RunKnows'
  <2>2. CASE SkipApplied
    <3> DEFINE at == migrating.at
    <3>1. /\ migrating.phase = "running" /\ at \in Visits /\ at \in migrating.applied
          /\ migrating' = [migrating EXCEPT !.at = @ + 1, !.done = 0]
      BY <2>2 DEF SkipApplied, Running
    <3>2. /\ migrating'.at = at + 1 /\ migrating'.done = 0
          /\ migrating'.applied = migrating.applied
      BY <3>1 DEF StoreInv, StoreTypes
    <3>3. Behind' = Behind
      BY <3>1, <3>2, VisitsAreNumbers DEF Behind
    <3>4. /\ Behind \subseteq ToSet(history) /\ \A m \in Visits \ Behind : Recorded(m) <= misreads
      BY <3>1 DEF StoreInv, RunKnows
    <3>5. \A m \in Visits : 0 <= schema'[m]
      BY <1>1 DEF StoreInv, StoreTypes
    <3>6. \A i \in 1 .. 0 : FALSE
      OBVIOUS
    <3> QED
      BY <1>1, <1>3, <3>2, <3>3, <3>4, <3>5, <3>6 DEF RunKnows
  <2>3. CASE StatementFails \/ MigrationsEnd
    BY <2>3 DEF StoreInv, StoreTypes, RunKnows, StatementFails, MigrationsEnd
  <2>4. CASE \E dies \in BOOLEAN : Restart(dies)
    BY <2>4 DEF Restart, Idle, RunKnows
  <2> QED
    BY <2>2, <2>3, <2>4
<1>6. MigrationsAreWhole'
  BY <1>1, <1>3 DEF StoreInv, MigrationsAreWhole
<1>7. StoreTypes'
  BY <1>1, <1>2, <1>4, TableKeeps DEF StoreInv, StoreTypes
<1> QED
  BY <1>1, <1>5, <1>6, <1>7, TableKeeps DEF StoreInv

-----------------------------------------------------------------------------
(* The statements *)

LEMMA PutKeeps ==
    ASSUME StoreInv, NEW k \in StoreKeys, Store(k)
    PROVE  StoreInv'
<1> DEFINE changed == [pending EXCEPT ![k] = statements + 1]
<1>1. /\ rows' = Committed(changed) /\ pending' = NoRows
      /\ statements' = statements + 1 /\ acked' = [acked EXCEPT ![k] = statements + 1]
      /\ UNCHANGED disk
  BY DEF Store, AfterExecute, disk
<1>2. changed \in [StoreKeys -> Nat] /\ changed[k] = statements + 1
  BY DEF StoreInv, StoreTypes
<1>3. /\ rows' \in [StoreKeys -> Nat] /\ rows'[k] >= statements + 1
      /\ \A j \in StoreKeys : rows'[j] >= rows[j]
  <2> HIDE DEF changed
  <2> QED
    BY <1>1, <1>2, CommitGrows
<1>4. StoreTypes'
  <2>1. acked' \in [StoreKeys -> Nat] /\ pending' \in [StoreKeys -> Nat] /\ statements' \in Nat
    BY <1>1 DEF StoreInv, StoreTypes, NoRows
  <2> QED
    BY <1>1, <1>3, <2>1, DiskKeeps DEF StoreInv, StoreTypes
<1>5. AckedBefore'
  BY <1>1 DEF StoreInv, StoreTypes, AckedBefore
<1>6. AcknowledgedIsDurable'
  <2>1. \A j \in StoreKeys : rows[j] >= acked[j] /\ rows[j] \in Nat /\ acked[j] \in Nat
    BY DEF StoreInv, StoreTypes, AcknowledgedIsDurable
  <2>2. /\ acked'[k] = statements + 1 /\ statements \in Nat
        /\ \A j \in StoreKeys \ {k} : acked'[j] = acked[j]
    BY <1>1 DEF StoreInv, StoreTypes
  <2>3. \A j \in StoreKeys : rows'[j] \in Nat
    BY <1>3
  <2>4. \A j \in StoreKeys : rows'[j] >= acked'[j]
    BY <1>3, <2>1, <2>2, <2>3
  <2> QED
    BY <2>4 DEF AcknowledgedIsDurable
<1> QED
  BY <1>1, <1>4, <1>5, <1>6, DiskKeeps DEF StoreInv

LEMMA BatchKeeps ==
    ASSUME StoreInv, NEW k \in StoreKeys, BatchFails(k)
    PROVE  StoreInv'
<1>1. statements' = statements + 1 /\ UNCHANGED acked /\ UNCHANGED disk
  BY DEF BatchFails, disk
<1>2. /\ rows' \in [StoreKeys -> Nat] /\ pending' \in [StoreKeys -> Nat]
      /\ \A j \in StoreKeys : rows'[j] >= acked[j]
  <2>1. CASE open
    <3>1. pending' = [pending EXCEPT ![k] = statements + 1] /\ UNCHANGED rows
      BY <2>1 DEF BatchFails
    <3> QED
      BY <3>1 DEF StoreInv, StoreTypes, AcknowledgedIsDurable
  <2>2. CASE ~open
    <3>1. rows' = [rows EXCEPT ![k] = statements + 1] /\ UNCHANGED pending
      BY <2>2 DEF BatchFails
    <3>2. statements + 1 \in Nat /\ statements + 1 >= acked[k]
      BY DEF StoreInv, StoreTypes, AckedBefore
    <3> QED
      BY <3>1, <3>2 DEF StoreInv, StoreTypes, AcknowledgedIsDurable
  <2> QED
    BY <2>1, <2>2
<1>3. StoreTypes'
  BY <1>1, <1>2, DiskKeeps, SMTT(30) DEF StoreInv, StoreTypes
<1>4. AckedBefore'
  <2>1. statements \in Nat /\ \A j \in StoreKeys : acked[j] \in Nat /\ acked[j] <= statements
    BY DEF StoreInv, StoreTypes, AckedBefore
  <2>2. \A j \in StoreKeys : acked[j] <= statements + 1
    BY <2>1
  <2> QED
    BY <1>1, <2>2 DEF AckedBefore
<1>5. AcknowledgedIsDurable'
  BY <1>1, <1>2 DEF AcknowledgedIsDurable
<1> QED
  BY <1>1, <1>3, <1>4, <1>5, DiskKeeps DEF StoreInv

LEMMA CommitKeeps ==
    ASSUME StoreInv, CommitTransaction
    PROVE  StoreInv'
<1>1. /\ rows' = Committed(pending) /\ pending' = NoRows
      /\ UNCHANGED <<acked, statements>> /\ UNCHANGED disk
  BY DEF CommitTransaction, disk
<1>2. rows' \in [StoreKeys -> Nat] /\ \A j \in StoreKeys : rows'[j] >= rows[j]
  BY <1>1, CommitGrows DEF StoreInv, StoreTypes
<1>3. StoreTypes'
  BY <1>1, <1>2, DiskKeeps DEF StoreInv, StoreTypes, NoRows
<1>4. AckedBefore'
  BY <1>1 DEF StoreInv, AckedBefore
<1>5. AcknowledgedIsDurable'
  <2> SUFFICES ASSUME NEW j \in StoreKeys PROVE rows'[j] >= acked[j]
    BY <1>1 DEF AcknowledgedIsDurable
  <2>1. acked[j] \in Nat /\ rows[j] \in Nat /\ rows[j] >= acked[j]
    BY DEF StoreInv, StoreTypes, AcknowledgedIsDurable
  <2>2. rows'[j] \in Nat /\ rows'[j] >= rows[j]
    BY <1>2
  <2> QED
    BY <2>1, <2>2
<1> QED
  BY <1>1, <1>3, <1>4, <1>5, DiskKeeps DEF StoreInv

\* A transaction begins or is given up: the rows on disk stay.
LEMMA TransactionKeeps ==
    ASSUME StoreInv, BeginTransaction \/ \E sqliteError \in BOOLEAN : BodyRaises(sqliteError)
    PROVE  StoreInv'
<1>1. UNCHANGED disk /\ UNCHANGED table
  BY DEF BeginTransaction, BodyRaises, disk, table
<1>2. pending' \in [StoreKeys -> Nat]
  BY DEF StoreInv, StoreTypes, BeginTransaction, BodyRaises, NoRows
<1>3. StoreTypes'
  BY <1>1, <1>2, DiskKeeps, TableKeeps DEF StoreInv, StoreTypes
<1> QED
  BY <1>1, <1>3, DiskKeeps, TableKeeps DEF StoreInv

-----------------------------------------------------------------------------
LEMMA NextStore ==
    ASSUME StoreInv, [AgentStoreNext]_storeVars
    PROVE  StoreInv'
<1>1. CASE UNCHANGED storeVars
  <2>1. UNCHANGED disk /\ UNCHANGED table /\ UNCHANGED pending
    BY <1>1 DEF storeVars, disk, table
  <2>2. StoreTypes'
    BY <2>1, DiskKeeps, TableKeeps DEF StoreInv, StoreTypes
  <2> QED
    BY <2>1, <2>2, DiskKeeps, TableKeeps DEF StoreInv
<1>2. CASE AgentStoreNext
  BY <1>2, BeginKeeps, ExecuteKeeps, RecordKeeps, RunKeeps, PutKeeps, BatchKeeps, CommitKeeps,
     TransactionKeeps DEF AgentStoreNext
<1> QED
  BY <1>1, <1>2

\* What is on record as migrated has taken effect to the last statement and in order, and what
\* was acknowledged is on disk, after any sequence of failures, deaths and restarts.
THEOREM StoreSound == AgentStoreSpec => []StoreIsSound
<1>1. AgentStoreInit => StoreInv
  BY InitStore
<1>2. StoreInv /\ [AgentStoreNext]_storeVars => StoreInv'
  BY NextStore
<1>3. StoreInv => StoreIsSound
  BY DEF StoreInv, StoreIsSound
<1> QED
  BY <1>1, <1>2, <1>3, PTL DEF AgentStoreSpec

\* The bounds, and the transaction that is open.
StoreRest ==
    /\ {rows, pending, acked} \subseteq [StoreKeys -> 0 .. MaxStatements]
    /\ open \in BOOLEAN /\ (pending # NoRows => open)
    /\ migrating.at \in 1 .. Len(Migrations) + 1
    /\ holder \in {"free", "body"}
    /\ statements \in 0 .. MaxStatements /\ crashes \in 0 .. MaxCrashes
    /\ misreads \in 0 .. MaxMisreads

LEMMA RestOfStoreKeeps == ASSUME StoreInv, StoreRest, [AgentStoreNext]_storeVars PROVE StoreRest'
<1>1. /\ MaxStatements \in Nat /\ MaxCrashes \in Nat /\ MaxMisreads \in Nat
      /\ Len(Migrations) \in Nat /\ Visits = 1 .. Len(Migrations)
  BY StoreAssumption, VisitsAreNumbers
<1>2. PICK R : R = [StoreKeys -> 0 .. MaxStatements]
  OBVIOUS
<1>3. /\ rows \in R /\ pending \in R /\ acked \in R /\ NoRows \in R
      /\ statements \in 0 .. MaxStatements /\ crashes \in 0 .. MaxCrashes
      /\ misreads \in 0 .. MaxMisreads
      /\ open \in BOOLEAN /\ holder \in {"free", "body"}
  BY <1>1, <1>2 DEF StoreRest, NoRows
<1>4. migrating.at \in 1 .. Len(Migrations) + 1 /\ migrating.done \in Nat
      /\ migrating \in [phase : {"idle", "running", "migrated", "failed"}, at : Nat \ {0},
                        applied : SUBSET Visits, done : Nat]
  BY DEF StoreRest, StoreInv, StoreTypes
<1>5. ASSUME UNCHANGED <<rows, pending, open, holder, acked, statements, crashes>>,
             migrating'.at \in 1 .. Len(Migrations) + 1, misreads' \in 0 .. MaxMisreads
      PROVE  StoreRest'
  BY <1>5 DEF StoreRest, NoRows
<1>6. CASE (\E fails \in BOOLEAN : BeginMigrations(fails)) \/ SkipApplied \/ ExecuteStatement \/ StatementFails \/ RecordMigration
           \/ MigrationsEnd
  <2>1. UNCHANGED <<rows, pending, open, holder, acked, statements, crashes>>
    BY <1>6 DEF BeginMigrations, SkipApplied, ExecuteStatement, StatementFails, RecordMigration, MigrationsEnd
  <2>2. \/ migrating'.at = 1
        \/ migrating'.at = migrating.at
        \/ migrating'.at = migrating.at + 1 /\ migrating.at \in Visits
    <3>1. CASE \E fails \in BOOLEAN : BeginMigrations(fails)
      BY <3>1 DEF BeginMigrations
    <3>2. CASE SkipApplied \/ RecordMigration
      <4>1. migrating' = [migrating EXCEPT !.at = @ + 1, !.done = 0] /\ migrating.at \in Visits
        BY <3>2 DEF SkipApplied, RecordMigration, Running
      <4> QED
        BY <1>4, <4>1
    <3>3. CASE ExecuteStatement \/ StatementFails \/ MigrationsEnd
      <4>1. \/ migrating' = [migrating EXCEPT !.done = @ + 1]
            \/ migrating' = [migrating EXCEPT !.phase = "failed"]
            \/ migrating' = [migrating EXCEPT !.phase = "migrated"]
        BY <3>3 DEF ExecuteStatement, StatementFails, MigrationsEnd
      <4> QED
        BY <1>4, <4>1
    <3> QED
      BY <1>6, <3>1, <3>2, <3>3
  <2>3. migrating'.at \in 1 .. Len(Migrations) + 1
    BY <1>1, <1>4, <2>2
  <2>4. misreads' \in 0 .. MaxMisreads
    <3>1. CASE \E fails \in BOOLEAN : BeginMigrations(fails)
      BY <1>1, <1>3, <3>1 DEF BeginMigrations
    <3>2. CASE SkipApplied \/ ExecuteStatement \/ StatementFails \/ RecordMigration \/ MigrationsEnd
      <4>1. UNCHANGED misreads
        BY <3>2 DEF SkipApplied, ExecuteStatement, StatementFails, RecordMigration, MigrationsEnd
      <4> QED
        BY <1>3, <4>1
    <3> QED
      BY <1>6, <3>1, <3>2
  <2> QED
    BY <1>5, <2>1, <2>3, <2>4
<1>7. ASSUME NEW f \in R PROVE Committed(f) \in R
  BY <1>1, <1>2, <1>3, <1>7 DEF Committed, LargerOf
<1>8. ASSUME NEW f \in R, NEW k \in StoreKeys, statements < MaxStatements
      PROVE  [f EXCEPT ![k] = statements + 1] \in R /\ statements + 1 \in 0 .. MaxStatements
  BY <1>1, <1>2, <1>3, <1>8
<1>9. ASSUME NEW k \in StoreKeys, Store(k) PROVE StoreRest'
  <2>1. PICK f : f = [pending EXCEPT ![k] = statements + 1]
    OBVIOUS
  <2>2. statements < MaxStatements
    BY <1>9 DEF Store
  <2>3. /\ rows' = Committed(f) /\ pending' = NoRows /\ open' = FALSE /\ statements' = statements + 1
        /\ acked' = [acked EXCEPT ![k] = statements + 1] /\ UNCHANGED <<migrating, holder, crashes, misreads>>
    BY <1>9, <2>1 DEF Store, AfterExecute
  <2>4. f \in R /\ Committed(f) \in R /\ acked' \in R /\ statements' \in 0 .. MaxStatements
    BY <1>3, <1>7, <1>8, <2>1, <2>2, <2>3
  <2>5. rows' \in R /\ pending' \in R /\ pending' = NoRows
    BY <1>3, <2>3, <2>4
  <2>6. /\ migrating'.at \in 1 .. Len(Migrations) + 1 /\ holder' \in {"free", "body"}
        /\ crashes' \in 0 .. MaxCrashes /\ misreads' \in 0 .. MaxMisreads
    BY <1>3, <1>4, <2>3
  <2> QED
    BY <1>2, <2>3, <2>4, <2>5, <2>6 DEF StoreRest
<1>10. ASSUME NEW k \in StoreKeys, BatchFails(k) PROVE StoreRest'
  <2>1. /\ statements < MaxStatements /\ statements' = statements + 1
        /\ UNCHANGED <<open, migrating, holder, acked, crashes, misreads>>
        /\ IF open THEN pending' = [pending EXCEPT ![k] = statements + 1] /\ rows' = rows
                   ELSE rows' = [rows EXCEPT ![k] = statements + 1] /\ pending' = pending
    BY <1>10 DEF BatchFails
  <2>2. rows' \in R /\ pending' \in R /\ statements' \in 0 .. MaxStatements
    BY <1>3, <1>8, <2>1
  <2>3. pending' # NoRows => open
    BY <2>1 DEF StoreRest
  <2> QED
    BY <1>2, <1>3, <1>4, <2>1, <2>2, <2>3 DEF StoreRest, NoRows
<1>11. ASSUME BeginTransaction \/ CommitTransaction \/ \E sqliteError \in BOOLEAN : BodyRaises(sqliteError)
       PROVE  StoreRest'
  <2>1. /\ UNCHANGED <<migrating, acked, statements, crashes, misreads>> /\ holder' \in {"free", "body"}
        /\ rows' = rows \/ rows' = Committed(pending)
        /\ \/ pending' = NoRows /\ open' = FALSE
           \/ pending' = pending /\ open' = open
           \/ pending' = pending /\ open' = TRUE
    BY <1>11 DEF BeginTransaction, CommitTransaction, BodyRaises
  <2>2. rows' \in R /\ pending' \in R
    BY <1>3, <1>7, <2>1
  <2>3. open' \in BOOLEAN /\ (pending' # NoRows => open')
    <3>1. CASE pending' = NoRows /\ open' = FALSE
      BY <3>1
    <3>2. CASE pending' = pending /\ open' = open
      BY <1>3, <3>2 DEF StoreRest
    <3>3. CASE pending' = pending /\ open' = TRUE
      BY <3>3
    <3> QED
      BY <2>1, <3>1, <3>2, <3>3
  <2> QED
    BY <1>2, <1>3, <1>4, <2>1, <2>2, <2>3 DEF StoreRest, NoRows
<1>12. ASSUME NEW dies \in BOOLEAN, Restart(dies) PROVE StoreRest'
  <2>1. /\ UNCHANGED <<rows, acked, statements, misreads>> /\ migrating' = Idle /\ pending' = NoRows /\ open' = FALSE
        /\ holder' = "free" /\ (dies => crashes < MaxCrashes)
        /\ crashes' = IF dies THEN crashes + 1 ELSE crashes
    BY <1>12 DEF Restart
  <2>2. crashes' \in 0 .. MaxCrashes /\ migrating'.at \in 1 .. Len(Migrations) + 1
    BY <1>1, <1>3, <2>1 DEF Idle
  <2> QED
    BY <1>2, <1>3, <2>1, <2>2 DEF StoreRest, NoRows
<1>13. CASE UNCHANGED storeVars
  BY <1>3, <1>4, <1>5, <1>13 DEF storeVars
<1> QED
  BY <1>6, <1>9, <1>10, <1>11, <1>12, <1>13 DEF AgentStoreNext

\* Only an open transaction has rows that are not committed, and every run of the migrations
\* stays among those there are: DatabaseManager, SQLiteBackend and MigrationManager.
THEOREM StoreTypeCorrect == AgentStoreSpec => []AgentStoreTypeOK
<1>1. AgentStoreInit => StoreInv /\ StoreRest
  <2>1. AgentStoreInit => StoreRest
    <3> SUFFICES ASSUME AgentStoreInit PROVE StoreRest
      OBVIOUS
    <3>1. /\ MaxStatements \in Nat /\ MaxCrashes \in Nat /\ MaxMisreads \in Nat
          /\ Len(Migrations) \in Nat
      BY StoreAssumption, VisitsAreNumbers
    <3>2. NoRows \in [StoreKeys -> 0 .. MaxStatements] /\ Idle.at = 1
      BY <3>1 DEF NoRows, Idle
    <3>3. /\ rows = NoRows /\ pending = NoRows /\ acked = NoRows /\ open = FALSE /\ holder = "free"
          /\ migrating.at = 1 /\ statements = 0 /\ crashes = 0 /\ misreads = 0
      BY <3>2 DEF AgentStoreInit
    <3>4. {rows, pending, acked} \subseteq [StoreKeys -> 0 .. MaxStatements]
      BY <3>2, <3>3
    <3>5. /\ migrating.at \in 1 .. Len(Migrations) + 1 /\ statements \in 0 .. MaxStatements
          /\ crashes \in 0 .. MaxCrashes /\ misreads \in 0 .. MaxMisreads
      BY <3>1, <3>3
    <3>6. open \in BOOLEAN /\ (pending # NoRows => open) /\ holder \in {"free", "body"}
      BY <3>3
    <3> QED
      BY <3>4, <3>5, <3>6 DEF StoreRest
  <2> QED
    BY <2>1, InitStore
<1>2. StoreInv /\ StoreRest /\ [AgentStoreNext]_storeVars => StoreInv' /\ StoreRest'
  BY NextStore, RestOfStoreKeeps
<1>3. StoreInv /\ StoreRest => AgentStoreTypeOK
  BY DEF StoreInv, StoreTypes, StoreRest, AgentStoreTypeOK
<1> QED
  BY <1>1, <1>2, <1>3, PTL DEF AgentStoreSpec


-----------------------------------------------------------------------------
(* The correlation engine.                                                 *)

Pairs == Chains \X Values

\* Of an active chain, and of what an incident keeps of it.
Prefix(a) ==
    a.pure => \A n \in 1 .. a.index : /\ n \in DOMAIN a.from.stages
                                      /\ a.from.stages[n].id \in a.matched
Earned(x) ==
    x.pure =>
        \/ \A n \in DOMAIN x.from.stages :
               x.from.stages[n].type = "optional" \/ x.from.stages[n].id \in x.matched
        \/ \E n \in DOMAIN x.from.stages :
               x.from.stages[n].type = "branch" /\ x.from.stages[n].id \in x.matched

\* The ordered stages behind an active chain's index were matched; its incident is still
\* to come; an incident was earned, and its chain was started once.
ActivesAreSound ==
    \A cv \in Pairs : active[cv] # None =>
        Prefix(active[cv]) /\ Id(cv, starts[cv]) \notin DOMAIN incidents
IncidentsAreSound ==
    \A id \in DOMAIN incidents :
        /\ incidents[id].state = "completed" => Earned(incidents[id])
        /\ id[3] <= starts[<<id[1], id[2]>>]

CorrelationInv == CorrelationTypeOK /\ ActivesAreSound /\ IncidentsAreSound

-----------------------------------------------------------------------------
(* One chain *)

LEMMA DefinitionsAreWhole ==
    ASSUME NEW d \in Definitions
    PROVE  /\ d \in Definition /\ Len(d.stages) <= MaxStages /\ MaxStages \in Nat
           /\ DOMAIN d.stages = 1 .. Len(d.stages) /\ Len(d.stages) \in Nat
           /\ \A i \in DOMAIN d.stages : d.stages[i].id \in StageIds
<1>1. PICK t \in Tables : \E c \in DOMAIN t : d = t[c]
    BY DEF Definitions
<1>2. d \in Definition /\ Len(d.stages) <= MaxStages /\ MaxStages \in Nat
    BY <1>1, CorrelationAssumption
<1>3. d.stages \in Seq(Stage)
    BY <1>2 DEF Definition
<1>4. DOMAIN d.stages = 1 .. Len(d.stages) /\ Len(d.stages) \in Nat
    BY <1>3
<1>5. ASSUME NEW i \in DOMAIN d.stages
      PROVE  d.stages[i].id \in StageIds
    <2>1. d.stages[i] \in Stage
        BY <1>3, <1>4, <1>5
    <2> QED
        BY <2>1 DEF Stage
<1> QED
    BY <1>2, <1>4, <1>5

\* start_chain begins at no stage.
LEMMA FreshIsActive ==
    ASSUME NEW d \in Definitions
    PROVE  Fresh(d) \in ActiveChain /\ Prefix(Fresh(d))
<1>1. {d.stages[i].id : i \in DOMAIN d.stages} \subseteq StageIds
    BY DefinitionsAreWhole
<1>2. 0 \in 0 .. MaxStages /\ 0 \in 0 .. MaxAge + 1
    BY CorrelationAssumption
<1>3. Fresh(d) \in ActiveChain
    BY <1>1, <1>2 DEF Fresh, ActiveChain
<1>4. Fresh(d).index = 0
    BY DEF Fresh
<1> QED
    BY <1>3, <1>4 DEF Prefix

\* advance keeps the prefix, and what it completes was earned.
LEMMA AdvanceKeepsPrefix ==
    ASSUME NEW d \in Definitions, NEW a \in ActiveChain, Prefix(a), NEW rule,
           NEW i \in 0 .. MaxStages, IsHit(d, a, rule, i)
    PROVE  /\ Advanced(d, a, i) \in ActiveChain
           /\ Prefix(Advanced(d, a, i))
           /\ Matches(d, a, i) /\ Completes(d, Advanced(d, a, i), i) => Earned(Advanced(d, a, i))
<1> DEFINE b == [a EXCEPT !.age = 0, !.pure = a.pure /\ a.from = d]
<1>0. MaxStages \in Nat /\ MaxAge \in Nat
    BY CorrelationAssumption
<1>1. b \in ActiveChain /\ Prefix(b)
    <2>1. (a.pure /\ a.from = d) \in BOOLEAN /\ 0 \in 0 .. MaxAge + 1
        BY <1>0
    <2>2. b \in ActiveChain
        BY <2>1 DEF ActiveChain
    <2>3. /\ b.pure <=> a.pure /\ a.from = d
          /\ b.index = a.index /\ b.from = a.from /\ b.matched = a.matched
        BY Zenon DEF ActiveChain
    <2> QED
        BY <2>2, <2>3 DEF Prefix
<1>2. CASE ~Matches(d, a, i)
    <2>1. Advanced(d, a, i) = b
        BY <1>2 DEF Advanced
    <2> QED
        BY <1>1, <1>2, <2>1
<1>3. CASE Matches(d, a, i)
    <2>1. i \in DOMAIN d.stages /\ Stops(d, a, rule, i)
        BY <1>3 DEF Matches, IsHit
    <2>2. d.stages[i].id \in StageIds /\ DOMAIN d.stages = 1 .. Len(d.stages) /\ Len(d.stages) \in Nat
        BY <2>1, DefinitionsAreWhole
    <2>3. d.stages[i].type = "ordered" => i = a.index + 1
        BY <1>3, <2>1 DEF Stops, Matches
    <2> DEFINE c == [b EXCEPT !.matched = b.matched \cup {d.stages[i].id},
                              !.index = IF d.stages[i].type = "ordered" THEN i ELSE b.index]
    <2>4. Advanced(d, a, i) = c
        BY <1>3 DEF Advanced
    <2>5. /\ c \in ActiveChain
          /\ c.pure = (a.pure /\ a.from = d) /\ c.from = a.from
          /\ c.matched = a.matched \cup {d.stages[i].id}
          /\ c.index = IF d.stages[i].type = "ordered" THEN i ELSE a.index
        BY <1>1, <2>2 DEF ActiveChain
    <2>6. a.index \in Nat
        BY <1>0 DEF ActiveChain
    <2> HIDE DEF b, c
    <2>7. Prefix(c)
        <3> SUFFICES ASSUME c.pure, NEW n \in 1 .. c.index
                     PROVE  n \in DOMAIN c.from.stages /\ c.from.stages[n].id \in c.matched
            BY DEF Prefix
        <3>1. CASE n \in 1 .. a.index
            BY <2>5, <3>1 DEF Prefix
        <3>2. CASE n \notin 1 .. a.index
            <4>1. n = i
                BY <2>3, <2>5, <2>6, <3>2
            <4>2. c.from = d
                BY Zenon, <2>5
            <4> QED
                BY <2>1, <2>5, <4>1, <4>2
        <3> QED
            BY <3>1, <3>2
    <2>8. ASSUME Completes(d, c, i)
          PROVE  Earned(c)
        <3> SUFFICES ASSUME c.pure
                     PROVE  \/ \A n \in DOMAIN c.from.stages :
                                   c.from.stages[n].type = "optional" \/ c.from.stages[n].id \in c.matched
                            \/ \E n \in DOMAIN c.from.stages :
                                   c.from.stages[n].type = "branch" /\ c.from.stages[n].id \in c.matched
            BY DEF Earned
        <3>1. c.from = d
            BY <2>5
        <3>2. CASE d.stages[i].type = "ordered"
            <4>1. c.index >= Len(d.stages) /\ c.index = i
                BY <2>5, <2>8, <3>2 DEF Completes
            <4>2. \A n \in DOMAIN d.stages : n \in 1 .. c.index
                BY <2>2, <4>1, <1>0
            <4> QED
                BY <2>7, <3>1, <4>2 DEF Prefix
        <3>3. CASE d.stages[i].type = "branch"
            BY <2>1, <2>5, <3>1, <3>3
        <3>4. CASE d.stages[i].type # "ordered" /\ d.stages[i].type # "branch"
            <4>1. AllRequired(d, c)
                BY <2>8, <3>4 DEF Completes
            <4> QED
                BY <3>1, <4>1 DEF AllRequired
        <3> QED
            BY <3>2, <3>3, <3>4
    <2> QED
        BY <2>4, <2>5, <2>7, <2>8
<1> QED
    BY <1>2, <1>3

-----------------------------------------------------------------------------
(* The incidents of several chains at once *)

LEMMA PairsAreIds ==
    ASSUME NEW cv \in Pairs, NEW n \in Nat
    PROVE  /\ Id(cv, n) \in Chains \X Values \X Nat
           /\ Id(cv, n)[3] = n
           /\ <<Id(cv, n)[1], Id(cv, n)[2]>> = cv
BY DEF Pairs, Id

LEMMA IncidentsAreRecorded ==
    ASSUME CorrelationInv, NEW S \in SUBSET Pairs, NEW state \in {"completed", "expired"},
           NEW chain \in [S -> ActiveChain],
           NEW now \in [Pairs -> Nat],
           \A cv \in Pairs : starts[cv] <= now[cv],
           \A cv \in S : Id(cv, now[cv]) \notin DOMAIN incidents,
           state = "completed" => \A cv \in S : Earned(chain[cv]),
           starts' = now,
           incidents' = Updated(incidents, [id \in {Id(cv, now[cv]) : cv \in S} |->
                                               Incident(state, chain[<<id[1], id[2]>>])])
    PROVE  /\ IncidentsAreSound' /\ IncidentsAreFinalStep
           /\ DOMAIN incidents' = {Id(cv, now[cv]) : cv \in S} \cup DOMAIN incidents
           /\ \A id \in DOMAIN incidents' :
                 id \in Chains \X Values \X Nat /\ incidents'[id] \in IncidentType
<1> DEFINE new == {Id(cv, now[cv]) : cv \in S}
<1>1. DOMAIN incidents' = new \cup DOMAIN incidents
    BY DEF Updated
<1>2. \A id \in DOMAIN incidents : id \notin new /\ incidents'[id] = incidents[id]
    BY DEF Updated
<1>3. ASSUME NEW cv \in S
      PROVE  incidents'[Id(cv, now[cv])] = Incident(state, chain[cv])
    <2>1. now[cv] \in Nat /\ cv \in Pairs
        OBVIOUS
    <2>2. <<Id(cv, now[cv])[1], Id(cv, now[cv])[2]>> = cv
        BY <2>1, PairsAreIds
    <2> QED
        BY <2>2 DEF Updated
<1>4. ASSUME NEW cv \in S
      PROVE  /\ Incident(state, chain[cv]) \in IncidentType
             /\ Incident(state, chain[cv]).state = "completed" => Earned(Incident(state, chain[cv]))
    <2>1. chain[cv] \in ActiveChain
        OBVIOUS
    <2>2. Incident(state, chain[cv]) \in IncidentType
        BY <2>1 DEF ActiveChain, IncidentType, Incident
    <2>3. state = "completed" => Earned(chain[cv])
        OBVIOUS
    <2> QED
        BY <2>2, <2>3 DEF Earned, Incident
<1>5. IncidentsAreFinalStep
    BY <1>2 DEF IncidentsAreFinalStep
<1>6. ASSUME NEW id \in DOMAIN incidents'
      PROVE  /\ id \in Chains \X Values \X Nat /\ incidents'[id] \in IncidentType
             /\ incidents'[id].state = "completed" => Earned(incidents'[id])
             /\ id[3] <= now[<<id[1], id[2]>>]
    <2>1. CASE id \in DOMAIN incidents
        <3>1. id \in Chains \X Values \X Nat /\ incidents[id] \in IncidentType
            BY <2>1 DEF CorrelationInv, CorrelationTypeOK
        <3>2. incidents[id].state = "completed" => Earned(incidents[id])
            BY <2>1 DEF CorrelationInv, IncidentsAreSound
        <3>3. id[3] <= starts[<<id[1], id[2]>>]
            BY <2>1 DEF CorrelationInv, IncidentsAreSound
        <3>4. <<id[1], id[2]>> \in Pairs /\ id[3] \in Nat
            BY <3>1 DEF Pairs
        <3>5. starts[<<id[1], id[2]>>] \in Nat /\ now[<<id[1], id[2]>>] \in Nat
            BY <3>4 DEF CorrelationInv, CorrelationTypeOK, Pairs
        <3>6. starts[<<id[1], id[2]>>] <= now[<<id[1], id[2]>>]
            BY <3>4
        <3>7. id[3] <= now[<<id[1], id[2]>>]
            BY <3>3, <3>4, <3>5, <3>6
        <3> QED
            BY <1>2, <2>1, <3>1, <3>2, <3>7
    <2>2. CASE id \notin DOMAIN incidents
        <3>1. PICK cv \in S : id = Id(cv, now[cv])
            BY <1>1, <2>2
        <3>2. now[cv] \in Nat /\ cv \in Pairs
            OBVIOUS
        <3>3. id \in Chains \X Values \X Nat /\ id[3] = now[cv] /\ <<id[1], id[2]>> = cv
            BY <3>1, <3>2, PairsAreIds
        <3>4. id[3] <= now[<<id[1], id[2]>>]
            BY <3>2, <3>3
        <3> QED
            BY <1>3, <1>4, <3>1, <3>3, <3>4
    <2> QED
        BY <2>1, <2>2
<1>7. IncidentsAreSound'
    BY <1>6 DEF IncidentsAreSound, Earned
<1> QED
    BY <1>1, <1>5, <1>6, <1>7

-----------------------------------------------------------------------------
(* The steps *)

LEMMA InitCorrelation == ASSUME CorrelationInit PROVE CorrelationInv
<1>1. DOMAIN defs = {} /\ DOMAIN incidents = {}
    BY DEF CorrelationInit
<1> QED
    BY <1>1 DEF CorrelationInit, CorrelationInv, CorrelationTypeOK, ActivesAreSound, IncidentsAreSound, Pairs

LEMMA CorrelateKeeps ==
    ASSUME CorrelationInv, NEW rule, NEW values, Correlate(rule, values)
    PROVE  CorrelationInv' /\ IncidentsAreFinalStep
<1>1. PICK hit \in [Concerned(values) -> 0 .. MaxStages] :
        LET completed == {cv \in Concerned(values) : Finishes(cv, hit[cv])} IN
        /\ \A cv \in Concerned(values) : IsHit(defs[cv[1]], Current(cv), rule, hit[cv])
        /\ starts' = [cv \in Chains \X Values |->
                        IF cv \in Concerned(values) /\ active[cv] = None THEN starts[cv] + 1
                        ELSE starts[cv]]
        /\ active' = [cv \in Chains \X Values |->
                        IF cv \in completed THEN Removed(cv, hit[cv])
                        ELSE IF cv \in Concerned(values) THEN After(cv, hit[cv])
                        ELSE active[cv]]
        /\ incidents' = Updated(incidents,
                            [id \in {Id(cv, starts'[cv]) : cv \in completed} |->
                                Incident("completed", After(<<id[1], id[2]>>, hit[<<id[1], id[2]>>]))])
    BY DEF Correlate
<1> DEFINE completed == {cv \in Concerned(values) : Finishes(cv, hit[cv])}
           now == [cv \in Pairs |->
                        IF cv \in Concerned(values) /\ active[cv] = None THEN starts[cv] + 1
                        ELSE starts[cv]]
           chain == [cv \in completed |-> After(cv, hit[cv])]
<1>2. ASSUME NEW cv \in Concerned(values)
      PROVE  /\ After(cv, hit[cv]) \in ActiveChain
             /\ Prefix(After(cv, hit[cv]))
             /\ Finishes(cv, hit[cv]) => Earned(After(cv, hit[cv]))
    <2>1. cv \in Pairs /\ defs[cv[1]] \in Definitions
        BY DEF Concerned, CorrelationInv, CorrelationTypeOK, Pairs
    <2>2. Current(cv) \in ActiveChain /\ Prefix(Current(cv))
        <3>1. CASE active[cv] = None
            BY <2>1, <3>1, FreshIsActive DEF Current
        <3>2. CASE active[cv] # None
            BY <2>1, <3>2 DEF Current, CorrelationInv, CorrelationTypeOK, ActivesAreSound, Pairs
        <3> QED
            BY <3>1, <3>2
    <2>3. hit[cv] \in 0 .. MaxStages /\ IsHit(defs[cv[1]], Current(cv), rule, hit[cv])
        BY <1>1
    <2> QED
        BY <2>1, <2>2, <2>3, AdvanceKeepsPrefix DEF After, Finishes
<1>3. /\ starts' = now
      /\ active' = [cv \in Pairs |-> IF cv \in completed THEN None
                                     ELSE IF cv \in Concerned(values) THEN After(cv, hit[cv])
                                     ELSE active[cv]]
    BY <1>1 DEF Pairs, Removed
<1>4. completed \in SUBSET Pairs
    BY DEF Concerned, Pairs
<1>5. now \in [Pairs -> Nat] /\ \A cv \in Pairs : starts[cv] <= now[cv]
    BY DEF CorrelationInv, CorrelationTypeOK, Pairs
<1>6. chain \in [completed -> ActiveChain]
    BY <1>2
<1>7. \A cv \in completed : Earned(chain[cv])
    BY <1>2
<1>8. ASSUME NEW cv \in Pairs, cv \in Concerned(values) \/ active[cv] # None
      PROVE  Id(cv, now[cv]) \notin DOMAIN incidents
    <2>1. starts[cv] \in Nat
        BY DEF CorrelationInv, CorrelationTypeOK, Pairs
    <2>2. CASE cv \in Concerned(values) /\ active[cv] = None
        <3>1. now[cv] = starts[cv] + 1
            BY <2>2
        <3>2. Id(cv, now[cv])[3] = starts[cv] + 1
              /\ <<Id(cv, now[cv])[1], Id(cv, now[cv])[2]>> = cv
            BY <2>1, <3>1, PairsAreIds
        <3>3. ~(starts[cv] + 1 <= starts[cv])
            BY <2>1
        <3> QED
            BY <3>2, <3>3 DEF CorrelationInv, IncidentsAreSound
    <2>3. CASE ~(cv \in Concerned(values) /\ active[cv] = None)
        <3>1. now[cv] = starts[cv] /\ active[cv] # None
            BY <1>8, <2>3
        <3> QED
            BY <3>1 DEF CorrelationInv, ActivesAreSound
    <2> QED
        BY <2>2, <2>3
<1>9. incidents' = Updated(incidents, [id \in {Id(cv, now[cv]) : cv \in completed} |->
                                          Incident("completed", chain[<<id[1], id[2]>>])])
    <2>1. ASSUME NEW id \in {Id(cv, now[cv]) : cv \in completed}
          PROVE  chain[<<id[1], id[2]>>] = After(<<id[1], id[2]>>, hit[<<id[1], id[2]>>])
        <3>1. PICK cv \in completed : id = Id(cv, now[cv])
            OBVIOUS
        <3>2. <<id[1], id[2]>> = cv
            BY <1>4, <1>5, <3>1, PairsAreIds
        <3> QED
            BY <3>2
    <2>2. incidents' = Updated(incidents,
                [id \in {Id(cv, starts'[cv]) : cv \in completed} |->
                    Incident("completed", After(<<id[1], id[2]>>, hit[<<id[1], id[2]>>]))])
        BY <1>1
    <2>3. starts' = now
        BY <1>3
    <2> HIDE DEF completed, now, chain
    <2>4. [id \in {Id(cv, now[cv]) : cv \in completed} |->
              Incident("completed", After(<<id[1], id[2]>>, hit[<<id[1], id[2]>>]))]
          = [id \in {Id(cv, now[cv]) : cv \in completed} |->
                Incident("completed", chain[<<id[1], id[2]>>])]
        BY <2>1
    <2> QED
        BY <2>2, <2>3, <2>4
<1> HIDE DEF completed, now, chain
<1>10. \A cv \in completed : Id(cv, now[cv]) \notin DOMAIN incidents
    BY <1>4, <1>8 DEF completed
<1>11. /\ IncidentsAreSound' /\ IncidentsAreFinalStep
       /\ DOMAIN incidents' = {Id(cv, now[cv]) : cv \in completed} \cup DOMAIN incidents
       /\ \A id \in DOMAIN incidents' :
             id \in Chains \X Values \X Nat /\ incidents'[id] \in IncidentType
    BY <1>3, <1>4, <1>5, <1>6, <1>7, <1>9, <1>10, IncidentsAreRecorded
<1>12. CorrelationTypeOK'
    <2>1. active' \in [Pairs -> ActiveChain \cup {None}]
        BY <1>2, <1>3 DEF CorrelationInv, CorrelationTypeOK, Pairs
    <2>2. defs' = defs
        BY DEF Correlate
    <2> QED
        BY <1>3, <1>5, <1>11, <2>1, <2>2 DEF CorrelationInv, CorrelationTypeOK, Pairs
<1>13. ActivesAreSound'
    <2> SUFFICES ASSUME NEW cv \in Pairs, active'[cv] # None
                 PROVE  Prefix(active'[cv]) /\ Id(cv, starts'[cv]) \notin DOMAIN incidents'
        BY DEF ActivesAreSound, Prefix, Id
    <2>1. cv \notin completed
        BY <1>3
    <2>2. Prefix(active'[cv])
        BY <1>2, <1>3, <2>1 DEF CorrelationInv, ActivesAreSound
    <2>3. Id(cv, now[cv]) \notin DOMAIN incidents
        BY <1>3, <1>8, <2>1
    <2>4. Id(cv, now[cv]) \notin {Id(o, now[o]) : o \in completed}
        <3> SUFFICES ASSUME NEW o \in completed, Id(cv, now[cv]) = Id(o, now[o])
                     PROVE  FALSE
            OBVIOUS
        <3>1. o \in Pairs /\ now[o] \in Nat /\ now[cv] \in Nat
            BY <1>4, <1>5
        <3>2. cv = o
            BY <3>1, PairsAreIds
        <3> QED
            BY <2>1, <3>2
    <2> QED
        BY <1>3, <1>11, <2>2, <2>3, <2>4
<1> QED
    BY <1>11, <1>12, <1>13 DEF CorrelationInv

LEMMA CleanupKeeps == ASSUME CorrelationInv, Cleanup PROVE CorrelationInv' /\ IncidentsAreFinalStep
<1> DEFINE chain == [cv \in Expired |-> active[cv]]
<1>1. Expired \in SUBSET Pairs
    BY DEF Expired, Pairs
<1>2. \A cv \in Expired : active[cv] # None
    BY DEF Expired
<1>3. chain \in [Expired -> ActiveChain]
    BY <1>1, <1>2 DEF CorrelationInv, CorrelationTypeOK, Pairs
<1>4. starts \in [Pairs -> Nat] /\ \A cv \in Pairs : starts[cv] <= starts[cv]
    BY DEF CorrelationInv, CorrelationTypeOK, Pairs
<1>5. \A cv \in Expired : Id(cv, starts[cv]) \notin DOMAIN incidents
    BY <1>1, <1>2 DEF CorrelationInv, ActivesAreSound
<1>6. starts' = starts /\ defs' = defs
    BY DEF Cleanup
<1>7. incidents' = Updated(incidents, [id \in {Id(cv, starts[cv]) : cv \in Expired} |->
                                          Incident("expired", chain[<<id[1], id[2]>>])])
    <2>1. ASSUME NEW id \in {Id(cv, starts[cv]) : cv \in Expired}
          PROVE  chain[<<id[1], id[2]>>] = active[<<id[1], id[2]>>]
        <3>1. PICK cv \in Expired : id = Id(cv, starts[cv])
            OBVIOUS
        <3>2. <<id[1], id[2]>> = cv
            BY <1>1, <1>4, <3>1, PairsAreIds
        <3> QED
            BY <3>2
    <2> HIDE DEF chain
    <2>2. [id \in {Id(cv, starts[cv]) : cv \in Expired} |->
              Incident("expired", active[<<id[1], id[2]>>])]
          = [id \in {Id(cv, starts[cv]) : cv \in Expired} |->
                Incident("expired", chain[<<id[1], id[2]>>])]
        BY <2>1
    <2> QED
        BY <2>2 DEF Cleanup
<1> HIDE DEF chain
<1>8. /\ IncidentsAreSound' /\ IncidentsAreFinalStep
      /\ DOMAIN incidents' = {Id(cv, starts[cv]) : cv \in Expired} \cup DOMAIN incidents
      /\ \A id \in DOMAIN incidents' :
            id \in Chains \X Values \X Nat /\ incidents'[id] \in IncidentType
    BY <1>1, <1>3, <1>4, <1>5, <1>6, <1>7, IncidentsAreRecorded
<1>9. active' = [cv \in Pairs |-> IF cv \in Expired THEN None ELSE active[cv]]
    BY DEF Cleanup, Pairs
<1>10. CorrelationTypeOK'
    <2>1. active' \in [Pairs -> ActiveChain \cup {None}]
        BY <1>9 DEF CorrelationInv, CorrelationTypeOK, Pairs
    <2> QED
        BY <1>6, <1>8, <2>1 DEF CorrelationInv, CorrelationTypeOK, Pairs
<1>11. ActivesAreSound'
    <2> SUFFICES ASSUME NEW cv \in Pairs, active'[cv] # None
                 PROVE  Prefix(active'[cv]) /\ Id(cv, starts'[cv]) \notin DOMAIN incidents'
        BY DEF ActivesAreSound, Prefix, Id
    <2>1. cv \notin Expired /\ active'[cv] = active[cv]
        BY <1>9
    <2>2. Prefix(active'[cv]) /\ Id(cv, starts[cv]) \notin DOMAIN incidents
        BY <2>1 DEF CorrelationInv, ActivesAreSound
    <2>3. Id(cv, starts[cv]) \notin {Id(o, starts[o]) : o \in Expired}
        <3> SUFFICES ASSUME NEW o \in Expired, Id(cv, starts[cv]) = Id(o, starts[o])
                     PROVE  FALSE
            OBVIOUS
        <3>1. o \in Pairs /\ starts[o] \in Nat /\ starts[cv] \in Nat
            BY <1>1, <1>4
        <3>2. cv = o
            BY <3>1, PairsAreIds
        <3> QED
            BY <2>1, <3>2
    <2> QED
        BY <1>6, <1>8, <2>2, <2>3
<1> QED
    BY <1>8, <1>10, <1>11 DEF CorrelationInv

\* Ages do not matter to the rest.
LEMMA TickKeeps == ASSUME CorrelationInv, Tick PROVE CorrelationInv' /\ IncidentsAreFinalStep
<1>1. ASSUME NEW a \in ActiveChain, Prefix(a)
      PROVE  /\ [a EXCEPT !.age = IF a.age <= MaxAge THEN a.age + 1 ELSE a.age] \in ActiveChain
             /\ Prefix([a EXCEPT !.age = IF a.age <= MaxAge THEN a.age + 1 ELSE a.age])
    <2>1. (IF a.age <= MaxAge THEN a.age + 1 ELSE a.age) \in 0 .. MaxAge + 1
        BY CorrelationAssumption DEF ActiveChain
    <2> QED
        BY <1>1, <2>1 DEF ActiveChain, Prefix
<1>2. ASSUME NEW cv \in Pairs, active[cv] # None
      PROVE  active'[cv] \in ActiveChain /\ Prefix(active'[cv])
    <2>1. active[cv] \in ActiveChain /\ Prefix(active[cv])
        BY <1>2 DEF CorrelationInv, CorrelationTypeOK, ActivesAreSound, Pairs
    <2>2. active'[cv] = [active[cv] EXCEPT !.age = IF active[cv].age <= MaxAge
                                                   THEN active[cv].age + 1 ELSE active[cv].age]
        BY <1>2 DEF Tick, Pairs
    <2> QED
        BY <1>1, <2>1, <2>2
<1>3. /\ \A cv \in Pairs : active[cv] = None => active'[cv] = None
      /\ DOMAIN active' = Pairs /\ active' = [cv \in Pairs |-> active'[cv]]
    BY DEF Tick, Pairs
<1>4. UNCHANGED <<defs, starts, incidents>>
    BY DEF Tick
<1>5. CorrelationTypeOK'
    <2>1. active' \in [Pairs -> ActiveChain \cup {None}]
        BY <1>2, <1>3
    <2> QED
        BY <1>4, <2>1 DEF CorrelationInv, CorrelationTypeOK, Pairs
<1>6. ActivesAreSound'
    BY <1>2, <1>3, <1>4 DEF CorrelationInv, ActivesAreSound, Prefix, Id
<1>7. IncidentsAreSound' /\ IncidentsAreFinalStep
    BY <1>4 DEF CorrelationInv, IncidentsAreSound, Earned, IncidentsAreFinalStep
<1> QED
    BY <1>5, <1>6, <1>7 DEF CorrelationInv

LEMMA LoadKeeps ==
    ASSUME CorrelationInv, NEW t \in Tables, Load(t)
    PROVE  CorrelationInv' /\ IncidentsAreFinalStep
<1>1. DOMAIN t \subseteq Chains /\ \A c \in DOMAIN t : t[c] \in Definitions
    BY CorrelationAssumption DEF Definitions
<1>2. DOMAIN defs' \subseteq Chains /\ \A c \in DOMAIN defs' : defs'[c] \in Definitions
    BY <1>1 DEF Load, Updated, CorrelationInv, CorrelationTypeOK
<1>3. UNCHANGED <<active, starts, incidents>>
    BY DEF Load
<1>4. CorrelationTypeOK'
    BY <1>2, <1>3 DEF CorrelationInv, CorrelationTypeOK
<1>5. ActivesAreSound' /\ IncidentsAreSound' /\ IncidentsAreFinalStep
    BY <1>3 DEF CorrelationInv, ActivesAreSound, IncidentsAreSound, Prefix, Earned, Id, IncidentsAreFinalStep
<1> QED
    BY <1>4, <1>5 DEF CorrelationInv

LEMMA ClearKeeps == ASSUME CorrelationInv, Clear PROVE CorrelationInv' /\ IncidentsAreFinalStep
<1>1. DOMAIN defs' = {} /\ DOMAIN incidents' = {}
    BY DEF Clear
<1>2. CorrelationTypeOK'
    BY <1>1 DEF Clear, CorrelationInv, CorrelationTypeOK
<1>3. ActivesAreSound' /\ IncidentsAreSound' /\ IncidentsAreFinalStep
    BY <1>1 DEF Clear, ActivesAreSound, IncidentsAreSound, Pairs, IncidentsAreFinalStep
<1> QED
    BY <1>2, <1>3 DEF CorrelationInv

LEMMA NextCorrelation ==
    ASSUME CorrelationInv, [CorrelationNext]_correlationVars
    PROVE  CorrelationInv' /\ IncidentsAreFinalStep
<1>1. ASSUME NEW t \in Tables, Load(t)
      PROVE  CorrelationInv' /\ IncidentsAreFinalStep
    BY <1>1, LoadKeeps
<1>2. ASSUME NEW rule, NEW values, Correlate(rule, values)
      PROVE  CorrelationInv' /\ IncidentsAreFinalStep
    BY <1>2, CorrelateKeeps
<1>3. CASE Cleanup
    BY <1>3, CleanupKeeps
<1>4. CASE Clear
    BY <1>4, ClearKeeps
<1>5. CASE Tick
    BY <1>5, TickKeeps
<1>6. CASE UNCHANGED correlationVars
    BY <1>6 DEF correlationVars, CorrelationInv, CorrelationTypeOK, ActivesAreSound, IncidentsAreSound, Prefix,
                Earned, Id, IncidentsAreFinalStep
<1> QED
    BY <1>1, <1>2, <1>3, <1>4, <1>5, <1>6 DEF CorrelationNext

-----------------------------------------------------------------------------
(* What holds of the engine *)

LEMMA CorrelationInvariant == CorrelationSpec => []CorrelationInv
<1>1. CorrelationInv /\ [CorrelationNext]_correlationVars => CorrelationInv'
    BY NextCorrelation
<1> QED
    BY InitCorrelation, <1>1, PTL DEF CorrelationSpec

\* Whatever is loaded and matched, every variable keeps its shape.
THEOREM CorrelationTypeCorrect == CorrelationSpec => []CorrelationTypeOK
<1>1. CorrelationInv => CorrelationTypeOK
    BY DEF CorrelationInv
<1> QED
    BY CorrelationInvariant, <1>1, PTL

\* No incident is COMPLETED before the required stages, or a branch, were matched.
THEOREM IncidentsEarned == CorrelationSpec => []IncidentsAreEarned
<1>1. CorrelationInv => IncidentsAreEarned
    BY DEF CorrelationInv, IncidentsAreSound, Earned, IncidentsAreEarned
<1> QED
    BY CorrelationInvariant, <1>1, PTL

\* An incident's state is final: its chain does not make another.
THEOREM IncidentsFinal == CorrelationSpec => IncidentsAreFinal
<1>1. CorrelationInv /\ [CorrelationNext]_correlationVars => [IncidentsAreFinalStep]_correlationVars
    BY NextCorrelation
<1> QED
    BY CorrelationInvariant, <1>1, PTL DEF CorrelationSpec, IncidentsAreFinal

-----------------------------------------------------------------------------
(* The monitors.                                                           *)

MonitorAt ==
    [health : HealthState, reading : BOOLEAN, reader : ReaderState, open : BOOLEAN, from : Nat, at : Nat,
     held : Nat, sessions : Nat, failed : SUBSET Nat]

\* The types, with the place of each monitor in the journal: it holds an entry only while it
\* has the journal open, the last that it took.
PlaceIsSound(m) ==
    /\ monitor[m].from <= monitor[m].at /\ monitor[m].at <= journal
    /\ monitor[m].held > 0 =>
           monitor[m].open /\ monitor[m].held = monitor[m].at
           /\ monitor[m].from < monitor[m].at

MonitorTypes ==
    /\ journal \in Nat
    /\ monitor \in [Names -> MonitorAt]
    /\ published \in [Names -> Seq(Nat)]

Passed(m) ==
    monitor[m].open =>
        \A n \in monitor[m].from + 1 .. monitor[m].at :
            n \in Unpublished \cup monitor[m].failed \cup {monitor[m].held}
                  \cup {published[m][i] : i \in DOMAIN published[m]}

\* With the bindings a monitor never goes back: what it published is behind it, once each.
NeverBack(m) ==
    bindings => /\ \A i \in DOMAIN published[m] :
                       /\ published[m][i] <= monitor[m].at
                       /\ monitor[m].held > 0 => published[m][i] < monitor[m].held
                /\ \A i, j \in DOMAIN published[m] : published[m][i] = published[m][j] => i = j

MonitorInv == MonitorTypes /\ \A m \in Names : PlaceIsSound(m) /\ Passed(m) /\ NeverBack(m)

USE MonitorsAssumption

LEMMA InitMonitors == MonitorsInit => MonitorInv
<1> SUFFICES ASSUME MonitorsInit PROVE MonitorInv
  OBVIOUS
<1>1. NoMonitor \in MonitorAt /\ NoMonitor.from = 0 /\ NoMonitor.at = 0 /\ NoMonitor.held = 0
      /\ ~NoMonitor.open
  BY DEF NoMonitor, MonitorAt, HealthState, ReaderState
<1>2. MonitorTypes
  BY <1>1 DEF MonitorsInit, MonitorTypes
<1>3. ASSUME NEW m \in Names PROVE PlaceIsSound(m) /\ Passed(m) /\ NeverBack(m)
  <2>1. monitor[m] = NoMonitor /\ published[m] = <<>> /\ journal = 0
    BY DEF MonitorsInit
  <2>2. DOMAIN published[m] = {}
    BY <2>1
  <2> QED
    BY <1>1, <2>1, <2>2 DEF PlaceIsSound, Passed, NeverBack
<1> QED
  BY <1>2, <1>3 DEF MonitorInv

\* Monitor m comes to another place, having published what is there now.
LEMMA MonitorSteps ==
    ASSUME MonitorInv, NEW m \in Names, NEW new \in MonitorAt, NEW out \in Seq(Nat),
           monitor' = [monitor EXCEPT ![m] = new], published' = [published EXCEPT ![m] = out],
           bindings' = bindings, journal' = journal,
           (PlaceIsSound(m) /\ Passed(m) /\ NeverBack(m))'
    PROVE  MonitorInv'
<1>1. MonitorTypes'
  BY DEF MonitorInv, MonitorTypes
<1>2. ASSUME NEW k \in Names PROVE (PlaceIsSound(k) /\ Passed(k) /\ NeverBack(k))'
  <2>1. CASE k = m
    BY <2>1
  <2>2. CASE k # m
    <3>1. monitor'[k] = monitor[k] /\ published'[k] = published[k]
      BY <2>2 DEF MonitorInv, MonitorTypes
    <3> QED
      BY <3>1 DEF MonitorInv, PlaceIsSound, Passed, NeverBack, Unpublished, Skipped
  <2> QED
    BY <2>1, <2>2
<1> QED
  BY <1>1, <1>2 DEF MonitorInv

\* Neither monitors nor what they published change; the journal may grow.
LEMMA QuietMonitors ==
    ASSUME MonitorInv, UNCHANGED <<bindings, monitor, published>>, journal' \in Nat, journal <= journal'
    PROVE  MonitorInv'
<1>1. MonitorTypes'
  BY DEF MonitorInv, MonitorTypes
<1>2. ASSUME NEW m \in Names PROVE (PlaceIsSound(m) /\ Passed(m) /\ NeverBack(m))'
  <2>1. monitor[m] \in MonitorAt /\ journal \in Nat
    BY DEF MonitorInv, MonitorTypes
  <2>2. PlaceIsSound(m)'
    BY <2>1 DEF MonitorInv, PlaceIsSound, MonitorAt
  <2> QED
    BY <2>2 DEF MonitorInv, Passed, NeverBack, Unpublished, Skipped
<1> QED
  BY <1>1, <1>2 DEF MonitorInv

\* A monitor whose health, task or reader changes, with nothing taken: it has not the journal open.
LEMMA ReaderKeeps ==
    ASSUME MonitorInv, NEW m \in Names, NEW new \in MonitorAt, monitor' = [monitor EXCEPT ![m] = new],
           new.from = monitor[m].from, new.at = monitor[m].at, new.held = 0,
           ~new.open,
           UNCHANGED <<bindings, journal, published>>
    PROVE  MonitorInv'
<1>1. monitor'[m] = new /\ monitor[m] \in MonitorAt /\ published \in [Names -> Seq(Nat)]
  BY DEF MonitorInv, MonitorTypes
<1>2. PICK out \in Seq(Nat) : out = published[m]
  BY <1>1
<1>3. published' = [published EXCEPT ![m] = out]
  BY <1>1, <1>2
<1>4. (PlaceIsSound(m) /\ Passed(m) /\ NeverBack(m))'
  BY <1>1 DEF MonitorInv, PlaceIsSound, Passed, NeverBack, MonitorAt
<1> QED
  BY <1>3, <1>4, MonitorSteps

LEMMA ConnectKeeps ==
    ASSUME MonitorInv, NEW m \in Names, Connect(m) PROVE MonitorInv'
<1>1. /\ monitor \in [Names -> MonitorAt] /\ monitor[m] \in MonitorAt /\ journal \in Nat
      /\ published \in [Names -> Seq(Nat)] /\ Begins \in Nat /\ Begins <= journal
  BY DEF MonitorInv, MonitorTypes, Begins
<1>2. PICK new : new = [monitor[m] EXCEPT !.reader = "connected", !.open = TRUE, !.from = Begins, !.at = Begins,
                                          !.sessions = @ + 1, !.failed = {}]
  OBVIOUS
<1>3. /\ new \in MonitorAt /\ new.from = Begins /\ new.at = Begins /\ new.held = monitor[m].held
      /\ monitor' = [monitor EXCEPT ![m] = new]
  <2>1. PICK b \in Nat : b = Begins
    BY <1>1
  <2>2. new = [monitor[m] EXCEPT !.reader = "connected", !.open = TRUE, !.from = b, !.at = b,
                                 !.sessions = @ + 1, !.failed = {}]
    BY <1>2, <2>1
  <2>3. new \in MonitorAt /\ new.from = b /\ new.at = b /\ new.held = monitor[m].held
    <3>1. PICK n \in Nat : n = monitor[m].sessions + 1
      BY <1>1 DEF MonitorAt
    <3>2. new = [monitor[m] EXCEPT !.reader = "connected", !.open = TRUE, !.from = b, !.at = b, !.sessions = n,
                                   !.failed = {}]
      BY <1>1, <2>2, <3>1 DEF MonitorAt
    <3>3. "connected" \in ReaderState /\ {} \in SUBSET Nat
      BY DEF ReaderState
    <3> HIDE DEF ReaderState
    <3>4. new \in MonitorAt
      BY <1>1, <2>1, <3>1, <3>2, <3>3 DEF MonitorAt
    <3>5. new.from = b /\ new.at = b /\ new.held = monitor[m].held
      BY <1>1, <3>2 DEF MonitorAt
    <3> QED
      BY <3>4, <3>5
  <2>4. monitor' = [monitor EXCEPT ![m] = new]
    BY <1>1, <2>1, <2>2 DEF Connect
  <2> QED
    BY <2>1, <2>3, <2>4
<1>4. UNCHANGED <<bindings, journal, published>> /\ ~monitor[m].open
  BY DEF Connect
<1>5. monitor[m].held = 0
  <2>1. PlaceIsSound(m) /\ monitor[m].held \in Nat
    BY <1>1 DEF MonitorInv, MonitorAt
  <2> QED
    BY <1>4, <2>1 DEF PlaceIsSound
<1>6. PICK out \in Seq(Nat) : out = published[m] /\ published' = [published EXCEPT ![m] = out]
  BY <1>1, <1>4
<1>7. monitor'[m] = new
  BY <1>1, <1>3
<1>8. PlaceIsSound(m)'
  BY <1>1, <1>3, <1>4, <1>5, <1>7 DEF PlaceIsSound
<1>9. Passed(m)'
  <2>1. \A n : n \notin Begins + 1 .. Begins
    BY <1>1
  <2> QED
    BY <1>3, <1>7, <2>1 DEF Passed
<1>10. NeverBack(m)'
  <2> SUFFICES ASSUME bindings'
               PROVE  /\ \A i \in DOMAIN published'[m] :
                           /\ published'[m][i] <= monitor'[m].at
                           /\ monitor'[m].held > 0 => published'[m][i] < monitor'[m].held
                      /\ \A i, j \in DOMAIN published'[m] : published'[m][i] = published'[m][j] => i = j
    BY DEF NeverBack
  <2>1. Begins = journal /\ bindings
    BY <1>4 DEF Begins
  <2>2. NeverBack(m) /\ monitor[m].at <= journal
    BY DEF MonitorInv, PlaceIsSound
  <2>3. ASSUME NEW i \in DOMAIN published[m] PROVE published[m][i] <= journal
    <3>1. published[m][i] <= monitor[m].at /\ published[m][i] \in Nat /\ monitor[m].at \in Nat
      BY <1>1, <2>1, <2>2 DEF NeverBack, MonitorAt
    <3> QED
      BY <1>1, <2>2, <3>1
  <2> QED
    BY <1>3, <1>4, <1>5, <1>7, <2>1, <2>2, <2>3 DEF NeverBack
<1> QED
  BY <1>3, <1>4, <1>6, <1>8, <1>9, <1>10, MonitorSteps

LEMMA TakeKeeps ==
    ASSUME MonitorInv, NEW m \in Names, TakeEntry(m) PROVE MonitorInv'
<1>1. /\ monitor \in [Names -> MonitorAt] /\ monitor[m] \in MonitorAt /\ journal \in Nat
      /\ published \in [Names -> Seq(Nat)] /\ monitor[m].at \in Nat /\ monitor[m].from \in Nat
  BY DEF MonitorInv, MonitorTypes, MonitorAt
<1>2. PICK n \in Nat : n = monitor[m].at + 1
  BY <1>1
<1>3. PICK new : new = [monitor[m] EXCEPT !.at = n, !.held = IF n \in Unpublished THEN 0 ELSE n,
                                         !.health = IF n \in Unfit THEN "failed" ELSE @]
  OBVIOUS
<1>4. /\ new \in MonitorAt /\ new.from = monitor[m].from /\ new.at = n /\ new.open = monitor[m].open
      /\ new.failed = monitor[m].failed /\ new.held = (IF n \in Unpublished THEN 0 ELSE n)
      /\ monitor' = [monitor EXCEPT ![m] = new]
  BY <1>1, <1>2, <1>3 DEF MonitorAt, HealthState, TakeEntry
<1>5. /\ UNCHANGED <<bindings, journal, published>> /\ monitor[m].open
      /\ monitor[m].held = 0 /\ monitor[m].at < journal
  BY DEF TakeEntry
<1>6. PICK out \in Seq(Nat) : out = published[m] /\ published' = [published EXCEPT ![m] = out]
  BY <1>1, <1>5
<1>7. monitor'[m] = new /\ PlaceIsSound(m) /\ Passed(m) /\ NeverBack(m)
  BY <1>1, <1>4 DEF MonitorInv
<1>8. PlaceIsSound(m)'
  <2>1. new.open /\ new.held \in {0, n} /\ new.at = n /\ new.from < n /\ n <= journal /\ n \in Nat
    BY <1>1, <1>2, <1>4, <1>5, <1>7 DEF PlaceIsSound
  <2>2. /\ new.from <= new.at /\ new.at <= journal
        /\ new.held > 0 => new.open /\ new.held = new.at /\ new.from < new.at
    BY <1>1, <1>4, <2>1
  <2> QED
    BY <1>5, <1>7, <2>2 DEF PlaceIsSound
<1>9. Passed(m)'
  <2>1. ASSUME NEW k \in new.from + 1 .. new.at
        PROVE  k \in Unpublished \cup new.failed \cup {new.held} \cup {published[m][i] : i \in DOMAIN published[m]}
    <3>1. CASE k = n
      BY <1>4, <3>1
    <3>2. CASE k # n
      <4>1. k \in monitor[m].from + 1 .. monitor[m].at /\ k # 0
        BY <1>1, <1>2, <1>4, <2>1, <3>2
      <4> QED
        BY <1>4, <1>5, <1>7, <4>1 DEF Passed
    <3> QED
      BY <3>1, <3>2
  <2> QED
    BY <1>4, <1>5, <1>7, <2>1 DEF Passed, Unpublished, Skipped
<1>10. NeverBack(m)'
  <2> SUFFICES ASSUME bindings
               PROVE  /\ \A i \in DOMAIN published[m] :
                           /\ published[m][i] <= n
                           /\ new.held > 0 => published[m][i] < new.held
                      /\ \A i, j \in DOMAIN published[m] : published[m][i] = published[m][j] => i = j
    BY <1>4, <1>5, <1>7 DEF NeverBack
  <2>1. ASSUME NEW i \in DOMAIN published[m] PROVE published[m][i] < n
    <3>1. published[m][i] <= monitor[m].at /\ published[m][i] \in Nat
      BY <1>1, <1>7 DEF NeverBack
    <3> QED
      BY <1>1, <1>2, <3>1
  <2>2. \A i \in DOMAIN published[m] : published[m][i] \in Nat
    BY <1>1
  <2> QED
    BY <1>2, <1>4, <1>7, <2>1, <2>2 DEF NeverBack
<1> QED
  BY <1>4, <1>5, <1>6, <1>8, <1>9, <1>10, MonitorSteps

LEMMA PublishKeeps ==
    ASSUME MonitorInv, NEW m \in Names, PublishEntry(m) PROVE MonitorInv'
<1>1. /\ monitor \in [Names -> MonitorAt] /\ monitor[m] \in MonitorAt /\ journal \in Nat
      /\ published \in [Names -> Seq(Nat)] /\ monitor[m].at \in Nat /\ monitor[m].from \in Nat
  BY DEF MonitorInv, MonitorTypes, MonitorAt
<1>2. PICK h \in Nat : h = monitor[m].held /\ h > 0 /\ h = monitor[m].at
  BY <1>1 DEF PublishEntry, MonitorInv, PlaceIsSound, MonitorAt
<1>3. PICK new : new = [monitor[m] EXCEPT !.held = 0]
  OBVIOUS
<1>4. /\ new \in MonitorAt /\ new.from = monitor[m].from /\ new.at = h /\ new.open = monitor[m].open
      /\ new.failed = monitor[m].failed /\ new.held = 0
      /\ monitor' = [monitor EXCEPT ![m] = new]
  BY <1>1, <1>2, <1>3 DEF MonitorAt, PublishEntry
<1>5. UNCHANGED <<bindings, journal>>
  BY DEF PublishEntry
<1>6. PICK old \in Seq(Nat) : old = published[m]
  BY <1>1
<1>7. PICK out : out = Append(old, h)
  OBVIOUS
<1>8. published' = [published EXCEPT ![m] = out] /\ published'[m] = out
  BY <1>1, <1>2, <1>6, <1>7 DEF PublishEntry
<1>9. /\ Len(old) \in Nat /\ DOMAIN old = 1 .. Len(old) /\ DOMAIN out = 1 .. Len(old) + 1
      /\ out[Len(old) + 1] = h /\ \A i \in 1 .. Len(old) : out[i] = old[i]
  BY <1>7
<1>10. monitor'[m] = new /\ PlaceIsSound(m) /\ Passed(m) /\ NeverBack(m)
  BY <1>1, <1>4 DEF MonitorInv
<1>11. PlaceIsSound(m)'
  BY <1>1, <1>2, <1>4, <1>5, <1>10 DEF PlaceIsSound
<1>12. Passed(m)'
  <2> SUFFICES ASSUME new.open, NEW k \in new.from + 1 .. new.at
               PROVE  k \in Unpublished \cup new.failed \cup {new.held} \cup {out[i] : i \in DOMAIN out}
    BY <1>5, <1>8, <1>10 DEF Passed, Unpublished, Skipped
  <2>1. k \in Unpublished \cup new.failed \cup {h} \cup {old[i] : i \in DOMAIN old}
    BY <1>2, <1>4, <1>6, <1>10 DEF Passed
  <2>2. {old[i] : i \in DOMAIN old} \subseteq {out[i] : i \in DOMAIN out}
    BY <1>9
  <2>3. h \in {out[i] : i \in DOMAIN out}
    BY <1>9
  <2> QED
    BY <2>1, <2>2, <2>3
<1>13. NeverBack(m)'
  <2> SUFFICES ASSUME bindings
               PROVE  /\ \A i \in DOMAIN out : out[i] <= h
                      /\ \A i, j \in DOMAIN out : out[i] = out[j] => i = j
    BY <1>4, <1>5, <1>8, <1>10 DEF NeverBack
  <2>1. ASSUME NEW i \in 1 .. Len(old) PROVE out[i] < h /\ out[i] \in Nat
    <3>1. old[i] \in Nat /\ i \in DOMAIN published[m] /\ published[m][i] = old[i]
      BY <1>6, <1>9
    <3>2. old[i] < h
      BY <1>2, <1>10, <3>1 DEF NeverBack
    <3> QED
      BY <1>9, <3>1, <3>2
  <2>2. \A i \in DOMAIN out : i = Len(old) + 1 \/ i \in 1 .. Len(old)
    BY <1>9
  <2>3. \A i \in DOMAIN out : out[i] <= h
    BY <1>9, <2>1, <2>2
  <2>4. \A i, j \in 1 .. Len(old) : out[i] = out[j] => i = j
    BY <1>6, <1>9, <1>10 DEF NeverBack
  <2>5. \A i, j \in DOMAIN out : out[i] = out[j] => i = j
    BY <1>9, <2>1, <2>2, <2>4
  <2> QED
    BY <2>3, <2>5
<1> QED
  <2>1. out \in Seq(Nat)
    BY <1>7
  <2> QED
    BY <1>4, <1>5, <1>8, <1>11, <1>12, <1>13, <2>1, MonitorSteps

LEMMA RefuseKeeps ==
    ASSUME MonitorInv, NEW m \in Names, PublishFails(m) PROVE MonitorInv'
<1>1. /\ monitor \in [Names -> MonitorAt] /\ monitor[m] \in MonitorAt /\ journal \in Nat
      /\ published \in [Names -> Seq(Nat)] /\ monitor[m].at \in Nat /\ monitor[m].from \in Nat
  BY DEF MonitorInv, MonitorTypes, MonitorAt
<1>2. PICK h \in Nat : h = monitor[m].held
  BY <1>1 DEF MonitorAt
<1>3. PICK new : new = [monitor[m] EXCEPT !.held = 0, !.health = "failed", !.failed = @ \cup {h}]
  OBVIOUS
<1>4. /\ new \in MonitorAt /\ new.from = monitor[m].from /\ new.at = monitor[m].at
      /\ new.open = monitor[m].open /\ new.failed = monitor[m].failed \cup {h} /\ new.held = 0
      /\ monitor' = [monitor EXCEPT ![m] = new]
  BY <1>1, <1>2, <1>3 DEF MonitorAt, HealthState, PublishFails
<1>5. UNCHANGED <<bindings, journal, published>>
  BY DEF PublishFails
<1>6. PICK out \in Seq(Nat) : out = published[m] /\ published' = [published EXCEPT ![m] = out]
  BY <1>1, <1>5
<1>7. monitor'[m] = new /\ PlaceIsSound(m) /\ Passed(m) /\ NeverBack(m)
  BY <1>1, <1>4 DEF MonitorInv
<1>8. PlaceIsSound(m)' /\ NeverBack(m)'
  BY <1>4, <1>5, <1>7 DEF PlaceIsSound, NeverBack
<1>9. Passed(m)'
  BY <1>2, <1>4, <1>5, <1>7 DEF Passed, Unpublished, Skipped
<1> QED
  BY <1>4, <1>5, <1>6, <1>8, <1>9, MonitorSteps

\* start_all changes the health and the task of some monitors.
LEMMA StartAllKeeps ==
    ASSUME MonitorInv, StartAll PROVE MonitorInv'
<1>1. UNCHANGED <<bindings, journal, published>>
  BY DEF StartAll
<1>2. monitor \in [Names -> MonitorAt]
  BY DEF MonitorInv, MonitorTypes
<1>3. ASSUME NEW m \in Names
      PROVE  /\ monitor'[m] \in MonitorAt /\ monitor'[m].from = monitor[m].from
             /\ monitor'[m].at = monitor[m].at /\ monitor'[m].open = monitor[m].open
             /\ monitor'[m].held = monitor[m].held /\ monitor'[m].failed = monitor[m].failed
  <2>1. monitor[m] \in MonitorAt
    BY <1>2
  <2>2. monitor'[m] = IF m \in allowed \cap initialized
                      THEN [monitor[m] EXCEPT !.health = "healthy", !.reading = TRUE] ELSE monitor[m]
    BY DEF StartAll
  <2>3. CASE m \in allowed \cap initialized
    <3>1. monitor'[m] = [monitor[m] EXCEPT !.health = "healthy", !.reading = TRUE]
      BY <2>2, <2>3
    <3> QED
      BY <2>1, <3>1 DEF MonitorAt, HealthState
  <2>4. CASE m \notin allowed \cap initialized
    <3>1. monitor'[m] = monitor[m]
      BY <2>2, <2>4
    <3> QED
      BY <2>1, <3>1
  <2> QED
    BY <2>3, <2>4
<1>4. monitor' \in [Names -> MonitorAt]
  <2>1. monitor' = [m \in Names |-> monitor'[m]]
    BY DEF StartAll
  <2> QED
    BY <1>3, <2>1
<1>5. \A m \in Names : (PlaceIsSound(m) /\ Passed(m) /\ NeverBack(m))'
  BY <1>1, <1>3 DEF MonitorInv, PlaceIsSound, Passed, NeverBack, Unpublished, Skipped
<1> QED
  BY <1>1, <1>4, <1>5 DEF MonitorInv, MonitorTypes

LEMMA StopOneKeeps ==
    ASSUME MonitorInv, StopOne PROVE MonitorInv'
<1>1. UNCHANGED <<bindings, journal, published>>
  BY DEF StopOne
<1>2. monitor \in [Names -> MonitorAt] /\ journal \in Nat
  BY DEF MonitorInv, MonitorTypes
<1>3. PICK m : m = Head(toStop)
  OBVIOUS
<1>4. monitor' = [monitor EXCEPT ![m].health = "stopped", ![m].reading = FALSE,
                                 ![m].reader = "disconnected", ![m].open = FALSE, ![m].held = 0]
  BY <1>3 DEF StopOne
<1>5. CASE m \in Names
  <2>1. PICK new : new = [monitor[m] EXCEPT !.health = "stopped", !.reading = FALSE,
                                            !.reader = "disconnected", !.open = FALSE, !.held = 0]
    OBVIOUS
  <2>2. monitor[m] \in MonitorAt
    BY <1>2, <1>5
  <2>3. /\ new \in MonitorAt /\ new.from = monitor[m].from /\ new.at = monitor[m].at /\ new.held = 0
        /\ ~new.open
    BY <2>1, <2>2 DEF MonitorAt, HealthState, ReaderState
  <2>4. monitor' = [monitor EXCEPT ![m] = new]
    BY <1>2, <1>4, <1>5, <2>1
  <2> QED
    BY <1>1, <1>5, <2>3, <2>4, ReaderKeeps
<1>6. CASE m \notin Names
  <2>1. monitor' = monitor
    BY <1>2, <1>4, <1>6
  <2> QED
    BY <1>1, <1>2, <2>1, QuietMonitors
<1> QED
  BY <1>5, <1>6

LEMMA DisconnectKeeps ==
    ASSUME MonitorInv, NEW m \in Names, Disconnect(m) PROVE MonitorInv'
<1>1. monitor \in [Names -> MonitorAt] /\ monitor[m] \in MonitorAt
  BY DEF MonitorInv, MonitorTypes
<1>2. PICK new : new = IF bindings THEN [monitor[m] EXCEPT !.reader = "disconnected", !.open = FALSE,
                                                               !.reading = FALSE]
                       ELSE [monitor[m] EXCEPT !.reader = "reconnecting", !.open = FALSE]
  OBVIOUS
<1>3. /\ new \in MonitorAt /\ new.from = monitor[m].from /\ new.at = monitor[m].at
      /\ new.held = monitor[m].held /\ ~new.open
  BY <1>1, <1>2 DEF MonitorAt, ReaderState
<1>4. /\ monitor[m].held = 0 /\ UNCHANGED <<bindings, journal, published>>
      /\ monitor' = [monitor EXCEPT ![m] = new]
  BY <1>1, <1>2 DEF Disconnect
<1> QED
  BY <1>3, <1>4, ReaderKeeps

LEMMA LoopFailsKeeps ==
    ASSUME MonitorInv, NEW m \in Names, LoopFails(m) PROVE MonitorInv'
<1>1. monitor \in [Names -> MonitorAt] /\ monitor[m] \in MonitorAt
  BY DEF MonitorInv, MonitorTypes
<1>2. PICK new : new = [monitor[m] EXCEPT !.open = FALSE, !.reading = FALSE, !.health = "failed"]
  OBVIOUS
<1>3. /\ new \in MonitorAt /\ new.from = monitor[m].from /\ new.at = monitor[m].at
      /\ new.held = monitor[m].held /\ ~new.open
  BY <1>1, <1>2 DEF MonitorAt, HealthState
<1>4. /\ monitor[m].held = 0 /\ UNCHANGED <<bindings, journal, published>>
      /\ monitor' = [monitor EXCEPT ![m] = new]
  BY <1>1, <1>2 DEF LoopFails
<1> QED
  BY <1>3, <1>4, ReaderKeeps

LEMMA NextMonitors == MonitorInv /\ [MonitorsNext]_monitorVars => MonitorInv'
<1> SUFFICES ASSUME MonitorInv, [MonitorsNext]_monitorVars PROVE MonitorInv'
  OBVIOUS
<1>1. journal \in Nat
  BY DEF MonitorInv, MonitorTypes
<1>2. ASSUME UNCHANGED <<bindings, journal, monitor, published>> PROVE MonitorInv'
  BY <1>1, <1>2, QuietMonitors
<1>3. ASSUME NEW m \in Names,
             RegisterMonitor(m) \/ UnregisterMonitor(m) \/ EnableMonitor(m) \/ DisableMonitor(m)
      PROVE  MonitorInv'
  BY <1>2, <1>3 DEF RegisterMonitor, UnregisterMonitor, EnableMonitor, DisableMonitor
<1>4. CASE InitializeAll \/ StopAll \/ StopEnds
  BY <1>2, <1>4 DEF InitializeAll, StopAll, StopEnds
<1>5. CASE WriteJournal
  BY <1>1, <1>5, QuietMonitors DEF WriteJournal
<1>6. CASE UNCHANGED monitorVars
  BY <1>2, <1>6 DEF monitorVars
<1> QED
  BY <1>3, <1>4, <1>5, <1>6, ConnectKeeps, TakeKeeps, PublishKeeps, RefuseKeeps, LoopFailsKeeps,
     DisconnectKeeps, StartAllKeeps, StopOneKeeps DEF MonitorsNext

\* What a monitor has passed it has published, unless it was refused, skipped or not normalised,
\* and with systemd's bindings nothing is published twice: for any monitors and journal, over any
\* number of sessions, stops and restarts (JournaldMonitor._read_loop, JournalReader).
THEOREM EntriesArePublished == MonitorsSpec => []MonitorsAreSound
<1>1. MonitorInv => MonitorsAreSound
  BY DEF MonitorInv, MonitorsAreSound, PassedIsPublished, RepeatedOnlyByJournalctl, Passed, NeverBack
<1> QED
  BY <1>1, InitMonitors, NextMonitors, PTL DEF MonitorsSpec

\* The registry and the manager, and what is published.
MonitorRest ==
    /\ journal <= MaxEntries
    /\ registered \subseteq Names /\ allowed \subseteq registered /\ initialized \subseteq Names
    /\ managed \in {"idle", "started", "stopping"}
    /\ \A m \in Names : \A i \in DOMAIN published[m] : published[m][i] \in 1 .. journal

LEMMA RestOfMonitorsKeeps ==
    ASSUME MonitorInv, MonitorRest, [MonitorsNext]_monitorVars PROVE MonitorRest'
<1>1. journal \in Nat /\ MaxEntries \in Nat /\ journal <= MaxEntries
  BY DEF MonitorInv, MonitorTypes, MonitorRest
<1>2. ASSUME UNCHANGED <<journal, published>>, registered' \subseteq Names, allowed' \subseteq registered',
             initialized' \subseteq Names, managed' \in {"idle", "started", "stopping"}
      PROVE  MonitorRest'
  BY <1>2 DEF MonitorRest
<1>3. ASSUME NEW m \in Names,
             RegisterMonitor(m) \/ UnregisterMonitor(m) \/ EnableMonitor(m) \/ DisableMonitor(m)
      PROVE  MonitorRest'
  <2>1. /\ UNCHANGED <<journal, published, initialized, managed>>
        /\ registered' \subseteq Names /\ allowed' \subseteq registered'
    BY <1>3 DEF RegisterMonitor, UnregisterMonitor, EnableMonitor, DisableMonitor, MonitorRest
  <2> QED
    BY <1>2, <2>1 DEF MonitorRest
<1>4. CASE InitializeAll
  BY <1>2, <1>4 DEF InitializeAll, MonitorRest
<1>5. CASE StartAll
  BY <1>2, <1>5 DEF StartAll, MonitorRest
<1>6. CASE StopAll \/ StopOne \/ StopEnds
  <2>1. /\ UNCHANGED <<journal, published, registered, allowed, initialized>>
        /\ managed' \in {"idle", "started", "stopping"}
    BY <1>6 DEF StopAll, StopOne, StopEnds, MonitorRest
  <2> QED
    BY <1>2, <2>1 DEF MonitorRest
<1>7. ASSUME NEW m \in Names, \/ Connect(m) \/ TakeEntry(m) \/ LoopFails(m)
                              \/ PublishFails(m) \/ Disconnect(m)
      PROVE  MonitorRest'
  <2>1. UNCHANGED <<journal, published, registered, allowed, initialized, managed>>
    BY <1>7 DEF Connect, TakeEntry, LoopFails, PublishFails, Disconnect
  <2> QED
    BY <1>2, <2>1 DEF MonitorRest
<1>8. ASSUME NEW m \in Names, PublishEntry(m) PROVE MonitorRest'
  <2>1. PICK h : h = monitor[m].held
    OBVIOUS
  <2>2. h \in 1 .. journal /\ h \in Nat
    BY <1>1, <1>8, <2>1 DEF PublishEntry, MonitorInv, MonitorTypes, MonitorAt, PlaceIsSound
  <2>3. PICK q \in Seq(Nat) : q = published[m]
    BY DEF MonitorInv, MonitorTypes
  <2>4. \A i \in 1 .. Len(q) : q[i] \in 1 .. journal
    BY <2>3 DEF MonitorRest
  <2>5. PICK r : r = Append(q, h)
    OBVIOUS
  <2>6. DOMAIN r = 1 .. Len(q) + 1 /\ r[Len(q) + 1] = h /\ \A i \in 1 .. Len(q) : r[i] = q[i]
    BY <2>2, <2>3, <2>5
  <2>7. \A i \in DOMAIN r : r[i] \in 1 .. journal
    BY <2>2, <2>3, <2>4, <2>6
  <2>8. /\ published' = [published EXCEPT ![m] = r] /\ published \in [Names -> Seq(Nat)]
        /\ UNCHANGED <<journal, registered, allowed, initialized, managed>>
    BY <1>8, <2>1, <2>3, <2>5 DEF PublishEntry, MonitorInv, MonitorTypes
  <2>9. ASSUME NEW n \in Names PROVE \A i \in DOMAIN published'[n] : published'[n][i] \in 1 .. journal
    BY <2>7, <2>8 DEF MonitorRest
  <2> QED
    BY <2>8, <2>9 DEF MonitorRest
<1>9. CASE WriteJournal
  <2>1. /\ journal' = journal + 1 /\ journal < MaxEntries
        /\ UNCHANGED <<registered, allowed, initialized, managed, published>>
    BY <1>9 DEF WriteJournal
  <2>2. ASSUME NEW m \in Names, NEW i \in DOMAIN published[m] PROVE published[m][i] \in 1 .. journal'
    BY <1>1, <2>1 DEF MonitorRest
  <2> QED
    BY <1>1, <2>1, <2>2 DEF MonitorRest
<1>10. CASE UNCHANGED monitorVars
  BY <1>2, <1>10 DEF monitorVars, MonitorRest
<1> QED
  BY <1>3, <1>4, <1>5, <1>6, <1>7, <1>8, <1>9, <1>10 DEF MonitorsNext

\* A monitor is never ahead of the journal, publishes nothing that is not in it, and has a health
\* that HealthState knows: MonitorManager, JournaldMonitor and JournalReader.
THEOREM MonitorsTypeCorrect == MonitorsSpec => []MonitorsTypeOK
<1>1. MonitorsInit => MonitorRest
  BY DEF MonitorsInit, MonitorRest
<1>2. MonitorInv /\ MonitorRest /\ [MonitorsNext]_monitorVars => MonitorRest'
  BY RestOfMonitorsKeeps
<1>3. ASSUME MonitorInv, MonitorRest PROVE MonitorsTypeOK
  <2>1. ASSUME NEW m \in Names
        PROVE  /\ monitor[m].health \in HealthState /\ Health(m) \in HealthState
               /\ monitor[m].reader \in ReaderState
               /\ monitor[m].from <= monitor[m].at /\ monitor[m].at <= journal
               /\ monitor[m].held \in {0, monitor[m].at}
    <3>1. monitor[m] \in MonitorAt
      BY <1>3 DEF MonitorInv, MonitorTypes
    <3>2. monitor[m].health \in HealthState /\ monitor[m].reader \in ReaderState /\ monitor[m].held \in Nat
      BY <3>1 DEF MonitorAt
    <3>3. Health(m) \in HealthState
      BY <3>2 DEF Health, HealthState, ReaderState
    <3> QED
      BY <1>3, <3>2, <3>3 DEF MonitorInv, PlaceIsSound
  <2> QED
    BY <1>3, <2>1 DEF MonitorInv, MonitorTypes, MonitorRest, MonitorsTypeOK
<1> QED
  BY <1>1, <1>2, <1>3, InitMonitors, NextMonitors, PTL DEF MonitorsSpec

HIDE MonitorsAssumption

-----------------------------------------------------------------------------
(* The pipeline.                                                           *)

StartAt == [pc : {"idle", "init", "done"}, left : Seq(Stages)]
StopAt == [pc : {"idle", "shut", "done"}, left : Seq(Stages)]
RunAt == [pc : {"idle", "stage", "sleep", "done"}, plan : Seq(Stages), at : Nat, attempt : Nat,
          cancelled : BOOLEAN, passed : SUBSET Stages, tries : [Stages -> Nat]]

\* A stage stands once in the order, after it was registered; it is enabled only there.
OrderIsSound == NoneTwice(order) /\ ToSet(order) \subseteq known /\ enabled \subseteq ToSet(order)

\* Before the engine stops, an enabled stage is prepared or will be by each start() under way, and
\* all are once one of them has subscribed.
Prepared == ready \cup byHand
StartsPrepare ==
    /\ stop.pc # "idle" => stopping
    /\ stop.pc = "shut" => stop.left # <<>>
    /\ subs > 0 => ~Untouched
    /\ \A c \in Starters : start[c].pc = "init" => start[c].left # <<>>
    /\ ~stopping => /\ \A c \in Starters : start[c].pc = "init" =>
                           enabled \subseteq Prepared \cup ToSet(start[c].left)
                    /\ subs > 0 => enabled \subseteq Prepared

\* A run under way: what is before its stage has passed the event on, what is after was not called.
UnderWay(w) == w.pc \in {"stage", "sleep"}
RunIsSound(w) ==
    /\ \A s \in Stages : w.tries[s] <= MaxRetries + 1
    /\ ~UnderWay(w) => \A s \in Stages : w.tries[s] = 0
    /\ UnderWay(w) =>
         /\ NoneTwice(w.plan) /\ w.at \in 1 .. Len(w.plan)
         /\ \A i \in 1 .. Len(w.plan) : /\ i < w.at => w.plan[i] \in w.passed
                                        /\ i > w.at => w.tries[w.plan[i]] = 0
         /\ w.tries[w.plan[w.at]] = w.attempt + 1 /\ w.attempt <= MaxRetries
         /\ w.pc = "sleep" => w.attempt < MaxRetries
RunIsPrepared(w) ==
    UnderWay(w) /\ ~stopping => \A i \in 1 .. Len(w.plan) : w.plan[i] \in Prepared

PipelineInv ==
    /\ PipelineTypeOK /\ OrderIsSound /\ StartsPrepare
    /\ \A r \in Runs : RunIsSound(run[r]) /\ RunIsPrepared(run[r])

USE PipelineAssumption

LEMMA PipelineTypes ==
    ASSUME PipelineTypeOK
    PROVE  /\ order \in Seq(Stages) /\ enabled \subseteq Stages /\ known \subseteq Stages
           /\ byHand \subseteq Stages /\ ready \subseteq Stages
           /\ started \in BOOLEAN /\ stopping \in BOOLEAN /\ subs \in Nat
           /\ start \in [Starters -> StartAt] /\ stop \in StopAt /\ run \in [Runs -> RunAt]
  BY DEF PipelineTypeOK, StartAt, StopAt, RunAt

LEMMA TypesOfPipeline ==
    ASSUME order \in Seq(Stages), enabled \subseteq Stages, known \subseteq Stages,
           byHand \subseteq Stages, ready \subseteq Stages,
           started \in BOOLEAN, stopping \in BOOLEAN, subs \in Nat,
           start \in [Starters -> StartAt], stop \in StopAt, run \in [Runs -> RunAt]
    PROVE  PipelineTypeOK
  BY DEF PipelineTypeOK, StartAt, StopAt, RunAt

LEMMA NoRunFacts ==
    /\ NoRun \in RunAt /\ NoRun.pc = "idle" /\ NoRun.tries = [s \in Stages |-> 0] /\ NoRun.plan = <<>>
    /\ NoRun.attempt = 0
    /\ \A w : w = [NoRun EXCEPT !.pc = "done"] =>
           w \in RunAt /\ ~UnderWay(w) /\ RunIsSound(w)
<1>1. NoRun \in RunAt /\ NoRun.pc = "idle" /\ NoRun.tries = [s \in Stages |-> 0] /\ NoRun.plan = <<>>
      /\ NoRun.attempt = 0
  BY DEF NoRun, RunAt
<1>2. ASSUME NEW w, w = [NoRun EXCEPT !.pc = "done"] PROVE w \in RunAt /\ ~UnderWay(w) /\ RunIsSound(w)
  <2>1. w \in RunAt /\ w.pc = "done" /\ w.tries = [s \in Stages |-> 0]
    BY <1>1, <1>2 DEF RunAt
  <2> QED
    BY <2>1 DEF UnderWay, RunIsSound
<1> QED
  BY <1>1, <1>2

LEMMA InitPipeline == PipelineInit => PipelineInv
<1> SUFFICES ASSUME PipelineInit PROVE PipelineInv
  OBVIOUS
<1>1. /\ order = <<>> /\ enabled = {} /\ known = {} /\ byHand = {} /\ ready = {}
      /\ started = FALSE /\ stopping = FALSE /\ subs = 0
      /\ start = [c \in Starters |-> [pc |-> "idle", left |-> <<>>]]
      /\ stop = [pc |-> "idle", left |-> <<>>]
      /\ run = [r \in Runs |-> NoRun]
  BY DEF PipelineInit
<1>2. /\ [pc |-> "idle", left |-> <<>>] \in StartAt /\ [pc |-> "idle", left |-> <<>>] \in StopAt
  BY DEF StartAt, StopAt
<1>3. start \in [Starters -> StartAt] /\ stop \in StopAt /\ run \in [Runs -> RunAt]
  BY <1>1, <1>2, NoRunFacts
<1>4. PipelineTypeOK
  <2>1. order \in Seq(Stages) /\ subs \in Nat
    BY <1>1
  <2> QED
    BY <1>1, <1>3, <2>1, TypesOfPipeline
<1>5. OrderIsSound
  BY <1>1 DEF OrderIsSound, NoneTwice, ToSet
<1>6. StartsPrepare
  BY <1>1 DEF StartsPrepare
<1>7. ASSUME NEW r \in Runs PROVE RunIsSound(run[r]) /\ RunIsPrepared(run[r])
  <2>1. run[r] = NoRun
    BY <1>1
  <2> QED
    BY <2>1, NoRunFacts DEF RunIsSound, RunIsPrepared, UnderWay
<1> QED
  BY <1>4, <1>5, <1>6, <1>7 DEF PipelineInv

\* What InsertAt does to a sequence.
LEMMA InsertedAt ==
    ASSUME NEW X, NEW q \in Seq(X), NEW x \in X, NEW i \in 1 .. Len(q) + 1, NEW new,
           new = InsertAt(q, i, x)
    PROVE  /\ new \in Seq(X) /\ Len(new) = Len(q) + 1
           /\ \A k \in 1 .. Len(new) :
                  new[k] = IF k < i THEN q[k] ELSE IF k = i THEN x ELSE q[k - 1]
<1>1. PICK a : a = SubSeq(q, 1, i - 1)
  OBVIOUS
<1>2. PICK b : b = SubSeq(q, i, Len(q))
  OBVIOUS
<1>3. Len(q) \in Nat /\ i \in Nat
  OBVIOUS
<1>4. a \in Seq(X) /\ Len(a) = i - 1 /\ \A k \in 1 .. i - 1 : a[k] = q[k]
  BY <1>1, <1>3
<1>5. b \in Seq(X) /\ Len(b) = Len(q) + 1 - i /\ \A k \in 1 .. Len(q) + 1 - i : b[k] = q[k + i - 1]
  <2>1. CASE i = Len(q) + 1
    BY <1>2, <1>3, <2>1
  <2>2. CASE i # Len(q) + 1
    BY <1>2, <1>3, <2>2
  <2> QED
    BY <2>1, <2>2
<1>6. PICK c : c = a \o <<x>>
  OBVIOUS
<1>7. c \in Seq(X) /\ Len(c) = i /\ c[i] = x /\ \A k \in 1 .. i - 1 : c[k] = q[k]
  BY <1>3, <1>4, <1>6
<1>8. new = c \o b
  BY <1>1, <1>2, <1>6 DEF InsertAt
<1>9. new \in Seq(X) /\ Len(new) = Len(q) + 1
  BY <1>3, <1>5, <1>7, <1>8
<1>10. ASSUME NEW k \in 1 .. Len(new)
       PROVE  new[k] = IF k < i THEN q[k] ELSE IF k = i THEN x ELSE q[k - 1]
  <2>1. CASE k <= i
    BY <1>3, <1>5, <1>7, <1>8, <1>9, <2>1
  <2>2. CASE ~(k <= i)
    <3>1. new[k] = b[k - i]
      BY <1>3, <1>5, <1>7, <1>8, <1>9, <2>2
    <3>2. k - i \in 1 .. Len(q) + 1 - i /\ (k - i) + i - 1 = k - 1
      BY <1>3, <1>9, <2>2
    <3>3. b[k - i] = q[(k - i) + i - 1]
      BY <1>5, <3>2
    <3> QED
      BY <1>3, <2>2, <3>1, <3>2, <3>3
  <2> QED
    BY <1>3, <2>1, <2>2
<1> QED
  BY <1>9, <1>10

\* A stage that is not there yet makes no other stand twice.
LEMMA InsertedOnce ==
    ASSUME NEW X, NEW q \in Seq(X), NEW x \in X \ ToSet(q), NEW i \in 1 .. Len(q) + 1, NEW new,
           new = InsertAt(q, i, x), NoneTwice(q)
    PROVE  new \in Seq(X) /\ NoneTwice(new) /\ ToSet(new) = ToSet(q) \cup {x}
<1>1. /\ new \in Seq(X) /\ Len(new) = Len(q) + 1
      /\ \A k \in 1 .. Len(new) : new[k] = IF k < i THEN q[k] ELSE IF k = i THEN x ELSE q[k - 1]
  BY InsertedAt
<1>2. Len(q) \in Nat /\ i \in Nat /\ ToSet(q) = {q[k] : k \in 1 .. Len(q)} /\ ToSet(new) = {new[k] : k \in 1 .. Len(new)}
  BY <1>1 DEF ToSet
<1>3. PICK from : from = [k \in 1 .. Len(new) |-> IF k < i THEN k ELSE k - 1]
  OBVIOUS
<1>4. ASSUME NEW k \in 1 .. Len(new), k # i
      PROVE  from[k] \in 1 .. Len(q) /\ new[k] = q[from[k]] /\ new[k] # x
  <2>1. from[k] \in 1 .. Len(q) /\ new[k] = q[from[k]]
    BY <1>1, <1>2, <1>3, <1>4
  <2> QED
    BY <1>2, <2>1
<1>5. i \in 1 .. Len(new) /\ new[i] = x
  BY <1>1, <1>2
<1>6. ASSUME NEW k \in 1 .. Len(new), NEW l \in 1 .. Len(new), k # i, l # i, from[k] = from[l] PROVE k = l
  BY <1>1, <1>2, <1>3, <1>6
<1>7. NoneTwice(new)
  BY <1>4, <1>5, <1>6 DEF NoneTwice
<1>8. ASSUME NEW k \in 1 .. Len(q) PROVE \E l \in 1 .. Len(new) : new[l] = q[k]
  <2>1. CASE k < i
    BY <1>1, <1>2, <2>1
  <2>2. CASE ~(k < i)
    <3>1. k + 1 \in 1 .. Len(new) /\ ~(k + 1 < i) /\ k + 1 # i /\ (k + 1) - 1 = k
      BY <1>1, <1>2, <2>2
    <3>2. new[k + 1] = q[k]
      BY <1>1, <3>1
    <3> QED
      BY <3>1, <3>2
  <2> QED
    BY <2>1, <2>2
<1>9. ToSet(new) = ToSet(q) \cup {x}
  BY <1>2, <1>4, <1>5, <1>8
<1> QED
  BY <1>1, <1>7, <1>9

\* Some stages of the order, in its order.
LEMMA SiftedOnce ==
    ASSUME NEW X, NEW q \in Seq(X), NEW A, NEW new, new = Sifted(q, A), NoneTwice(q)
    PROVE  new \in Seq(X) /\ NoneTwice(new) /\ ToSet(new) = ToSet(q) \cap A
<1>1. /\ new \in Seq(X) /\ Len(new) \in Nat
      /\ \A k \in 1 .. Len(new) : new[k] \in A /\ \E i \in 1 .. Len(q) : new[k] = q[i]
      /\ \A i \in 1 .. Len(q) : q[i] \in A => \E k \in 1 .. Len(new) : new[k] = q[i]
  BY SiftedElements
<1>5. NoneTwice(new)
  BY SiftedElements
<1>2. ToSet(q) = {q[k] : k \in 1 .. Len(q)} /\ ToSet(new) = {new[k] : k \in 1 .. Len(new)}
  BY <1>1 DEF ToSet
<1>3. ToSet(new) = ToSet(q) \cap A
  <2>1. \A x : x \in ToSet(new) => x \in ToSet(q) \cap A
    BY <1>1, <1>2, SMTT(30)
  <2>2. \A x : x \in ToSet(q) \cap A => x \in ToSet(new)
    BY <1>1, <1>2
  <2> QED
    BY <2>1, <2>2
<1> QED
  BY <1>1, <1>3, <1>5

-----------------------------------------------------------------------------
\* A step of the registry: it changes no run, and prepares what it enables.
LEMMA RegistryKeeps ==
    ASSUME PipelineInv, NEW s \in Stages,
           Register(s) \/ Unregister(s) \/ Enable(s) \/ Disable(s)
    PROVE  PipelineInv'
<1>1. /\ order \in Seq(Stages) /\ enabled \subseteq Stages /\ known \subseteq Stages
      /\ byHand \subseteq Stages /\ ready \subseteq Stages
      /\ started \in BOOLEAN /\ stopping \in BOOLEAN /\ subs \in Nat
      /\ start \in [Starters -> StartAt] /\ stop \in StopAt /\ run \in [Runs -> RunAt]
  BY PipelineTypes DEF PipelineInv
<1>2. UNCHANGED <<started, stopping, subs, start, stop, ready, run>>
  BY DEF Register, Unregister, Enable, Disable, lifecycle
<1>3. NoneTwice(order) /\ ToSet(order) \subseteq known /\ enabled \subseteq ToSet(order)
  BY DEF PipelineInv, OrderIsSound
<1>4. /\ order' \in Seq(Stages) /\ NoneTwice(order') /\ ToSet(order') \subseteq known'
      /\ enabled' \subseteq ToSet(order') /\ known' \subseteq Stages
  <2>1. CASE Register(s)
    <3>1. PICK i \in 1 .. Len(order) + 1 : order' = InsertAt(order, i, s)
      BY <2>1 DEF Register
    <3>2. s \in Stages \ ToSet(order)
      BY <1>3, <2>1 DEF Register
    <3>3. order' \in Seq(Stages) /\ NoneTwice(order') /\ ToSet(order') = ToSet(order) \cup {s}
      <4>1. PICK new : new = order'
        OBVIOUS
      <4>2. new \in Seq(Stages) /\ NoneTwice(new) /\ ToSet(new) = ToSet(order) \cup {s}
        BY <1>1, <1>3, <3>1, <3>2, <4>1, InsertedOnce
      <4> QED
        BY <4>1, <4>2
    <3>4. known' = known \cup {s} /\ enabled' = enabled \cup {s}
      BY <2>1 DEF Register
    <3> QED
      BY <1>1, <1>3, <3>3, <3>4, Zenon
  <2>2. CASE Unregister(s)
    <3>1. order' = Sifted(order, Stages \ {s}) /\ enabled' = enabled \ {s} /\ known' = known
      BY <2>2 DEF Unregister
    <3>2. order' \in Seq(Stages) /\ NoneTwice(order') /\ ToSet(order') = ToSet(order) \cap (Stages \ {s})
      <4>1. PICK new, A : new = order' /\ A = Stages \ {s}
        OBVIOUS
      <4>2. new \in Seq(Stages) /\ NoneTwice(new) /\ ToSet(new) = ToSet(order) \cap A
        BY <1>1, <1>3, <3>1, <4>1, SiftedOnce
      <4> QED
        BY <4>1, <4>2
    <3> QED
      BY <1>1, <1>3, <3>1, <3>2
  <2>3. CASE Enable(s) \/ Disable(s)
    <3>1. order' = order /\ known' = known /\ enabled' \subseteq enabled \cup {s} /\ (s \in enabled' => s \in ToSet(order))
      BY <1>3, <2>3 DEF Enable, Disable
    <3> QED
      BY <1>1, <1>3, <3>1
  <2> QED
    BY <2>1, <2>2, <2>3
<1>5. byHand \subseteq byHand' /\ byHand' \subseteq Stages
  BY <1>1 DEF Register, Unregister, Enable, Disable
<1>6. enabled' \subseteq enabled \cup byHand' \/ (Untouched /\ enabled' \subseteq enabled \cup {s})
  BY DEF Register, Unregister, Enable, Disable
<1>7. PipelineTypeOK'
  BY <1>1, <1>2, <1>4, <1>5 DEF PipelineTypeOK, StartAt, StopAt, RunAt
<1>8. OrderIsSound'
  BY <1>4 DEF OrderIsSound, NoneTwice, ToSet
<1>9. Prepared \subseteq Prepared'
  BY <1>2, <1>5 DEF Prepared
<1>10. StartsPrepare'
  <2>1. (stop.pc # "idle" => stopping) /\ (stop.pc = "shut" => stop.left # <<>>) /\ (subs > 0 => ~Untouched)
    BY DEF PipelineInv, StartsPrepare
  <2>2. /\ Untouched' <=> Untouched
        /\ \A c \in Starters : start'[c].pc = "init" => start'[c].left # <<>>
    BY <1>2 DEF Untouched, PipelineInv, StartsPrepare
  <2>3. ASSUME ~stopping, NEW c \in Starters, start[c].pc = "init"
        PROVE  enabled' \subseteq Prepared' \cup ToSet(start[c].left)
    <3>1. enabled \subseteq Prepared \cup ToSet(start[c].left)
      BY <2>3 DEF PipelineInv, StartsPrepare
    <3>2. ~Untouched
      BY <2>3 DEF Untouched
    <3>3. byHand' \subseteq Prepared'
      BY DEF Prepared
    <3> QED
      BY <1>6, <1>9, <3>1, <3>2, <3>3
  <2>4. ASSUME ~stopping, subs > 0 PROVE enabled' \subseteq Prepared'
    <3>1. enabled \subseteq Prepared /\ ~Untouched
      BY <2>1, <2>4 DEF PipelineInv, StartsPrepare
    <3>2. byHand' \subseteq Prepared'
      BY DEF Prepared
    <3> QED
      BY <1>6, <1>9, <3>1, <3>2
  <2> QED
    BY <1>2, <2>1, <2>2, <2>3, <2>4 DEF StartsPrepare, ToSet
<1>11. \A r \in Runs : (RunIsSound(run[r]) /\ RunIsPrepared(run[r]))'
  BY <1>2, <1>9 DEF PipelineInv, RunIsSound, RunIsPrepared, UnderWay, NoneTwice
<1> QED
  BY <1>7, <1>8, <1>10, <1>11 DEF PipelineInv

\* A step of start() that leaves the order alone.  It may make stages ready and disable some.
LEMMA StartSteps ==
    ASSUME PipelineInv, NEW c \in Starters, NEW new \in StartAt, start' = [start EXCEPT ![c] = new],
           new.pc # "idle", new.pc = "init" => new.left # <<>>, UNCHANGED <<order, known, byHand, stopping, stop, run>>,
           ready \subseteq ready', ready' \subseteq Stages, enabled' \subseteq enabled,
           started' \in BOOLEAN, subs' \in Nat,
           ~stopping /\ new.pc = "init" => enabled' \subseteq Prepared' \cup ToSet(new.left),
           subs' = subs \/ (~stopping => enabled' \subseteq Prepared')
    PROVE  PipelineInv'
<1>1. /\ order \in Seq(Stages) /\ enabled \subseteq Stages /\ known \subseteq Stages
      /\ byHand \subseteq Stages /\ ready \subseteq Stages
      /\ started \in BOOLEAN /\ stopping \in BOOLEAN /\ subs \in Nat
      /\ start \in [Starters -> StartAt] /\ stop \in StopAt /\ run \in [Runs -> RunAt]
  BY PipelineTypes DEF PipelineInv
<1>2. start' \in [Starters -> StartAt] /\ start'[c] = new /\ \A d \in Starters \ {c} : start'[d] = start[d]
  BY <1>1
<1>3. PipelineTypeOK'
  BY <1>1, <1>2 DEF PipelineTypeOK, StartAt, StopAt, RunAt
<1>4. OrderIsSound'
  BY DEF PipelineInv, OrderIsSound, NoneTwice, ToSet
<1>5. Prepared \subseteq Prepared'
  BY DEF Prepared
<1>6. StartsPrepare'
  <2>1. (stop.pc # "idle" => stopping)' /\ (stop.pc = "shut" => stop.left # <<>>)' /\ ~Untouched'
    BY <1>2 DEF PipelineInv, StartsPrepare, Untouched
  <2>4. \A d \in Starters : start'[d].pc = "init" => start'[d].left # <<>>
    BY <1>2 DEF PipelineInv, StartsPrepare
  <2>2. ASSUME ~stopping, NEW d \in Starters, start'[d].pc = "init"
        PROVE  enabled' \subseteq Prepared' \cup ToSet(start'[d].left)
    <3>1. CASE d = c
      BY <1>2, <2>2, <3>1
    <3>2. CASE d # c
      <4>1. start'[d] = start[d]
        BY <1>2, <3>2
      <4>2. enabled \subseteq Prepared \cup ToSet(start[d].left)
        BY <2>2, <4>1 DEF PipelineInv, StartsPrepare
      <4> QED
        BY <1>5, <4>1, <4>2
    <3> QED
      BY <3>1, <3>2
  <2>3. ASSUME ~stopping, subs' > 0 PROVE enabled' \subseteq Prepared'
    <3>1. CASE subs' = subs
      <4>1. enabled \subseteq Prepared
        BY <2>3, <3>1 DEF PipelineInv, StartsPrepare
      <4> QED
        BY <1>5, <4>1
    <3> QED
      BY <2>3, <3>1
  <2> QED
    BY <2>1, <2>2, <2>3, <2>4 DEF StartsPrepare, ToSet
<1>7. \A r \in Runs : (RunIsSound(run[r]) /\ RunIsPrepared(run[r]))'
  BY <1>5 DEF PipelineInv, RunIsSound, RunIsPrepared, UnderWay, NoneTwice
<1> QED
  BY <1>3, <1>4, <1>6, <1>7 DEF PipelineInv

\* Proceed(c, left), when everything enabled is prepared but for what is left.
LEMMA ProceedKeeps ==
    ASSUME PipelineInv, NEW c \in Starters, NEW left \in Seq(Stages), Proceed(c, left),
           UNCHANGED <<order, known, byHand, stopping, stop, run>>,
           ready \subseteq ready', ready' \subseteq Stages, enabled' \subseteq enabled,
           ~stopping => enabled' \subseteq Prepared' \cup ToSet(left)
    PROVE  PipelineInv'
<1>1. PICK new : new = [pc |-> IF left = <<>> THEN "done" ELSE "init", left |-> left]
  OBVIOUS
<1>2. new \in StartAt /\ new.left = left /\ new.pc # "idle" /\ start' = [start EXCEPT ![c] = new]
  BY <1>1 DEF StartAt, Proceed
<1>3. started \in BOOLEAN /\ subs \in Nat
  BY PipelineTypes DEF PipelineInv
<1>4. CASE left = <<>>
  <2>1. subs' = subs + 1 /\ started' = TRUE
    BY <1>4 DEF Proceed
  <2>2. ToSet(left) = {}
    BY <1>4 DEF ToSet
  <2>3. subs' \in Nat /\ started' \in BOOLEAN /\ new.pc = "done"
    BY <1>1, <1>3, <1>4, <2>1
  <2>4. ~stopping => enabled' \subseteq Prepared'
    BY <2>2
  <2> QED
    BY <1>2, <2>3, <2>4, StartSteps
<1>5. CASE left # <<>>
  <2>1. subs' = subs /\ started' = started
    BY <1>5 DEF Proceed
  <2>2. new.left # <<>> /\ subs' \in Nat /\ started' \in BOOLEAN
    BY <1>2, <1>3, <1>5, <2>1
  <2> QED
    BY <1>2, <2>1, <2>2, StartSteps
<1> QED
  BY <1>4, <1>5

LEMMA StartKeeps ==
    ASSUME PipelineInv, NEW c \in Starters, Start(c) \/ Initialize(c) PROVE PipelineInv'
<1>1. /\ order \in Seq(Stages) /\ enabled \subseteq Stages /\ ready \subseteq Stages
      /\ start \in [Starters -> StartAt] /\ enabled \subseteq ToSet(order)
      /\ started \in BOOLEAN /\ subs \in Nat
  BY PipelineTypes DEF PipelineInv, OrderIsSound
<1>2. CASE Start(c)
  <2>1. Proceed(c, order) /\ UNCHANGED <<order, enabled, known, byHand, ready, stopping, stop, run>>
    BY <1>2 DEF Start, registry
  <2>2. enabled' \subseteq Prepared' \cup ToSet(order)
    BY <1>1, <2>1
  <2> QED
    BY <1>1, <2>1, <2>2, ProceedKeeps
<1>3. CASE Initialize(c)
  <2>1. UNCHANGED <<order, known, byHand, stopping, stop, run>> /\ start[c].pc = "init"
    BY <1>3 DEF Initialize
  <2>2. PICK left \in Seq(Stages) : left = start[c].left
    BY <1>1 DEF StartAt
  <2>3. ~stopping => enabled \subseteq Prepared \cup ToSet(left)
    BY <2>1, <2>2 DEF PipelineInv, StartsPrepare
  <2>4. CASE start' = [start EXCEPT ![c] = [pc |-> "done", left |-> <<>>]] /\ UNCHANGED <<ready, enabled, subs, started>>
    <3>1. PICK new : new = [pc |-> "done", left |-> <<>>]
      OBVIOUS
    <3>2. new \in StartAt /\ new.pc = "done" /\ start' = [start EXCEPT ![c] = new]
      BY <2>4, <3>1 DEF StartAt
    <3> QED
      BY <1>1, <2>1, <2>4, <3>2, StartSteps
  <2>5. PICK s : s = Head(left)
    OBVIOUS
  <2>6. ASSUME left # <<>>, Proceed(c, Tail(left)),
               \/ ready' = ready \cup {s} /\ enabled' = enabled
               \/ ready' = ready /\ enabled' = enabled \ {s}
        PROVE  PipelineInv'
    <3>1. Tail(left) \in Seq(Stages) /\ s \in Stages /\ ToSet(left) = ToSet(Tail(left)) \cup {s}
      <4>1. Tail(left) \in Seq(Stages) /\ s \in Stages /\ Len(Tail(left)) = Len(left) - 1 /\ Len(left) \in Nat
            /\ Len(left) > 0
        BY <2>5, <2>6
      <4>2. ASSUME NEW i \in 1 .. Len(left) PROVE left[i] \in ToSet(Tail(left)) \cup {s}
        <5>1. CASE i = 1
          BY <2>5, <2>6, <5>1
        <5>2. CASE i # 1
          <6>1. i - 1 \in 1 .. Len(Tail(left)) /\ Tail(left)[i - 1] = left[i]
            BY <2>6, <4>1, <5>2
          <6>2. left[i] \in {Tail(left)[k] : k \in 1 .. Len(Tail(left))}
            BY <6>1
          <6>3. DOMAIN Tail(left) = 1 .. Len(Tail(left))
            BY <4>1
          <6> QED
            BY <6>2, <6>3 DEF ToSet
        <5> QED
          BY <5>1, <5>2
      <4>3. ASSUME NEW i \in 1 .. Len(Tail(left)) PROVE Tail(left)[i] \in ToSet(left)
        <5>1. i + 1 \in 1 .. Len(left) /\ Tail(left)[i] = left[i + 1]
          BY <2>6, <4>1
        <5> QED
          BY <5>1 DEF ToSet
      <4>4. s \in ToSet(left)
        BY <2>5, <2>6, <4>1 DEF ToSet
      <4> QED
        BY <4>1, <4>2, <4>3, <4>4 DEF ToSet
    <3>2. ready \subseteq ready' /\ ready' \subseteq Stages /\ enabled' \subseteq enabled
      BY <1>1, <2>6, <3>1
    <3>3. Prepared' = ready' \cup byHand
      BY <2>1 DEF Prepared
    <3>4. ~stopping => enabled' \subseteq Prepared' \cup ToSet(Tail(left))
      BY <2>3, <2>6, <3>1, <3>3 DEF Prepared
    <3> QED
      BY <2>1, <2>6, <3>1, <3>2, <3>4, ProceedKeeps
  <2>7. left # <<>>
    BY <2>1, <2>2 DEF PipelineInv, StartsPrepare
  <2> QED
    BY <1>3, <2>2, <2>4, <2>5, <2>6, <2>7 DEF Initialize, Without
<1> QED
  BY <1>2, <1>3

-----------------------------------------------------------------------------
\* Run r goes on.
LEMMA RunSteps ==
    ASSUME PipelineInv, NEW r \in Runs, NEW new \in RunAt, run' = [run EXCEPT ![r] = new],
           UNCHANGED <<registry, lifecycle, ready>>, RunIsSound(new), RunIsPrepared(new)
    PROVE  PipelineInv'
<1>1. /\ order \in Seq(Stages) /\ enabled \subseteq Stages /\ known \subseteq Stages
      /\ byHand \subseteq Stages /\ ready \subseteq Stages
      /\ started \in BOOLEAN /\ stopping \in BOOLEAN /\ subs \in Nat
      /\ start \in [Starters -> StartAt] /\ stop \in StopAt /\ run \in [Runs -> RunAt]
  BY PipelineTypes DEF PipelineInv
<1>2. UNCHANGED <<order, enabled, known, byHand, started, stopping, subs, start, stop, ready>>
  BY DEF registry, lifecycle
<1>3. run' \in [Runs -> RunAt] /\ run'[r] = new /\ \A q \in Runs \ {r} : run'[q] = run[q]
  BY <1>1
<1>4. PipelineTypeOK'
  BY <1>1, <1>2, <1>3 DEF PipelineTypeOK, StartAt, StopAt, RunAt
<1>5. OrderIsSound'
  BY <1>2 DEF PipelineInv, OrderIsSound, NoneTwice, ToSet
<1>6. Prepared' = Prepared
  BY <1>2 DEF Prepared
<1>7. StartsPrepare'
  BY <1>2, <1>6 DEF PipelineInv, StartsPrepare, Untouched, ToSet
<1>8. ASSUME NEW q \in Runs PROVE RunIsSound(run'[q]) /\ RunIsPrepared(run[q])'
  <2>1. CASE q = r
    <3>1. RunIsPrepared(run[q])'
      BY <1>2, <1>3, <1>6, <2>1 DEF RunIsPrepared
    <3> QED
      BY <1>3, <2>1, <3>1
  <2>2. CASE q # r
    <3>1. run'[q] = run[q]
      BY <1>3, <2>2
    <3>2. RunIsPrepared(run[q])'
      BY <1>2, <1>6, <3>1 DEF PipelineInv, RunIsPrepared
    <3> QED
      BY <3>1, <3>2 DEF PipelineInv
  <2> QED
    BY <2>1, <2>2
<1>9. \A q \in Runs : (RunIsSound(run[q]) /\ RunIsPrepared(run[q]))'
  BY <1>8 DEF RunIsSound, UnderWay, NoneTwice
<1> QED
  BY <1>4, <1>5, <1>7, <1>9 DEF PipelineInv

LEMMA OverKeeps ==
    ASSUME PipelineInv, NEW r \in Runs, Over(r), UNCHANGED <<registry, lifecycle, ready>>
    PROVE  PipelineInv'
<1>1. PICK new : new = [NoRun EXCEPT !.pc = "done"]
  OBVIOUS
<1>2. new \in RunAt /\ ~UnderWay(new) /\ RunIsSound(new)
  BY <1>1, NoRunFacts
<1>3. RunIsPrepared(new)
  BY <1>2 DEF RunIsPrepared
<1>4. run' = [run EXCEPT ![r] = new]
  BY <1>1 DEF Over
<1> QED
  BY <1>2, <1>3, <1>4, RunSteps

LEMMA CallingFacts ==
    ASSUME NEW w \in RunAt, NEW i \in 1 .. Len(w.plan), NEW new, new = Calling(w, i)
    PROVE  /\ new \in RunAt /\ new.pc = "stage" /\ new.at = i /\ new.plan = w.plan
           /\ new.attempt = w.attempt /\ new.passed = w.passed
           /\ new.tries[w.plan[i]] = w.tries[w.plan[i]] + 1
           /\ \A s \in Stages \ {w.plan[i]} : new.tries[s] = w.tries[s]
<1>1. PICK s \in Stages : s = w.plan[i]
  BY DEF RunAt
<1>2. w.tries \in [Stages -> Nat] /\ i \in Nat
  BY DEF RunAt
<1>3. PICK t : t = [w.tries EXCEPT ![s] = @ + 1]
  OBVIOUS
<1>6. t \in [Stages -> Nat] /\ t[s] = w.tries[s] + 1 /\ \A u \in Stages \ {s} : t[u] = w.tries[u]
  BY <1>2, <1>3
<1>4. new = [w EXCEPT !.pc = "stage", !.at = i, !.tries = t]
  BY <1>1, <1>3 DEF Calling, RunAt
<1>5. new \in RunAt /\ new.pc = "stage" /\ new.at = i /\ new.plan = w.plan
      /\ new.attempt = w.attempt /\ new.passed = w.passed /\ new.tries = t
  BY <1>2, <1>4, <1>6 DEF RunAt
<1> QED
  BY <1>1, <1>5, <1>6

\* The next stage is called, or the run is over, when all before it have passed the event on and
\* none from it on was called.
LEMMA CallKeeps ==
    ASSUME PipelineInv, NEW r \in Runs, NEW w \in RunAt, NEW i \in 1 .. Len(w.plan) + 1,
           Call(r, w, i), UNCHANGED <<registry, lifecycle, ready>>,
           NoneTwice(w.plan),
           \A k \in 1 .. Len(w.plan) : /\ k < i => w.plan[k] \in w.passed
                                       /\ k >= i => w.tries[w.plan[k]] = 0
                                       /\ ~stopping => w.plan[k] \in Prepared,
           \A s \in Stages : w.tries[s] <= MaxRetries + 1
    PROVE  PipelineInv'
<1>1. Len(w.plan) \in Nat /\ w.plan \in Seq(Stages) /\ w.tries \in [Stages -> Nat]
  BY DEF RunAt
<1>2. CASE i > Len(w.plan)
  BY <1>2, OverKeeps DEF Call
<1>3. CASE ~(i > Len(w.plan))
  <2>1. i \in 1 .. Len(w.plan)
    BY <1>1, <1>3
  <2>2. PICK v : v = [w EXCEPT !.attempt = 0]
    OBVIOUS
  <2>3. v \in RunAt /\ v.plan = w.plan /\ v.attempt = 0 /\ v.passed = w.passed /\ v.tries = w.tries
    BY <2>2 DEF RunAt
  <2>4. PICK new : new = Calling(v, i)
    OBVIOUS
  <2>5. run' = [run EXCEPT ![r] = new]
    BY <1>3, <2>2, <2>4 DEF Call
  <2>6. /\ new \in RunAt /\ new.pc = "stage" /\ new.at = i /\ new.plan = w.plan
        /\ new.attempt = 0 /\ new.passed = w.passed
        /\ new.tries[w.plan[i]] = w.tries[w.plan[i]] + 1
        /\ \A s \in Stages \ {w.plan[i]} : new.tries[s] = w.tries[s]
    BY <2>1, <2>3, <2>4, CallingFacts
  <2>7. RunIsSound(new)
    <3>1. new.tries[w.plan[i]] = 1 /\ w.plan[i] \in Stages
      BY <1>1, <2>1, <2>6
    <3>2. \A s \in Stages : new.tries[s] <= MaxRetries + 1
      BY <2>6, <3>1
    <3>3. ASSUME NEW k \in 1 .. Len(w.plan), k > i PROVE new.tries[w.plan[k]] = 0
      <4>1. w.plan[k] # w.plan[i] /\ w.plan[k] \in Stages
        BY <1>1, <2>1, <3>3 DEF NoneTwice
      <4> QED
        BY <2>1, <2>6, <3>3, <4>1
    <3>4. \A k \in 1 .. Len(w.plan) : k < i => w.plan[k] \in new.passed
      BY <2>6
    <3>5. UnderWay(new)
      BY <2>6 DEF UnderWay
    <3> QED
      BY <2>1, <2>6, <3>1, <3>2, <3>3, <3>4, <3>5 DEF RunIsSound
  <2>8. RunIsPrepared(new)
    BY <2>6 DEF RunIsPrepared
  <2> QED
    BY <2>5, <2>6, <2>7, <2>8, RunSteps
<1> QED
  BY <1>2, <1>3

LEMMA HandleKeeps ==
    ASSUME PipelineInv, NEW r \in Runs, Handle(r) PROVE PipelineInv'
<1>1. PICK plan : plan = Plan
  OBVIOUS
<1>2. order \in Seq(Stages) /\ NoneTwice(order) /\ subs > 0 /\ ~stopping
  BY PipelineTypes DEF PipelineInv, OrderIsSound, Handle
<1>3. plan \in Seq(Stages) /\ NoneTwice(plan) /\ ToSet(plan) = ToSet(order) \cap enabled
  BY <1>1, <1>2, SiftedOnce DEF Plan
<1>4. enabled \subseteq Prepared
  BY <1>2 DEF PipelineInv, StartsPrepare
<1>5. PICK w : w = [NoRun EXCEPT !.plan = plan]
  OBVIOUS
<1>6. w \in RunAt /\ w.plan = plan /\ w.tries = [s \in Stages |-> 0]
  BY <1>3, <1>5, NoRunFacts DEF RunAt
<1>7. Call(r, w, 1) /\ UNCHANGED <<registry, lifecycle, ready>>
  BY <1>1, <1>5 DEF Handle
<1>8. Len(plan) \in Nat /\ \A k \in 1 .. Len(plan) : plan[k] \in ToSet(plan) /\ plan[k] \in Stages
  BY <1>3 DEF ToSet
<1>9. \A k \in 1 .. Len(w.plan) : /\ k < 1 => w.plan[k] \in w.passed
                                  /\ k >= 1 => w.tries[w.plan[k]] = 0
                                  /\ ~stopping => w.plan[k] \in Prepared
  BY <1>3, <1>4, <1>6, <1>8
<1>10. (\A s \in Stages : w.tries[s] <= MaxRetries + 1) /\ 1 \in 1 .. Len(w.plan) + 1
  BY <1>6, <1>8
<1> QED
  BY <1>3, <1>6, <1>7, <1>9, <1>10, CallKeeps

LEMMA RunTypes ==
    ASSUME PipelineInv, NEW r \in Runs
    PROVE  run \in [Runs -> RunAt] /\ run[r] \in RunAt /\ RunIsSound(run[r]) /\ RunIsPrepared(run[r])
  BY PipelineTypes DEF PipelineInv

LEMMA PassOnKeeps ==
    ASSUME PipelineInv, NEW r \in Runs, PassOn(r) PROVE PipelineInv'
<1>1. PICK w : w = run[r]
  OBVIOUS
<1>2. w \in RunAt /\ RunIsSound(w) /\ RunIsPrepared(w) /\ UnderWay(w)
  BY <1>1, RunTypes DEF PassOn, UnderWay
<1>3. CASE w.cancelled
  BY <1>1, <1>3, OverKeeps DEF PassOn
<1>4. CASE ~w.cancelled
  <2>1. PICK v : v = [w EXCEPT !.passed = @ \cup {w.plan[w.at]}]
    OBVIOUS
  <2>2. Call(r, v, w.at + 1) /\ UNCHANGED <<registry, lifecycle, ready>>
    BY <1>1, <1>4, <2>1 DEF PassOn
  <2>3. w.plan \in Seq(Stages) /\ Len(w.plan) \in Nat /\ w.at \in 1 .. Len(w.plan) /\ NoneTwice(w.plan)
    BY <1>2 DEF RunAt, RunIsSound
  <2>4. v \in RunAt /\ v.plan = w.plan /\ v.tries = w.tries /\ v.passed = w.passed \cup {w.plan[w.at]}
    <3>1. w.plan[w.at] \in Stages
      BY <2>3
    <3> QED
      BY <1>2, <2>1, <3>1 DEF RunAt
  <2>5. ASSUME NEW k \in 1 .. Len(v.plan)
        PROVE  /\ k < w.at + 1 => v.plan[k] \in v.passed
               /\ k >= w.at + 1 => v.tries[v.plan[k]] = 0
               /\ ~stopping => v.plan[k] \in Prepared
    <3>1. k \in 1 .. Len(w.plan) /\ (k < w.at + 1 => k < w.at \/ k = w.at) /\ (k >= w.at + 1 => k > w.at)
      BY <2>3, <2>4
    <3> QED
      BY <1>2, <2>4, <3>1 DEF RunIsSound, RunIsPrepared
  <2>6. \A s \in Stages : v.tries[s] <= MaxRetries + 1
    BY <1>2, <2>4 DEF RunIsSound
  <2>7. w.at + 1 \in 1 .. Len(v.plan) + 1
    BY <2>3, <2>4
  <2> QED
    BY <2>2, <2>3, <2>4, <2>5, <2>6, <2>7, CallKeeps
<1> QED
  BY <1>3, <1>4

LEMMA WaitKeeps ==
    ASSUME PipelineInv, NEW r \in Runs, Cancel(r) \/ TryAgain(r) PROVE PipelineInv'
<1>1. PICK w : w = run[r]
  OBVIOUS
<1>2. w \in RunAt /\ RunIsSound(w) /\ RunIsPrepared(w) /\ UnderWay(w) /\ run \in [Runs -> RunAt]
  BY <1>1, RunTypes DEF Cancel, TryAgain, UnderWay
<1>3. UNCHANGED <<registry, lifecycle, ready>>
  BY DEF Cancel, TryAgain
<1>4. CASE Cancel(r)
  <2>1. PICK new : new = [w EXCEPT !.cancelled = TRUE]
    OBVIOUS
  <2>2. /\ new \in RunAt /\ new.pc = w.pc /\ new.plan = w.plan /\ new.at = w.at /\ new.passed = w.passed
        /\ new.attempt = w.attempt /\ new.tries = w.tries
    BY <1>2, <2>1 DEF RunAt
  <2>3. run' = [run EXCEPT ![r] = new]
    BY <1>1, <1>2, <1>4, <2>1 DEF Cancel
  <2>4. RunIsSound(new) /\ RunIsPrepared(new)
    BY <1>2, <2>2 DEF RunIsSound, RunIsPrepared, UnderWay
  <2> QED
    BY <1>3, <2>2, <2>3, <2>4, RunSteps
<1>5. CASE TryAgain(r) /\ w.attempt < MaxRetries
  <2>1. PICK new : new = [w EXCEPT !.pc = "sleep"]
    OBVIOUS
  <2>2. /\ new \in RunAt /\ new.pc = "sleep" /\ new.plan = w.plan /\ new.at = w.at /\ new.passed = w.passed
        /\ new.attempt = w.attempt /\ new.tries = w.tries
    BY <1>2, <2>1 DEF RunAt
  <2>3. run' = [run EXCEPT ![r] = new]
    BY <1>1, <1>2, <1>5, <2>1 DEF TryAgain
  <2>4. RunIsSound(new) /\ RunIsPrepared(new)
    BY <1>2, <1>5, <2>2 DEF RunIsSound, RunIsPrepared, UnderWay
  <2> QED
    BY <1>3, <2>2, <2>3, <2>4, RunSteps
<1>6. CASE TryAgain(r) /\ ~(w.attempt < MaxRetries)
  BY <1>1, <1>3, <1>6, OverKeeps DEF TryAgain, Exhausted
<1> QED
  BY <1>4, <1>5, <1>6

LEMMA WakeKeeps ==
    ASSUME PipelineInv, NEW r \in Runs, Wake(r) PROVE PipelineInv'
<1>1. PICK w : w = run[r]
  OBVIOUS
<1>2. /\ w \in RunAt /\ RunIsSound(w) /\ RunIsPrepared(w) /\ UnderWay(w) /\ run \in [Runs -> RunAt]
      /\ w.pc = "sleep"
  BY <1>1, RunTypes DEF Wake, UnderWay
<1>3. UNCHANGED <<registry, lifecycle, ready>>
  BY DEF Wake
<1>4. PICK v : v = [w EXCEPT !.attempt = @ + 1]
  OBVIOUS
<1>5. /\ v \in RunAt /\ v.plan = w.plan /\ v.tries = w.tries /\ v.passed = w.passed
      /\ v.attempt = w.attempt + 1 /\ w.attempt \in Nat /\ w.tries \in [Stages -> Nat]
  <2>1. PICK n \in Nat : n = w.attempt + 1
    BY <1>2 DEF RunAt
  <2>2. v = [w EXCEPT !.attempt = n]
    BY <1>2, <1>4, <2>1 DEF RunAt
  <2>3. v \in RunAt /\ v.plan = w.plan /\ v.tries = w.tries /\ v.passed = w.passed /\ v.attempt = n
    BY <1>2, <2>2 DEF RunAt
  <2> QED
    BY <1>2, <2>1, <2>3 DEF RunAt
<1>6. PICK i : i = w.at
  OBVIOUS
<1>7. w.plan \in Seq(Stages) /\ Len(w.plan) \in Nat /\ i \in 1 .. Len(w.plan) /\ NoneTwice(w.plan)
  BY <1>2, <1>6 DEF RunAt, RunIsSound
<1>8. PICK new : new = Calling(v, i)
  OBVIOUS
<1>9. run' = [run EXCEPT ![r] = new]
  <2>1. run' = [run EXCEPT ![r] = Calling([run[r] EXCEPT !.attempt = @ + 1], run[r].at)]
    BY <1>2 DEF Wake
  <2> QED
    BY <1>1, <1>4, <1>6, <1>8, <2>1
<1>10. /\ new \in RunAt /\ new.pc = "stage" /\ new.at = i /\ new.plan = w.plan
       /\ new.attempt = w.attempt + 1 /\ new.passed = w.passed
       /\ new.tries[w.plan[i]] = w.tries[w.plan[i]] + 1
       /\ \A s \in Stages \ {w.plan[i]} : new.tries[s] = w.tries[s]
  BY <1>5, <1>7, <1>8, CallingFacts, SMTT(30)
<1>11. RunIsSound(new)
  <2>1. w.tries[w.plan[i]] = w.attempt + 1 /\ w.attempt < MaxRetries /\ w.plan[i] \in Stages
    BY <1>2, <1>6, <1>7 DEF RunIsSound
  <2>2. new.tries[w.plan[i]] = (w.attempt + 1) + 1 /\ (w.attempt + 1) + 1 <= MaxRetries + 1
    BY <1>5, <1>10, <2>1
  <2>3. \A s \in Stages : new.tries[s] <= MaxRetries + 1
    BY <1>2, <1>10, <2>2 DEF RunIsSound
  <2>4. ASSUME NEW k \in 1 .. Len(w.plan), k > i PROVE new.tries[w.plan[k]] = 0
    <3>1. w.plan[k] # w.plan[i] /\ w.plan[k] \in Stages
      BY <1>7, <2>4 DEF NoneTwice
    <3>2. w.tries[w.plan[k]] = 0
      BY <1>2, <1>6, <2>4 DEF RunIsSound
    <3> QED
      BY <1>10, <3>1, <3>2
  <2>5. \A k \in 1 .. Len(w.plan) : k < i => w.plan[k] \in new.passed
    BY <1>2, <1>6, <1>10 DEF RunIsSound
  <2>6. UnderWay(new) /\ new.attempt <= MaxRetries
    BY <1>5, <1>10, <2>1 DEF UnderWay
  <2> QED
    BY <1>7, <1>10, <2>2, <2>3, <2>4, <2>5, <2>6 DEF RunIsSound
<1>12. RunIsPrepared(new)
  BY <1>2, <1>10 DEF RunIsPrepared
<1> QED
  BY <1>3, <1>9, <1>10, <1>11, <1>12, RunSteps

\* Once the engine stops, only that the calls were in order matters.
LEMMA StopKeeps ==
    ASSUME PipelineInv, Shutdown \/ ShutStage PROVE PipelineInv'
<1>1. /\ order \in Seq(Stages) /\ enabled \subseteq Stages /\ known \subseteq Stages
      /\ byHand \subseteq Stages /\ ready \subseteq Stages
      /\ started \in BOOLEAN /\ stopping \in BOOLEAN /\ subs \in Nat
      /\ start \in [Starters -> StartAt] /\ stop \in StopAt /\ run \in [Runs -> RunAt]
  BY PipelineTypes DEF PipelineInv
<1>2. UNCHANGED <<order, enabled, known, byHand, start, run>>
  BY DEF Shutdown, ShutStage, registry
<1>3. stopping' = TRUE /\ ready' \subseteq ready /\ (subs' = 0 \/ subs' = subs)
  BY DEF Shutdown, ShutStage, PipelineInv, StartsPrepare, Unsubscribed
<1>4. PICK left \in Seq(Stages) : Shut(left)
  <2>1. CASE Shutdown
    <3>1. Reverse(order) \in Seq(Stages)
      BY <1>1 DEF Reverse
    <3> QED
      BY <2>1, <3>1 DEF Shutdown
  <2>2. CASE ShutStage
    <3>1. stop.left \in Seq(Stages) /\ stop.left # <<>>
      BY <1>1, <2>2 DEF StopAt, ShutStage, PipelineInv, StartsPrepare
    <3>2. Tail(stop.left) \in Seq(Stages)
      BY <3>1
    <3> QED
      BY <2>2, <3>2 DEF ShutStage
  <2> QED
    BY <2>1, <2>2
<1>5. /\ stop' \in StopAt /\ (stop'.pc = "shut" => stop'.left # <<>>) /\ started' \in BOOLEAN
  BY <1>1, <1>4 DEF Shut, StopAt
<1>6. PipelineTypeOK'
  BY <1>1, <1>2, <1>3, <1>5 DEF PipelineTypeOK, StartAt, StopAt, RunAt
<1>7. OrderIsSound'
  BY <1>2 DEF PipelineInv, OrderIsSound, NoneTwice, ToSet
<1>8. StartsPrepare'
  BY <1>2, <1>3, <1>5 DEF PipelineInv, StartsPrepare, Untouched
<1>9. \A r \in Runs : (RunIsSound(run[r]) /\ RunIsPrepared(run[r]))'
  BY <1>2, <1>3 DEF PipelineInv, RunIsSound, RunIsPrepared, UnderWay, NoneTwice
<1> QED
  BY <1>6, <1>7, <1>8, <1>9 DEF PipelineInv

LEMMA NextPipeline == PipelineInv /\ [PipelineNext]_pipelineVars => PipelineInv'
<1> SUFFICES ASSUME PipelineInv, [PipelineNext]_pipelineVars PROVE PipelineInv'
  OBVIOUS
<1>1. ASSUME NEW r \in Runs, Halt(r) PROVE PipelineInv'
  BY <1>1, OverKeeps DEF Halt
<1>2. CASE UNCHANGED pipelineVars
  <2>1. UNCHANGED <<order, enabled, known, byHand, started, stopping, subs, start, stop, ready, run>>
    BY <1>2 DEF pipelineVars, registry, lifecycle
  <2>2. PipelineTypeOK' /\ OrderIsSound'
    BY <2>1 DEF PipelineInv, PipelineTypeOK, OrderIsSound, NoneTwice, ToSet
  <2>3. StartsPrepare'
    BY <2>1 DEF PipelineInv, StartsPrepare, Untouched, Prepared, ToSet
  <2>4. \A r \in Runs : (RunIsSound(run[r]) /\ RunIsPrepared(run[r]))'
    BY <2>1 DEF PipelineInv, RunIsSound, RunIsPrepared, UnderWay, NoneTwice, Prepared
  <2> QED
    BY <2>2, <2>3, <2>4 DEF PipelineInv
<1> QED
  BY <1>1, <1>2, RegistryKeeps, StartKeeps, StopKeeps, HandleKeeps, PassOnKeeps, WaitKeeps, WakeKeeps
  DEF PipelineNext, Step

\* A stage sees an event after every stage before it passed it on, at most MaxRetries + 1 times,
\* and prepared: for any stages, callers of start() and events, however these cross with each other
\* and with shutdown() (StageRegistry, PipelineEngine.start, _run_pipeline, _execute_stage).
THEOREM StagesRespected == PipelineSpec => []StagesAreRespected
<1>1. PipelineInv => StagesAreRespected
  <2> SUFFICES ASSUME PipelineInv, NEW r \in Runs
               PROVE  /\ \A i, j \in DOMAIN run[r].plan :
                             i < j /\ run[r].tries[run[r].plan[j]] > 0 => run[r].plan[i] \in run[r].passed
                      /\ \A s \in Stages : run[r].tries[s] <= MaxRetries + 1
                      /\ run[r].pc = "stage" /\ ~stopping
                             => run[r].plan[run[r].at] \in ready \cup byHand
    BY DEF StagesAreRespected, PassedOn, CalledWhenReady
  <2>1. PICK w \in RunAt : w = run[r] /\ RunIsSound(w) /\ RunIsPrepared(w)
    BY RunTypes
  <2>2. w.plan \in Seq(Stages) /\ Len(w.plan) \in Nat /\ DOMAIN w.plan = 1 .. Len(w.plan)
    BY DEF RunAt
  <2>3. ASSUME NEW i \in 1 .. Len(w.plan), NEW j \in 1 .. Len(w.plan), i < j, w.tries[w.plan[j]] > 0
        PROVE  w.plan[i] \in w.passed
    <3>1. w.plan[j] \in Stages
      BY <2>2
    <3>2. UnderWay(w)
      BY <2>1, <2>3, <3>1 DEF RunIsSound
    <3>3. ~(j > w.at) /\ w.at \in Nat
      BY <2>1, <2>2, <2>3, <3>2 DEF RunIsSound
    <3>4. i < w.at
      BY <2>3, <3>3
    <3> QED
      BY <2>1, <3>2, <3>4 DEF RunIsSound
  <2>4. w.pc = "stage" /\ ~stopping => w.plan[w.at] \in ready \cup byHand
    BY <2>1 DEF RunIsSound, RunIsPrepared, UnderWay, Prepared
  <2>5. \A s \in Stages : w.tries[s] <= MaxRetries + 1
    BY <2>1 DEF RunIsSound
  <2> QED
    BY <2>1, <2>2, <2>3, <2>4, <2>5
<1> QED
  BY <1>1, InitPipeline, NextPipeline, PTL DEF PipelineSpec

\* Every variable of the pipeline keeps its shape, subscriptions included, which are counted up and
\* down by starts and shutdowns that cross: StageRegistry and PipelineEngine.
THEOREM PipelineTypeCorrect == PipelineSpec => []PipelineTypeOK
<1>1. PipelineInv => PipelineTypeOK
  BY DEF PipelineInv
<1> QED
  BY <1>1, InitPipeline, NextPipeline, PTL DEF PipelineSpec

HIDE PipelineAssumption

-----------------------------------------------------------------------------
(* The agent's configuration.                                              *)

ConfigInv ==
    /\ file \in Files /\ loadedFrom \in Files \cup {NoFile} /\ environment \in Environments
    /\ cache \in {NoSettings, Loaded(loadedFrom, environment)}
    /\ app \in {"new", "running", "exited"}

\* A value of a tree of values is one of them, and each of them is there.
LEMMA TreesHoldTheirValues ==
    ASSUME NEW values, \A p \in DOMAIN values : p \in Seq(STRING) /\ p # <<>>
    PROVE  /\ DOMAIN values \subseteq DOMAIN TreeOf(values)
           /\ \A p \in DOMAIN values : TreeOf(values)[p] = values[p]
           /\ \A p \in DOMAIN TreeOf(values) :
                  ~TreeOf(values)[p].section => p \in DOMAIN values
<1>1. ASSUME NEW p \in DOMAIN values PROVE p \in LeadingTo(p)
  <2>1. p \in Seq(STRING) /\ Len(p) \in 1 .. Len(p)
    OBVIOUS
  <2>2. p = SubSeq(p, 1, Len(p))
    BY <2>1
  <2> QED
    BY <2>1, <2>2 DEF LeadingTo
<1>2. DOMAIN TreeOf(values) = UNION {LeadingTo(q) : q \in DOMAIN values}
  BY DEF TreeOf
<1>3. DOMAIN values \subseteq DOMAIN TreeOf(values)
  BY <1>1, <1>2
<1>4. \A p \in DOMAIN TreeOf(values) :
          TreeOf(values)[p] = IF p \in DOMAIN values THEN values[p] ELSE Section
  BY <1>2 DEF TreeOf
<1> QED
  BY <1>3, <1>4 DEF Section

\* The schema, the defaults and the variables of an environment, as trees.
LEMMA TheTrees ==
    /\ \A p \in Fields : /\ p \in DOMAIN CONFIG_SCHEMA /\ CONFIG_SCHEMA[p] = SchemaFields[p]
                         /\ ~CONFIG_SCHEMA[p].section
                         /\ p \in DOMAIN INTERNAL_DEFAULTS
                         /\ INTERNAL_DEFAULTS[p].from = "default"
    /\ \A env \in Environments :
           /\ \A p : Naming(p, env) # {} =>
                  /\ p \in DOMAIN Overrides(env)
                  /\ ~Overrides(env)[p].section /\ Overrides(env)[p].from = "env"
           /\ \A p \in DOMAIN Overrides(env) : ~Overrides(env)[p].section => Naming(p, env) # {}
<1>1. ASSUME NEW p \in Fields
      PROVE  /\ p \in DOMAIN CONFIG_SCHEMA /\ CONFIG_SCHEMA[p] = SchemaFields[p]
             /\ ~CONFIG_SCHEMA[p].section
  <2>1. \A q \in DOMAIN SchemaFields : q \in Seq(STRING) /\ q # <<>>
    BY ConfigAssumption DEF Fields, IsPath
  <2>2. DOMAIN SchemaFields \subseteq DOMAIN TreeOf(SchemaFields) /\ TreeOf(SchemaFields)[p] = SchemaFields[p]
    BY <2>1, TreesHoldTheirValues DEF Fields
  <2> QED
    BY <2>2, ConfigAssumption DEF CONFIG_SCHEMA, Fields
<1>2. ASSUME NEW p \in Fields
      PROVE  p \in DOMAIN INTERNAL_DEFAULTS /\ INTERNAL_DEFAULTS[p].from = "default"
  <2>1. PICK d : d = [q \in Fields |-> DefaultOf(SchemaFields[q])]
    OBVIOUS
  <2>2. \A q \in DOMAIN d : q \in Seq(STRING) /\ q # <<>>
    BY <2>1, ConfigAssumption DEF IsPath
  <2>3. p \in DOMAIN d /\ d[p] = DefaultOf(SchemaFields[p])
    BY <2>1
  <2>4. p \in DOMAIN TreeOf(d) /\ TreeOf(d)[p] = DefaultOf(SchemaFields[p])
    BY <2>2, <2>3, TreesHoldTheirValues
  <2> QED
    BY <2>1, <2>4 DEF INTERNAL_DEFAULTS, DefaultOf, Value
<1>3. ASSUME NEW env \in Environments
      PROVE  /\ \A p : Naming(p, env) # {} =>
                    /\ p \in DOMAIN Overrides(env)
                    /\ ~Overrides(env)[p].section /\ Overrides(env)[p].from = "env"
             /\ \A p \in DOMAIN Overrides(env) :
                    ~Overrides(env)[p].section => Naming(p, env) # {}
  <2>1. PICK d : d = [p \in {PathOf(env[i].variable) : i \in DOMAIN env} |->
                         ParseEnvValue(env[LastOf(Naming(p, env))])]
    OBVIOUS
  <2>2. DOMAIN d = {PathOf(env[i].variable) : i \in DOMAIN env}
    BY <2>1
  <2>3. \A p \in DOMAIN d : p \in Seq(STRING) /\ p # <<>>
    BY <2>2, ConfigAssumption DEF IsPath
  <2>4. \A p \in DOMAIN d : ~d[p].section /\ d[p].from = "env"
    BY <2>1 DEF ParseEnvValue, Value
  <2>5. Overrides(env) = TreeOf(d)
    BY <2>1 DEF Overrides
  <2>6. /\ DOMAIN d \subseteq DOMAIN TreeOf(d) /\ \A p \in DOMAIN d : TreeOf(d)[p] = d[p]
        /\ \A p \in DOMAIN TreeOf(d) : ~TreeOf(d)[p].section => p \in DOMAIN d
    BY <2>3, TreesHoldTheirValues
  <2>7. \A p : Naming(p, env) # {} <=> p \in DOMAIN d
    BY <2>2 DEF Naming
  <2> QED
    BY <2>4, <2>5, <2>6, <2>7
<1> QED
  BY <1>1, <1>2, <1>3

\* What two layers make together has at each path what the upper one has there, else what the
\* lower one has.
LEMMA MergeTakes ==
    ASSUME NEW base, NEW over, NEW p \in DOMAIN DeepMerge(base, over)
    PROVE  /\ p \in DOMAIN over => DeepMerge(base, over)[p] = over[p]
           /\ p \notin DOMAIN over => /\ p \in DOMAIN base
                                      /\ DeepMerge(base, over)[p] = base[p]
  BY DEF DeepMerge

\* What the three layers make, where the schema admits it, has at each field the value of the
\* highest layer that names the field.
LEMMA LayersAreOrdered ==
    ASSUME NEW f \in Files \cup {NoFile}, NEW env \in Environments, NEW config, config = MergedConfig(f, env),
           ValidateConfig(config, CONFIG_SCHEMA), NEW p \in Fields
    PROVE  /\ p \in DOMAIN config /\ ~config[p].section
           /\ config[p].from = IF Naming(p, env) # {} THEN "env"
                               ELSE IF p \in DOMAIN f.tree THEN "file" ELSE "default"
<1>1. p \in DOMAIN config /\ ~config[p].section
  BY TheTrees DEF ValidateConfig
<1>2. PICK both : both = DeepMerge(INTERNAL_DEFAULTS, f.tree)
  OBVIOUS
<1>3. config = DeepMerge(both, Overrides(env))
  BY <1>2 DEF MergedConfig
<1>4. CASE Naming(p, env) # {}
  <2>1. p \in DOMAIN Overrides(env) /\ Overrides(env)[p].from = "env"
    BY <1>4, TheTrees
  <2> QED
    BY <1>1, <1>3, <1>4, <2>1, MergeTakes
<1>5. CASE Naming(p, env) = {}
  <2>1. p \notin DOMAIN Overrides(env)
    BY <1>1, <1>3, <1>5, MergeTakes, TheTrees
  <2>2. p \in DOMAIN both /\ config[p] = both[p]
    BY <1>1, <1>3, <2>1, MergeTakes
  <2>3. CASE p \in DOMAIN f.tree
    <3>1. both[p] = f.tree[p]
      BY <1>2, <2>2, <2>3, MergeTakes
    <3>2. f \in Files
      <4>1. DOMAIN NoFile.tree = {}
        BY DEF NoFile, TreeOf
      <4> QED
        BY <2>3, <4>1
    <3>3. config[p].from = "file"
      BY <1>1, <2>2, <2>3, <3>1, <3>2, ConfigAssumption
    <3> QED
      BY <1>1, <1>5, <2>3, <3>3
  <2>4. CASE p \notin DOMAIN f.tree
    <3>1. both[p] = INTERNAL_DEFAULTS[p]
      BY <1>2, <2>2, <2>4, MergeTakes
    <3>2. config[p].from = "default"
      BY <2>2, <3>1, TheTrees
    <3> QED
      BY <1>1, <1>5, <2>4, <3>2
  <2> QED
    BY <2>3, <2>4
<1> QED
  BY <1>4, <1>5

\* What a load gives the process, then, follows the layers.
LEMMA LoadsFollow ==
    ASSUME NEW f \in Files \cup {NoFile}, NEW env \in Environments, Loaded(f, env) # NoSettings, NEW p \in Fields
    PROVE  /\ Loaded(f, env)[p].type \in CONFIG_SCHEMA[p].types
           /\ CONFIG_SCHEMA[p].limited => Loaded(f, env)[p].ok
           /\ Loaded(f, env)[p].from =
                  IF p \in NotPassed THEN "default"
                  ELSE IF Naming(p, env) # {} THEN "env"
                  ELSE IF p \in DOMAIN f.tree THEN "file"
                  ELSE "default"
<1>1. PICK config : config = MergedConfig(f, env)
  OBVIOUS
<1>2. ValidateConfig(config, CONFIG_SCHEMA) /\ Loaded(f, env) = BuildSettings(config)
  BY <1>1 DEF Loaded
<1>3. /\ p \in DOMAIN CONFIG_SCHEMA /\ ~CONFIG_SCHEMA[p].section
      /\ INTERNAL_DEFAULTS[p].from = "default"
  BY TheTrees
<1>4. CASE p \in NotPassed
  <2>1. Loaded(f, env)[p] = INTERNAL_DEFAULTS[p]
    BY <1>2, <1>4 DEF BuildSettings
  <2>2. ValidField(INTERNAL_DEFAULTS[p], CONFIG_SCHEMA[p])
    BY <1>3, ConfigAssumption DEF ValidateConfig
  <2> QED
    BY <1>3, <1>4, <2>1, <2>2 DEF ValidField
<1>5. CASE p \notin NotPassed
  <2>1. Loaded(f, env)[p] = config[p]
    BY <1>2, <1>5 DEF BuildSettings
  <2>2. ValidField(config[p], CONFIG_SCHEMA[p])
    BY <1>2, <1>3 DEF ValidateConfig
  <2>3. config[p].from = IF Naming(p, env) # {} THEN "env"
                         ELSE IF p \in DOMAIN f.tree THEN "file" ELSE "default"
    BY <1>1, <1>2, LayersAreOrdered
  <2> QED
    BY <1>5, <2>1, <2>2, <2>3 DEF ValidField
<1> QED
  BY <1>4, <1>5

LEMMA InitConfig == ConfigInit => ConfigInv
  BY DEF ConfigInit, ConfigInv

LEMMA NextConfig == ASSUME ConfigInv, [ConfigNext]_configVars PROVE ConfigInv'
<1>1. CASE \E f \in Files : EditFile(f)
  BY <1>1 DEF EditFile, ConfigInv
<1>2. ASSUME NEW named \in BOOLEAN, LoadInto(named), UNCHANGED <<file, environment>>, app' \in {"new", "running", "exited"}
      PROVE  ConfigInv'
  BY <1>2 DEF LoadInto, Layer, ConfigInv
<1>3. CASE Bootstrap
  BY <1>2, <1>3 DEF Bootstrap
<1>4. ASSUME NEW named \in BOOLEAN, LoadSettings(named) PROVE ConfigInv'
  <2>1. CASE cache = NoSettings
    BY <1>2, <1>4, <2>1 DEF LoadSettings, ConfigInv
  <2>2. CASE cache # NoSettings
    BY <1>4, <2>2 DEF LoadSettings, ConfigInv
  <2> QED
    BY <2>1, <2>2
<1>5. ASSUME NEW named \in BOOLEAN, ReloadSettings(named) PROVE ConfigInv'
  BY <1>2, <1>5 DEF ReloadSettings, ConfigInv
<1>6. CASE Interrupt
  BY <1>6 DEF Interrupt, ConfigInv
<1>7. CASE UNCHANGED configVars
  BY <1>7 DEF configVars, ConfigInv
<1> QED
  BY <1>1, <1>3, <1>4, <1>5, <1>6, <1>7 DEF ConfigNext

\* Whatever is edited while the process runs, loaded, reloaded or not, its configuration has the
\* types of its declarations, and settings that are there are all there.
THEOREM ConfigTypeCorrect == ConfigSpec => []ConfigTypeOK
<1>1. ASSUME ConfigInv PROVE ConfigTypeOK
  <2>1. cache = NoSettings \/ DOMAIN cache = Fields
    <3>1. CASE cache = Loaded(loadedFrom, environment)
      BY <3>1 DEF Loaded, BuildSettings
    <3> QED
      BY <1>1, <3>1 DEF ConfigInv
  <2> QED
    BY <1>1, <2>1 DEF ConfigInv, ConfigTypeOK
<1> QED
  BY <1>1, InitConfig, NextConfig, PTL DEF ConfigSpec

\* Every setting that a subsystem can read is valid and comes from the highest layer that names
\* it: the environment, else the file of the last load if that named one, else the defaults.  For
\* any files and environments.
THEOREM SettingsFollow == ConfigSpec => []SettingsFollowTheLayers
<1>1. ASSUME ConfigInv PROVE SettingsFollowTheLayers
  BY <1>1, LoadsFollow DEF ConfigInv, SettingsFollowTheLayers
<1> QED
  BY <1>1, InitConfig, NextConfig, PTL DEF ConfigSpec

-----------------------------------------------------------------------------
(* The components together, as the run has them.                           *)

\* A step of the composition is a step of each component, or leaves it alone.
LEMMA PartsStep ==
    [AgentNext]_agentVars =>
        /\ [PipelineNext]_pipelineVars /\ [CorrelationNext]_correlationVars
        /\ [MonitorsNext]_monitorVars /\ [AgentStoreNext]_storeVars /\ [ConfigNext]_configVars
<1> SUFFICES ASSUME [AgentNext]_agentVars
             PROVE  /\ [PipelineNext]_pipelineVars /\ [CorrelationNext]_correlationVars
                    /\ [MonitorsNext]_monitorVars /\ [AgentStoreNext]_storeVars /\ [ConfigNext]_configVars
  OBVIOUS
<1>1. CASE UNCHANGED agentVars
  BY <1>1 DEF agentVars
<1>2. CASE AgentNext
  <2>1. CASE Of("pipeline") /\ PipelineNext
    BY <2>1 DEF Of
  <2>2. CASE Of("correlation") /\ CorrelationNext
    BY <2>2 DEF Of
  <2>3. CASE Of("monitors") /\ MonitorsNext
    BY <2>3 DEF Of
  <2>4. CASE Of("store") /\ AgentStoreNext
    BY <2>4 DEF Of
  <2>5. CASE Of("settings") /\ ConfigNext
    BY <2>5 DEF Of
  <2>6. \/ Of("pipeline") /\ PipelineNext
        \/ Of("correlation") /\ CorrelationNext
        \/ Of("monitors") /\ MonitorsNext
        \/ Of("store") /\ AgentStoreNext
        \/ Of("settings") /\ ConfigNext
    BY <1>2 DEF AgentNext, PipelineNext, Step, CorrelationNext, MonitorsNext, AgentStoreNext, ConfigNext
  <2> QED
    BY <2>1, <2>2, <2>3, <2>4, <2>5, <2>6
<1> QED
  BY <1>1, <1>2

\* What is proved of a component alone is so in the composition: its behaviours are behaviours of
\* every component.
THEOREM AgentIsItsParts ==
    AgentSpec => PipelineSpec /\ CorrelationSpec /\ MonitorsSpec /\ AgentStoreSpec /\ ConfigSpec
<1>1. AgentInit => PipelineInit /\ CorrelationInit /\ MonitorsInit /\ AgentStoreInit /\ ConfigInit
  BY DEF AgentInit
<1> QED
  BY <1>1, PartsStep, PTL
     DEF AgentSpec, PipelineSpec, CorrelationSpec, MonitorsSpec, AgentStoreSpec, ConfigSpec

\* All the variables of the rest of the agent keep their shape, for any values of the constants.
THEOREM AgentTypeCorrect == AgentSpec => []AgentTypeOK
<1>1. PipelineTypeOK /\ CorrelationTypeOK /\ MonitorsTypeOK /\ AgentStoreTypeOK /\ ConfigTypeOK => AgentTypeOK
  BY DEF AgentTypeOK
<1> QED
  BY <1>1, AgentIsItsParts, PipelineTypeCorrect, CorrelationTypeCorrect, MonitorsTypeCorrect,
     StoreTypeCorrect, ConfigTypeCorrect, PTL

\* What the run of the composition checks, all of it but its liveness, for any values of the
\* constants.
THEOREM AgentIsSound ==
    AgentSpec => /\ []StagesAreRespected /\ []IncidentsAreEarned /\ IncidentsAreFinal
                 /\ []MonitorsAreSound /\ []StoreIsSound /\ []SettingsFollowTheLayers
BY AgentIsItsParts, StagesRespected, IncidentsEarned, IncidentsFinal, EntriesArePublished,
   StoreSound, SettingsFollow
=============================================================================
