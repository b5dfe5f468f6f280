------------------------- MODULE Registration_proofs -------------------------
(***************************************************************************)
(* What Registration.tla does for any number of machines, requests and     *)
(* worker processes.                                                       *)
(***************************************************************************)
EXTENDS Registration, TLAPS

\* A handler that is not over knows its machine and its worker, and is at a place
\* its kind of request comes to.
Places(k) ==
    CASE k = "register" -> {"insert", "file"}
      [] k = "approve" -> {"issue", "recheck", "write", "follow", "stamp"}
      [] k \in {"reject", "expire"} -> {"write", "follow"}
      [] k = "revoke" -> {"write", "uncertify"}
      [] OTHER -> {}

JobsAreSound ==
    \A q \in Requests :
        Live(q) => /\ job[q].machine \in Machines
                   /\ job[q].worker \in Workers
                   /\ job[q].pc \in Places(job[q].kind)

\* A handler that is about to write has checked its move from the status it read.
MovesAreChecked ==
    \A q \in Requests :
        job[q].pc = "write" => <<job[q].seen, Target[job[q].kind]>> \in Legal

\* An approval past its certificate step has put a certificate on file.
ApprovalsHoldCertificates ==
    \A q \in Requests :
        Live(q) /\ job[q].kind = "approve" /\ job[q].pc # "issue" =>
            cert[job[q].machine] # None

\* The handler of a request at a session that still works, on machine m; and halfway.
Serves(q, w, m) == Live(q) /\ w \notin broken /\ job[q].worker = w /\ job[q].machine = m
Writing(q, w, m) == Halfway(q) /\ Serves(q, w, m)

\* What a session has not committed is some status, and nothing in a failed one.
DraftsAreSound ==
    \A m \in Machines :
        /\ draft[m].by \notin broken
        /\ draft[m].by # None <=> draft[m].status # "absent"
        /\ status[m] # "quarantined" /\ draft[m].status # "quarantined"
        /\ status[m] = "registered" \/ draft[m].status = "registered" => cert[m] # None

\* Unless a write was cut in two, a handler between its statements holds the row, and
\* a row is held by such a handler.
WritersHoldRows ==
    \A m \in Machines, w \in Workers :
        ~parted[m] =>
            /\ \A q \in Requests : Writing(q, w, m) => draft[m].by = w
            /\ draft[m].by = w =>
                  \E p \in Requests : Writing(p, w, m) /\ draft[m].status = Target[job[p].kind]
            /\ draft[m].by = w /\ application[m] = "absent" =>
                  \E p \in Requests : Writing(p, w, m) /\ job[p].kind = "register"

\* A row some handler is about to change, or has read, is there; and an accepted one.
SeenRowsExist ==
    \A m \in Machines, w \in Workers, q \in Requests :
        Serves(q, w, m) /\ job[q].pc # "insert" => Seen(w, m) # "absent"

RowsAreApplied ==
    \A m \in Machines : /\ applied[m] # {} => status[m] # "absent"
                        /\ applied[m] = {} => application[m] = "absent"

\* Of crossing registrations one gets past the INSERT that is UNIQUE.
FilesAreFirst ==
    \A m \in Machines, w \in Workers, q \in Requests :
        Serves(q, w, m) /\ job[q].pc = "file" =>
            /\ applied[m] = {}
            /\ \A v \in Workers, p \in Requests : Serves(p, v, m) /\ job[p].pc = "file" => p = q

FingerprintsAreApprovals ==
    \A m \in Machines :
        fingerprint[m] # None => /\ job[fingerprint[m]].machine = m
                                 /\ job[fingerprint[m]].kind = "approve"
                                 /\ job[fingerprint[m]].pc # "idle"

\* A revocation starts from a decided application, or one that is being decided.
RevokesAreDecided ==
    \A m \in Machines, w \in Workers, q \in Requests :
        Serves(q, w, m) /\ job[q].pc = "write" /\ job[q].kind = "revoke" /\ ~parted[m] =>
            \/ application[m] \in FollowedUp
            \/ \E p \in Requests : Writing(p, w, m) /\ job[p].kind # "register"

JobInv == JobsAreSound /\ MovesAreChecked /\ ApprovalsHoldCertificates
DraftInv == DraftsAreSound /\ WritersHoldRows
RowInv == SeenRowsExist /\ RowsAreApplied /\ FilesAreFirst /\ FingerprintsAreApprovals /\ RevokesAreDecided
Safety == OneRegistration /\ TablesAgree /\ RegisteredIsCertified
RegistrationInv == TypeOK /\ JobInv /\ DraftInv /\ RowInv /\ Safety

LEMMA InitRegistration == Init => RegistrationInv
<1> SUFFICES ASSUME Init PROVE RegistrationInv
  OBVIOUS
<1>1. \A q \in Requests : ~Live(q) /\ job[q].pc = "idle"
  BY DEF Init, NoJob, Live, Working
<1>2. \A m \in Machines : draft[m] = Free /\ status[m] = "absent" /\ application[m] = "absent"
  BY DEF Init
<1>3. TypeOK
  BY DEF Init, TypeOK, JobType, NoJob, DraftType, Free
<1>4. JobInv /\ RowInv
  BY <1>1, <1>2 DEF Init, JobInv, JobsAreSound, MovesAreChecked, ApprovalsHoldCertificates, RowInv, SeenRowsExist,
                    RowsAreApplied, FilesAreFirst, FingerprintsAreApprovals, RevokesAreDecided, Serves
<1>5. DraftInv
  BY <1>1, <1>2, RegistrationAssumption DEF Init, DraftInv, DraftsAreSound, WritersHoldRows, Writing, Serves, Free
<1>6. Safety
  BY DEF Init, Safety, OneRegistration, TablesAgree, RegisteredIsCertified
<1> QED
  BY <1>3, <1>4, <1>5, <1>6 DEF RegistrationInv

\* Moving a handler keeps its record well formed.
LEMMA MovedJobs ==
    ASSUME NEW j \in [Requests -> JobType], NEW q \in Requests, NEW pc \in Working \cup Ended,
           NEW s \in MachineState \cup {"absent"}
    PROVE  /\ [j EXCEPT ![q].pc = pc] \in [Requests -> JobType]
           /\ [j EXCEPT ![q].pc = pc, ![q].seen = s] \in [Requests -> JobType]
<1>1. [j[q] EXCEPT !.pc = pc] \in JobType
  BY DEF JobType
<1>2. [[j[q] EXCEPT !.pc = pc] EXCEPT !.seen = s] \in JobType
  BY <1>1 DEF JobType
<1>3. [j EXCEPT ![q].pc = pc] \in [Requests -> JobType]
  BY <1>1
<1>4. [j EXCEPT ![q].pc = pc, ![q].seen = s] = [j EXCEPT ![q] = [[j[q] EXCEPT !.pc = pc] EXCEPT !.seen = s]]
  OBVIOUS
<1> QED  BY <1>2, <1>3, <1>4


\* A handler's own steps move its record and nobody else's.
LEMMA StepMoves ==
    ASSUME RegistrationInv, NEW q \in Requests, Step(q)
    PROVE  /\ Live(q) /\ job[q].pc \in Places(job[q].kind)
           /\ job[q].machine \in Machines /\ job[q].worker \in Workers
           /\ job' \in [Requests -> JobType]
           /\ \A r \in Requests : r # q => job'[r] = job[r]
           /\ job'[q].machine = job[q].machine /\ job'[q].worker = job[q].worker
           /\ job'[q].kind = job[q].kind
<1>1. Live(q)
  BY DEF Step, Insert, InsertFails, File, Issue, IssueFails, Recheck, Write, FollowUp, WriteAlone, Writes,
         Stamp, Uncertify, UncertifyFails, StatementRaises, At, Live, Working
<1>2. job[q].pc \in Places(job[q].kind) /\ job[q].machine \in Machines /\ job[q].worker \in Workers
  BY <1>1 DEF RegistrationInv, JobInv, JobsAreSound
<1>3. job[q].kind \in DOMAIN Target
  BY <1>2 DEF Places, Target
<1>4. PICK pc \in Working \cup Ended, s \in MachineState \cup {"absent"} :
          \/ job' = [job EXCEPT ![q].pc = pc]
          \/ job' = [job EXCEPT ![q].pc = pc, ![q].seen = s]
  <2>1. CASE Recheck(q)
    <3>1. Seen(job[q].worker, job[q].machine) \in MachineState \cup {"absent"}
      BY <1>2 DEF RegistrationInv, TypeOK, DraftType, Seen
    <3>2. Checked("approve", Seen(job[q].worker, job[q].machine)) \in Working \cup Ended
      BY DEF Checked, Working, Ended
    <3> QED
      BY <2>1, <3>1, <3>2 DEF Recheck
  <2>2. CASE FollowUp(q) \/ WriteAlone(q)
    <3>1. job[q].kind \in {"reject", "expire", "approve", "revoke"}
      BY <1>2, <2>2 DEF FollowUp, WriteAlone, Writes, At, Places
    <3>2. AfterWrite[job[q].kind] \in Working \cup Ended
      BY <3>1 DEF AfterWrite, Working, Ended
    <3> QED
      BY <2>2, <3>2 DEF FollowUp, WriteAlone, GoTo
  <2>3. CASE \/ Insert(q) \/ InsertFails(q) \/ File(q) \/ Issue(q) \/ IssueFails(q) \/ Write(q) \/ Stamp(q)
             \/ Uncertify(q) \/ UncertifyFails(q) \/ StatementRaises(q)
    BY <2>3 DEF Insert, InsertFails, File, Issue, IssueFails, Write, Stamp, Uncertify, UncertifyFails,
                StatementRaises, GoTo, Working, Ended
  <2> QED
    BY <2>1, <2>2, <2>3 DEF Step
<1>5. job \in [Requests -> JobType]
  BY DEF RegistrationInv, TypeOK
<1>6. job' \in [Requests -> JobType]
  <2>1. /\ [job EXCEPT ![q].pc = pc] \in [Requests -> JobType]
        /\ [job EXCEPT ![q].pc = pc, ![q].seen = s] \in [Requests -> JobType]
    BY <1>5, MovedJobs
  <2> QED
    BY <1>4, <2>1
<1>7. \A r \in Requests : r # q => job'[r] = job[r]
  BY <1>4, <1>5
<1>8. /\ job'[q].machine = job[q].machine /\ job'[q].worker = job[q].worker
      /\ job'[q].kind = job[q].kind
  <2>1. job[q] \in JobType
    BY <1>5
  <2>2. job'[q] = [job[q] EXCEPT !.pc = pc] \/ job'[q] = [[job[q] EXCEPT !.pc = pc] EXCEPT !.seen = s]
    BY <1>4, <1>5
  <2> QED
    BY <2>1, <2>2 DEF JobType
<1> QED
  BY <1>1, <1>2, <1>6, <1>7, <1>8

StatusType == MachineState \cup {"absent"}

LEMMA SeenType == ASSUME TypeOK, NEW w, NEW m \in Machines PROVE Seen(w, m) \in StatusType
BY DEF TypeOK, DraftType, Seen, StatusType

LEMMA WithoutType == ASSUME TypeOK, NEW w PROVE Without(w) \in [Machines -> DraftType]
BY DEF TypeOK, DraftType, Without, Free

LEMMA CommitTypes ==
    ASSUME TypeOK, NEW w, NEW q, NEW rows \in [Machines -> StatusType], Commit(w, q, rows)
    PROVE  /\ status' \in [Machines -> StatusType]
           /\ draft' \in [Machines -> DraftType] /\ parted' \in [Machines -> BOOLEAN]
<1>1. Without(w) \in [Machines -> DraftType]
  BY WithoutType
<1> QED
  BY <1>1 DEF Commit

LEMMA StepTypes == ASSUME RegistrationInv, NEW q \in Requests, Step(q) PROVE TypeOK'
<1> DEFINE m == job[q].machine
           w == job[q].worker
<1>1. /\ m \in Machines /\ w \in Workers /\ job' \in [Requests -> JobType]
      /\ job[q].pc \in Places(job[q].kind)
  BY StepMoves
<1>2. Target[job[q].kind] \in MachineState
  BY <1>1 DEF Places, Target, MachineState
<1>3. TypeOK
  BY DEF RegistrationInv
<1>4. View(w) \in [Machines -> StatusType]
  BY <1>3, SeenType DEF View
<1>5. /\ status' \in [Machines -> StatusType]
      /\ draft' \in [Machines -> DraftType] /\ parted' \in [Machines -> BOOLEAN]
  <2>1. CASE Insert(q) \/ Write(q)
    <3>1. PICK to \in MachineState : draft' = [draft EXCEPT ![m] = [by |-> w, status |-> to]]
      BY <1>2, <2>1 DEF Insert, Write, Drafted, MachineState
    <3>2. [by |-> w, status |-> to] \in DraftType
      BY <1>1 DEF DraftType
    <3> QED
      BY <1>3, <2>1, <3>1, <3>2 DEF Insert, Write, TypeOK, StatusType
  <2>2. CASE File(q) \/ FollowUp(q) \/ Stamp(q)
    <3>1. Commit(w, q, View(w))
      BY <2>2 DEF File, FollowUp, Stamp
    <3> QED
      BY <1>3, <1>4, <3>1, CommitTypes
  <2>3. CASE WriteAlone(q)
    <3>1. [View(w) EXCEPT ![m] = Target[job[q].kind]] \in [Machines -> StatusType]
      BY <1>2, <1>4 DEF StatusType
    <3>2. Commit(w, q, [View(w) EXCEPT ![m] = Target[job[q].kind]])
      BY <2>3 DEF WriteAlone
    <3> QED
      BY <1>3, <3>1, <3>2, CommitTypes
  <2>4. CASE Commit(w, q, View(w)) \/ UNCHANGED machineTable
    <3>1. CASE UNCHANGED machineTable
      BY <1>3, <3>1 DEF machineTable, TypeOK, StatusType
    <3> QED
      BY <1>3, <1>4, <2>4, <3>1, CommitTypes
  <2>5. CASE Breaks(w)
    <3>1. Without(w) \in [Machines -> DraftType]
      BY <1>3, WithoutType
    <3> QED
      BY <1>3, <2>5, <3>1 DEF Breaks, TypeOK, StatusType
  <2>6. CASE StatementRaises(q)
    BY <1>3, <2>6 DEF StatementRaises, TypeOK, StatusType
  <2> QED
    BY <2>1, <2>2, <2>3, <2>4, <2>5, <2>6
       DEF Step, InsertFails, Issue, IssueFails, Recheck, Uncertify, UncertifyFails, MayCommit, MayBreak, tables
<1>6. application' \in [Machines -> StatusType]
  BY <1>1, <1>2, <1>3
     DEF TypeOK, StatusType, MachineState, Step, Insert, InsertFails, File, Issue, IssueFails, Recheck, Write,
         FollowUp, WriteAlone, Stamp, Uncertify, UncertifyFails, StatementRaises, tables
<1>7. fingerprint' \in [Machines -> Requests \cup {None}]
  <2>1. fingerprint' = fingerprint \/ fingerprint' = [fingerprint EXCEPT ![m] = q]
    BY DEF Step, Insert, InsertFails, File, Issue, IssueFails, Recheck, Write, FollowUp, WriteAlone, Stamp,
           SetFingerprint, Uncertify, UncertifyFails, StatementRaises, tables
  <2> QED
    BY <1>3, <2>1 DEF TypeOK
<1>8. cert' \in [Machines -> Requests \cup {None}] /\ valid' \in [Machines -> BOOLEAN]
  <2>1. /\ cert' = cert \/ cert' = [cert EXCEPT ![m] = q]
        /\ valid' = valid \/ \E b \in BOOLEAN : valid' = [valid EXCEPT ![m] = b]
    BY DEF Step, Insert, InsertFails, File, Issue, IssueFails, Recheck, Write, FollowUp, WriteAlone, Stamp,
           Uncertify, Invalidate, UncertifyFails, StatementRaises, certs
  <2> QED
    BY <1>3, <2>1 DEF TypeOK
<1>9. broken' \subseteq Workers
  <2>1. broken' = broken \/ broken' = broken \cup {w}
    BY DEF Step, Insert, InsertFails, File, Issue, IssueFails, Recheck, Write, FollowUp, WriteAlone, Stamp,
           Uncertify, UncertifyFails, StatementRaises, MayBreak, Breaks
  <2> QED
    BY <1>1, <1>3, <2>1 DEF TypeOK
<1>10. applied' \in [Machines -> SUBSET Requests]
  <2>1. applied' = applied \/ applied' = [applied EXCEPT ![m] = applied[m] \cup {q}]
    BY DEF Step, Insert, InsertFails, File, Issue, IssueFails, Recheck, Write, FollowUp, WriteAlone, Stamp,
           Uncertify, UncertifyFails, StatementRaises
  <2>2. applied[m] \cup {q} \in SUBSET Requests
    BY <1>1, <1>3 DEF TypeOK
  <2> QED
    BY <1>3, <2>1, <2>2 DEF TypeOK
<1>11. disturbed' \in [Machines -> BOOLEAN]
  <2>1. disturbed' = disturbed \/ disturbed' = [disturbed EXCEPT ![m] = TRUE]
    BY DEF Step, Insert, InsertFails, File, Issue, IssueFails, Recheck, Write, FollowUp, WriteAlone, Stamp,
           Uncertify, UncertifyFails, StatementRaises
  <2> QED
    BY <1>3, <2>1 DEF TypeOK
<1> QED
  BY <1>1, <1>5, <1>6, <1>7, <1>8, <1>9, <1>10, <1>11 DEF TypeOK, StatusType

\* Where a handler of kind k goes from where it is.
Follows(k, pc) ==
    CASE pc = "insert" -> {"file", "failed"}
      [] pc = "issue" -> {"recheck", "failed"}
      [] pc = "recheck" -> {"write", "refused", "failed"}
      [] pc = "write" -> {IF k = "revoke" THEN "uncertify" ELSE "follow", "failed"}
      [] pc = "follow" -> {AfterWrite[k], "failed"}
      [] pc \in {"file", "stamp", "uncertify"} -> {"done", "failed"}
      [] OTHER -> {}

LEMMA StepGoes ==
    ASSUME RegistrationInv, NEW q \in Requests, Step(q)
    PROVE  job'[q].pc \in Follows(job[q].kind, job[q].pc)
<1>1. job \in [Requests -> JobType] /\ job[q] \in JobType
  BY DEF RegistrationInv, TypeOK
<1>2. /\ Live(q) /\ job[q].pc \in Places(job[q].kind)
  BY StepMoves
<1>3. \A pc : GoTo(q, pc) => job'[q].pc = pc
  BY <1>1 DEF GoTo, JobType
<1>4. CASE Insert(q) \/ InsertFails(q) \/ File(q) \/ Issue(q) \/ IssueFails(q) \/ Stamp(q)
           \/ Uncertify(q) \/ UncertifyFails(q)
  BY <1>3, <1>4 DEF Insert, InsertFails, File, Issue, IssueFails, Stamp, Uncertify, UncertifyFails, At, Follows
<1>5. CASE Recheck(q)
  <2>1. job'[q].pc = Checked("approve", Seen(job[q].worker, job[q].machine))
    BY <1>1, <1>5 DEF Recheck, JobType
  <2> QED
    BY <1>5, <2>1 DEF Recheck, Checked, At, Follows
<1>6. CASE Write(q)
  <2>1. job[q].kind # "revoke"
    BY <1>6 DEF Write, Target, FollowedUp
  <2> QED
    BY <1>3, <1>6, <2>1 DEF Write, Writes, At, Follows
<1>7. CASE WriteAlone(q)
  <2>1. job[q].kind = "revoke"
    BY <1>2, <1>7 DEF WriteAlone, Writes, At, Places, Target, FollowedUp
  <2> QED
    BY <1>3, <1>7, <2>1 DEF WriteAlone, Writes, At, Follows, AfterWrite
<1>8. CASE FollowUp(q)
  BY <1>3, <1>8 DEF FollowUp, At, Follows
<1>9. CASE StatementRaises(q)
  <2>1. job'[q].pc = IF job[q].pc = "uncertify" THEN "done" ELSE "failed"
    BY <1>3, <1>9 DEF StatementRaises
  <2> QED
    BY <1>2, <2>1 DEF Live, Working, Follows
<1> QED
  BY <1>4, <1>5, <1>6, <1>7, <1>8, <1>9 DEF Step

\* A certificate replaced is one on file still, and nothing but Stamp touches the fingerprints.
LEMMA StepKeepsCertificates ==
    ASSUME RegistrationInv, NEW q \in Requests, Step(q), NEW m \in Machines
    PROVE  /\ cert[m] # None => cert'[m] # None
           /\ job[q].pc = "issue" /\ job'[q].pc # "failed" /\ job[q].machine = m => cert'[m] # None
           /\ \/ fingerprint'[m] = fingerprint[m]
              \/ fingerprint'[m] = q /\ job[q].machine = m /\ job[q].pc = "stamp"
<1>1. q # None /\ cert \in [Machines -> Requests \cup {None}] /\ fingerprint \in [Machines -> Requests \cup {None}]
  BY RegistrationAssumption DEF RegistrationInv, TypeOK
<1>2. CASE Issue(q)
  BY <1>1, <1>2 DEF Issue
<1>3. CASE Stamp(q)
  BY <1>1, <1>3 DEF Stamp, SetFingerprint, At, certs
<1>4. CASE ~Issue(q) /\ ~Stamp(q)
  <2>1. UNCHANGED <<cert, fingerprint>>
    BY <1>4 DEF Step, Insert, InsertFails, File, IssueFails, Recheck, Write, FollowUp, WriteAlone,
           Uncertify, UncertifyFails, StatementRaises, tables, certs
  <2>2. job[q].pc = "issue" => job'[q].pc = "failed"
    <3>1. job \in [Requests -> JobType]
      BY DEF RegistrationInv, TypeOK
    <3> QED
      BY <1>4, <3>1 DEF Step, Insert, InsertFails, File, IssueFails, Recheck, Write, FollowUp, WriteAlone, Writes,
             Uncertify, UncertifyFails, StatementRaises, At, GoTo, JobType
  <2> QED
    BY <2>1, <2>2
<1> QED
  BY <1>2, <1>3, <1>4

LEMMA StepJobs == ASSUME RegistrationInv, NEW q \in Requests, Step(q) PROVE JobInv'
<1>1. /\ Live(q) /\ job[q].pc \in Places(job[q].kind)
      /\ job[q].machine \in Machines /\ job[q].worker \in Workers
      /\ \A r \in Requests : r # q => job'[r] = job[r]
      /\ job'[q].machine = job[q].machine /\ job'[q].worker = job[q].worker /\ job'[q].kind = job[q].kind
  BY StepMoves
<1>2. job'[q].pc \in Follows(job[q].kind, job[q].pc)
  BY StepGoes
<1>3. job'[q].pc \in Places(job[q].kind) \cup Ended
  BY <1>1, <1>2 DEF Places, Follows, AfterWrite, Ended
<1>4. JobsAreSound'
  BY <1>1, <1>3 DEF RegistrationInv, JobInv, JobsAreSound, Live, Working, Ended
<1>5. MovesAreChecked'
  <2>1. ASSUME job'[q].pc = "write" PROVE <<job'[q].seen, Target[job'[q].kind]>> \in Legal
    <3>1. job[q].pc = "recheck" /\ job[q].kind = "approve"
      BY <1>1, <1>2, <2>1 DEF Follows, Places, AfterWrite
    <3>2. Recheck(q)
      <4>1. job \in [Requests -> JobType]
        BY DEF RegistrationInv, TypeOK
      <4> QED
        BY <2>1, <3>1, <4>1 DEF Step, Insert, InsertFails, File, Issue, IssueFails, Write, FollowUp, WriteAlone, Writes,
               Stamp, Uncertify, UncertifyFails, StatementRaises, At, GoTo, JobType
    <3>3. PICK now : now = Seen(job[q].worker, job[q].machine)
      OBVIOUS
    <3>4. job'[q].pc = Checked("approve", now) /\ job'[q].seen = now
      <4>1. job[q] \in JobType /\ job \in [Requests -> JobType]
        BY DEF RegistrationInv, TypeOK
      <4> QED
        BY <3>2, <3>3, <4>1 DEF Recheck, JobType
    <3> QED
      BY <1>1, <2>1, <3>1, <3>4 DEF Checked
  <2> QED
    BY <1>1, <2>1 DEF RegistrationInv, JobInv, MovesAreChecked
<1>6. ApprovalsHoldCertificates'
  <2> SUFFICES ASSUME NEW r \in Requests, Live(r)', job'[r].kind = "approve", job'[r].pc # "issue"
               PROVE  cert'[job'[r].machine] # None
    BY DEF ApprovalsHoldCertificates
  <2>1. CASE r # q
    <3>1. cert[job[r].machine] # None /\ job'[r] = job[r] /\ job[r].machine \in Machines
      BY <1>1, <2>1 DEF RegistrationInv, JobInv, JobsAreSound, ApprovalsHoldCertificates, Live
    <3> QED
      BY <3>1, StepKeepsCertificates
  <2>2. CASE r = q
    <3>1. CASE job[q].pc = "issue"
      BY <1>1, <2>2, <3>1, StepKeepsCertificates DEF Live, Working
    <3>2. CASE job[q].pc # "issue"
      <4>1. cert[job[q].machine] # None
        BY <1>1, <2>2, <3>2 DEF RegistrationInv, JobInv, ApprovalsHoldCertificates
      <4> QED
        BY <1>1, <2>2, <4>1, StepKeepsCertificates
    <3> QED
      BY <3>1, <3>2
  <2> QED
    BY <2>1, <2>2
<1> QED
  BY <1>4, <1>5, <1>6 DEF JobInv

LEMMA StepFingerprints ==
    ASSUME RegistrationInv, NEW q \in Requests, Step(q), NEW m \in Machines, fingerprint'[m] # None
    PROVE  /\ job'[fingerprint'[m]].machine = m /\ job'[fingerprint'[m]].kind = "approve"
           /\ job'[fingerprint'[m]].pc # "idle"
<1>1. /\ Live(q) /\ job[q].pc \in Places(job[q].kind)
      /\ \A r \in Requests : r # q => job'[r] = job[r]
      /\ job'[q].machine = job[q].machine /\ job'[q].kind = job[q].kind
  BY StepMoves
<1>2. job'[q].pc # "idle"
  <2>1. job'[q].pc \in Follows(job[q].kind, job[q].pc)
    BY StepGoes
  <2> QED
    BY <1>1, <2>1 DEF Follows, AfterWrite, Places
<1>3. CASE fingerprint'[m] = fingerprint[m]
  <2>1. fingerprint[m] \in Requests
    BY <1>3 DEF RegistrationInv, TypeOK
  <2>2. /\ job[fingerprint[m]].machine = m /\ job[fingerprint[m]].kind = "approve"
        /\ job[fingerprint[m]].pc # "idle"
    BY <1>3 DEF RegistrationInv, RowInv, FingerprintsAreApprovals
  <2> QED
    BY <1>1, <1>2, <1>3, <2>1, <2>2
<1>4. CASE fingerprint'[m] = q /\ job[q].machine = m /\ job[q].pc = "stamp"
  BY <1>1, <1>2, <1>4 DEF Places
<1> QED
  BY <1>3, <1>4, StepKeepsCertificates

-----------------------------------------------------------------------------
(* COMMIT: what the session of w has written becomes the table.            *)

\* A COMMIT of request q, or of another manager's (q = None), which leaves machines as rows.
CommitBy(w, q, rows) ==
    /\ w \notin broken /\ broken' = broken
    /\ Commit(w, q, rows)
    /\ \A n \in Machines : rows[n] = Seen(w, n) \/ rows[n] = "revoked"
    /\ \A r \in Requests : r # q => job'[r] = job[r]
    /\ q # None => /\ Live(q) /\ job[q].worker = w /\ job[q].pc # "insert"
                   /\ job'[q].worker = w /\ job'[q].machine = job[q].machine
                   /\ job'[q].kind = job[q].kind
                   /\ job'[q].pc \notin {"insert", "file", "write", "follow"}
    /\ \A n \in Machines : cert[n] # None => cert'[n] # None
    /\ \A n \in Machines : application'[n] = "absent" => application[n] = "absent"

LEMMA CommittedRow ==
    ASSUME NEW w, NEW q, NEW rows, CommitBy(w, q, rows), NEW n \in Machines
    PROVE  /\ status'[n] = rows[n]
           /\ rows[n] = Seen(w, n) \/ rows[n] = "revoked"
           /\ draft[n].by = w => draft'[n] = Free
           /\ draft[n].by # w => draft'[n] = draft[n]
           /\ parted'[n] <=> parted[n] \/ CutBy(w, q, n)
BY DEF CommitBy, Commit, Without

LEMMA CommitServes ==
    ASSUME NEW w, NEW q, NEW rows, CommitBy(w, q, rows), NEW r \in Requests, NEW v, NEW n
    PROVE  /\ r # q => /\ Serves(r, v, n)' <=> Serves(r, v, n)
                       /\ Writing(r, v, n)' <=> Writing(r, v, n)
           /\ r = q => ~Writing(r, v, n)'
           /\ Serves(r, v, n)' => Serves(r, v, n)
           /\ Serves(r, v, n)' /\ r = q /\ q # None =>
                 v = w /\ job'[q].pc \notin {"insert", "file", "write", "follow"} /\ job[q].pc # "insert"
           /\ Writing(r, w, n) /\ r # q => CutBy(w, q, n)
<1>1. CASE r # q
  BY <1>1 DEF CommitBy, Serves, Writing, Halfway, Live, CutBy
<1>2. CASE r = q
  <2>1. q # None
    BY <1>2, RegistrationAssumption
  <2>2. /\ Live(q) /\ job[q].worker = w /\ job'[q].worker = w /\ job'[q].machine = job[q].machine
        /\ job'[q].pc \notin {"insert", "file", "write", "follow"} /\ broken' = broken /\ job[q].pc # "insert"
    BY <2>1 DEF CommitBy
  <2> QED
    BY <1>2, <2>2 DEF Serves, Writing, Halfway
<1> QED
  BY <1>1, <1>2

LEMMA CommitView ==
    ASSUME RegistrationInv, NEW w \in Workers, NEW q, NEW rows, CommitBy(w, q, rows), NEW n \in Machines
    PROVE  /\ status[n] # "absent" => status'[n] # "absent"
           /\ \A v \in Workers : Seen(v, n) # "absent" => Seen(v, n)' # "absent"
<1>1. /\ status'[n] = rows[n]
      /\ rows[n] = Seen(w, n) \/ rows[n] = "revoked"
      /\ draft[n].by = w => draft'[n] = Free
      /\ draft[n].by # w => draft'[n] = draft[n]
  BY CommittedRow
<1>2. draft[n].by # None => draft[n].status # "absent"
  BY DEF RegistrationInv, DraftInv, DraftsAreSound
<1>3. \A v \in Workers : v # None
  BY RegistrationAssumption
<1>4. status[n] # "absent" => status'[n] # "absent"
  BY <1>1, <1>2, <1>3 DEF Seen
<1>5. ASSUME NEW v \in Workers, Seen(v, n) # "absent" PROVE Seen(v, n)' # "absent"
  BY <1>1, <1>2, <1>3, <1>5 DEF Seen, Free
<1> QED
  BY <1>4, <1>5

LEMMA CommitDrafts ==
    ASSUME RegistrationInv, NEW w \in Workers, NEW q, NEW rows, CommitBy(w, q, rows)
    PROVE  DraftInv'
<1>1. DraftsAreSound'
  <2> SUFFICES ASSUME NEW n \in Machines
               PROVE  /\ draft'[n].by \notin broken'
                      /\ draft'[n].by # None <=> draft'[n].status # "absent"
                      /\ status'[n] # "quarantined" /\ draft'[n].status # "quarantined"
                      /\ status'[n] = "registered" \/ draft'[n].status = "registered" => cert'[n] # None
    BY DEF DraftsAreSound
  <2>1. /\ status'[n] = rows[n]
        /\ rows[n] = Seen(w, n) \/ rows[n] = "revoked"
        /\ draft[n].by = w => draft'[n] = Free
        /\ draft[n].by # w => draft'[n] = draft[n]
    BY CommittedRow
  <2>2. broken' = broken /\ (cert[n] # None => cert'[n] # None) /\ None \notin broken
    BY RegistrationAssumption DEF CommitBy, RegistrationInv, TypeOK
  <2>3. /\ draft[n].by \notin broken
        /\ draft[n].by # None <=> draft[n].status # "absent"
        /\ status[n] # "quarantined" /\ draft[n].status # "quarantined"
        /\ status[n] = "registered" \/ draft[n].status = "registered" => cert[n] # None
    BY DEF RegistrationInv, DraftInv, DraftsAreSound
  <2>4. rows[n] \in {status[n], draft[n].status, "revoked"}
    BY <2>1 DEF Seen
  <2> QED
    BY <2>1, <2>2, <2>3, <2>4 DEF Free
<1>2. WritersHoldRows'
  <2> SUFFICES ASSUME NEW n \in Machines, NEW v \in Workers, ~parted'[n]
               PROVE  /\ \A r \in Requests : Writing(r, v, n)' => draft'[n].by = v
                      /\ draft'[n].by = v =>
                            \E p \in Requests : Writing(p, v, n)' /\ draft'[n].status = Target[job'[p].kind]
                      /\ draft'[n].by = v /\ application'[n] = "absent" =>
                            \E p \in Requests : Writing(p, v, n)' /\ job'[p].kind = "register"
    BY DEF WritersHoldRows
  <2>1. ~parted[n] /\ ~CutBy(w, q, n)
    BY CommittedRow
  <2>2. ASSUME NEW r \in Requests, Writing(r, v, n)' PROVE draft'[n].by = v
    <3>1. r # q /\ Writing(r, v, n) /\ v # w
      BY <2>1, <2>2, CommitServes
    <3>2. draft[n].by = v
      BY <2>1, <3>1 DEF RegistrationInv, DraftInv, WritersHoldRows
    <3> QED
      BY <3>1, <3>2, CommittedRow
  <2>3. ASSUME draft'[n].by = v PROVE v # w /\ draft'[n] = draft[n] /\ draft[n].by = v
    <3>1. v # None
      BY RegistrationAssumption
    <3> QED
      BY <2>3, <3>1, CommittedRow DEF Free
  <2>4. ASSUME NEW p \in Requests, Writing(p, v, n), v # w PROVE Writing(p, v, n)' /\ job'[p] = job[p]
    <3>1. p # q
      <4>1. q # None => job[q].worker = w
        BY DEF CommitBy
      <4>2. p # None /\ job[p].worker = v
        BY <2>4, RegistrationAssumption DEF Writing, Serves
      <4> QED
        BY <2>4, <4>1, <4>2
    <3> QED
      BY <2>4, <3>1, CommitServes DEF CommitBy
  <2>5. ASSUME draft'[n].by = v
        PROVE  \E p \in Requests : Writing(p, v, n)' /\ draft'[n].status = Target[job'[p].kind]
    <3>1. PICK p \in Requests : Writing(p, v, n) /\ draft[n].status = Target[job[p].kind]
      BY <2>1, <2>3, <2>5 DEF RegistrationInv, DraftInv, WritersHoldRows
    <3> QED
      BY <2>3, <2>4, <2>5, <3>1
  <2>6. ASSUME draft'[n].by = v, application'[n] = "absent"
        PROVE  \E p \in Requests : Writing(p, v, n)' /\ job'[p].kind = "register"
    <3>1. application[n] = "absent"
      BY <2>6 DEF CommitBy
    <3>2. PICK p \in Requests : Writing(p, v, n) /\ job[p].kind = "register"
      BY <2>1, <2>3, <2>6, <3>1 DEF RegistrationInv, DraftInv, WritersHoldRows
    <3> QED
      BY <2>3, <2>4, <2>6, <3>2
  <2> QED
    BY <2>2, <2>5, <2>6
<1> QED
  BY <1>1, <1>2 DEF DraftInv

\* What a COMMIT does to the rows seen and accepted, if it accepts no registration.
LEMMA CommitRows ==
    ASSUME RegistrationInv, NEW w \in Workers, NEW q, NEW rows, CommitBy(w, q, rows)
    PROVE  /\ SeenRowsExist'
           /\ applied' = applied /\ application' = application => RowsAreApplied'
           /\ applied' = applied => FilesAreFirst'
<1>1. SeenRowsExist'
  <2> SUFFICES ASSUME NEW n \in Machines, NEW v \in Workers, NEW r \in Requests, Serves(r, v, n)', job'[r].pc # "insert"
               PROVE  Seen(v, n)' # "absent"
    BY DEF SeenRowsExist
  <2>1. Serves(r, v, n) /\ job[r].pc # "insert"
    <3>1. r # q => job'[r] = job[r]
      BY DEF CommitBy
    <3>2. r = q => q # None
      BY RegistrationAssumption
    <3> QED
      BY <3>1, <3>2, CommitServes
  <2>2. Seen(v, n) # "absent"
    BY <2>1 DEF RegistrationInv, RowInv, SeenRowsExist
  <2> QED
    BY <2>2, CommitView
<1>2. ASSUME applied' = applied, application' = application PROVE RowsAreApplied'
  BY <1>2, CommitView DEF RegistrationInv, RowInv, RowsAreApplied
<1>3. ASSUME applied' = applied PROVE FilesAreFirst'
  <2>1. ASSUME NEW n \in Machines, NEW v \in Workers, NEW r \in Requests, Serves(r, v, n)', job'[r].pc = "file"
        PROVE  Serves(r, v, n) /\ job[r].pc = "file"
    <3>1. r # q
      BY <2>1, CommitServes, RegistrationAssumption
    <3> QED
      BY <2>1, <3>1, CommitServes DEF CommitBy
  <2> QED
    BY <1>3, <2>1 DEF RegistrationInv, RowInv, FilesAreFirst
<1> QED
  BY <1>1, <1>2, <1>3

\* A row that a COMMIT takes over, and no write was cut in two by it, is the committer's own.
LEMMA CommitOwn ==
    ASSUME RegistrationInv, NEW w \in Workers, NEW q, NEW rows, CommitBy(w, q, rows),
           NEW n \in Machines, ~parted'[n]
    PROVE  /\ ~parted[n]
           /\ \A p \in Requests : Writing(p, w, n) => p = q
           /\ draft[n].by = w => /\ q \in Requests /\ Writing(q, w, n)
                                 /\ draft[n].status = Target[job[q].kind]
                                 /\ application[n] = "absent" => job[q].kind = "register"
           /\ \A v \in Workers, p \in Requests : Writing(p, v, n) => draft[n].by = v
<1>1. ~parted[n] /\ ~CutBy(w, q, n)
  BY CommittedRow
<1>2. \A p \in Requests : Writing(p, w, n) => p = q
  BY <1>1, CommitServes
<1>3. ASSUME draft[n].by = w
      PROVE  /\ q \in Requests /\ Writing(q, w, n)
             /\ draft[n].status = Target[job[q].kind]
             /\ application[n] = "absent" => job[q].kind = "register"
  <2>1. PICK p \in Requests : Writing(p, w, n) /\ draft[n].status = Target[job[p].kind]
    BY <1>1, <1>3 DEF RegistrationInv, DraftInv, WritersHoldRows
  <2>2. application[n] = "absent" => \E o \in Requests : Writing(o, w, n) /\ job[o].kind = "register"
    BY <1>1, <1>3 DEF RegistrationInv, DraftInv, WritersHoldRows
  <2> QED
    BY <1>2, <2>1, <2>2
<1>4. \A v \in Workers, p \in Requests : Writing(p, v, n) => draft[n].by = v
  BY <1>1 DEF RegistrationInv, DraftInv, WritersHoldRows
<1> QED
  BY <1>1, <1>2, <1>3, <1>4

\* A revocation that waits for its UPDATE waits on, and what it relies on is still there.
LEMMA CommitRevokes ==
    ASSUME RegistrationInv, NEW w \in Workers, NEW q, NEW rows, CommitBy(w, q, rows),
           \A n \in Machines : application[n] \in FollowedUp => application'[n] \in FollowedUp,
           \A n \in Machines : /\ ~parted'[n] /\ q \in Requests /\ Writing(q, w, n) /\ job[q].kind # "register"
                               => application'[n] \in FollowedUp
    PROVE  RevokesAreDecided'
<1> SUFFICES ASSUME NEW n \in Machines, NEW v \in Workers, NEW r \in Requests, Serves(r, v, n)',
                    job'[r].pc = "write", job'[r].kind = "revoke", ~parted'[n]
             PROVE  \/ application'[n] \in FollowedUp
                    \/ \E p \in Requests : Writing(p, v, n)' /\ job'[p].kind # "register"
  BY DEF RevokesAreDecided
<1>1. r # q /\ Serves(r, v, n)
  BY CommitServes, RegistrationAssumption
<1>2. job[r].pc = "write" /\ job[r].kind = "revoke" /\ ~parted[n]
  BY <1>1, CommitOwn DEF CommitBy
<1>3. CASE application[n] \in FollowedUp
  BY <1>3
<1>4. CASE \E p \in Requests : Writing(p, v, n) /\ job[p].kind # "register"
  <2>1. PICK p \in Requests : Writing(p, v, n) /\ job[p].kind # "register"
    BY <1>4
  <2>2. CASE p = q
    <3>1. v = w
      <4>1. q # None
        BY <2>2, RegistrationAssumption
      <4> QED
        BY <2>1, <2>2, <4>1 DEF CommitBy, Writing, Serves
    <3> QED
      BY <2>1, <2>2, <3>1
  <2>3. CASE p # q
    BY <2>1, <2>3, CommitServes DEF CommitBy
  <2> QED
    BY <2>2, <2>3
<1> QED
  BY <1>1, <1>2, <1>3, <1>4 DEF RegistrationInv, RowInv, RevokesAreDecided

RowsHold == DraftInv /\ SeenRowsExist /\ RowsAreApplied /\ FilesAreFirst /\ RevokesAreDecided
TablesHold == OneRegistration /\ TablesAgree

\* A COMMIT of a handler that is not halfway, or of another manager's.
LEMMA CommitQuietly ==
    ASSUME RegistrationInv, NEW w \in Workers, NEW q \in Requests \cup {None}, CommitBy(w, q, View(w)),
           q # None => ~Halfway(q), UNCHANGED <<application, applied>>
    PROVE  RowsHold' /\ TablesHold'
<1>1. DraftInv' /\ SeenRowsExist' /\ RowsAreApplied' /\ FilesAreFirst'
  BY CommitDrafts, CommitRows
<1>2. ASSUME q \in Requests PROVE \A n : ~Writing(q, w, n)
  BY <1>2, RegistrationAssumption DEF Writing
<1>3. RevokesAreDecided'
  BY <1>2, CommitRevokes
<1>4. TablesAgree'
  <2> SUFFICES ASSUME NEW n \in Machines, ~parted'[n]
               PROVE  \/ application'[n] = status'[n]
                      \/ status'[n] = "revoked" /\ application'[n] \in FollowedUp
    BY DEF TablesAgree
  <2>1. ~parted[n] /\ draft[n].by # w
    BY <1>2, CommitOwn
  <2>2. status'[n] = status[n]
    BY <2>1 DEF CommitBy, Commit, View, Seen
  <2> QED
    BY <2>1, <2>2 DEF RegistrationInv, Safety, TablesAgree
<1>5. OneRegistration'
  BY DEF RegistrationInv, Safety, OneRegistration
<1> QED
  BY <1>1, <1>3, <1>4, <1>5 DEF RowsHold, TablesHold

LEMMA FileStep ==
    ASSUME RegistrationInv, NEW q \in Requests, File(q)
    PROVE  RowsHold' /\ TablesHold'
<1> DEFINE m == job[q].machine
           w == job[q].worker
<1>1. /\ Live(q) /\ job[q].pc \in Places(job[q].kind) /\ m \in Machines /\ w \in Workers
      /\ \A r \in Requests : r # q => job'[r] = job[r]
      /\ job'[q].machine = m /\ job'[q].worker = w /\ job'[q].kind = job[q].kind
  BY StepMoves DEF Step
<1>2. /\ job[q].pc = "file" /\ w \notin broken /\ broken' = broken /\ Commit(w, q, View(w))
      /\ application' = [application EXCEPT ![m] = "pending"]
      /\ applied' = [applied EXCEPT ![m] = applied[m] \cup {q}]
      /\ cert' = cert
  BY DEF File, At, certs
<1>3. job'[q].pc = "done"
  <2>1. job \in [Requests -> JobType]
    BY DEF RegistrationInv, TypeOK
  <2> QED
    BY <2>1 DEF File, GoTo, JobType
<1>4. /\ application'[m] = "pending" /\ \A n \in Machines : n # m => application'[n] = application[n]
      /\ applied'[m] = applied[m] \cup {q} /\ \A n \in Machines : n # m => applied'[n] = applied[n]
  BY <1>1, <1>2 DEF RegistrationInv, TypeOK
<1>5. CommitBy(w, q, View(w))
  BY <1>1, <1>2, <1>3, <1>4 DEF CommitBy, View
<1>6. job[q].kind = "register"
  BY <1>1, <1>2 DEF Places
<1>7. Serves(q, w, m) /\ Writing(q, w, m) /\ \A n : n # m => ~Writing(q, w, n)
  BY <1>1, <1>2 DEF Serves, Writing, Halfway
<1>8. applied[m] = {} /\ application[m] = "absent" /\ Seen(w, m) # "absent"
  BY <1>1, <1>2, <1>7 DEF RegistrationInv, RowInv, FilesAreFirst, RowsAreApplied, SeenRowsExist
<1>9. DraftInv' /\ SeenRowsExist'
  BY <1>1, <1>5, CommitDrafts, CommitRows
<1>10. RowsAreApplied'
  <2> SUFFICES ASSUME NEW n \in Machines
               PROVE  (applied'[n] # {} => status'[n] # "absent") /\ (applied'[n] = {} => application'[n] = "absent")
    BY DEF RowsAreApplied
  <2>1. CASE n = m
    <3>1. status'[m] # "absent"
      BY <1>1, <1>2, <1>8 DEF Commit, View
    <3> QED
      BY <1>4, <2>1, <3>1
  <2>2. CASE n # m
    <3>1. status[n] # "absent" => status'[n] # "absent"
      BY <1>1, <1>5, CommitView
    <3> QED
      BY <1>4, <2>2, <3>1 DEF RegistrationInv, RowInv, RowsAreApplied
  <2> QED
    BY <2>1, <2>2
<1>11. FilesAreFirst'
  <2> SUFFICES ASSUME NEW n \in Machines, NEW v \in Workers, NEW r \in Requests, Serves(r, v, n)', job'[r].pc = "file"
               PROVE  /\ applied'[n] = {}
                      /\ \A u \in Workers, p \in Requests : Serves(p, u, n)' /\ job'[p].pc = "file" => p = r
    BY DEF FilesAreFirst
  <2>1. r # q /\ Serves(r, v, n) /\ job[r].pc = "file"
    BY <1>1, <1>3, <1>5, CommitServes
  <2>2. n # m
    BY <1>1, <1>2, <1>7, <2>1 DEF RegistrationInv, RowInv, FilesAreFirst
  <2>3. ASSUME NEW u \in Workers, NEW p \in Requests, Serves(p, u, n)', job'[p].pc = "file" PROVE p = r
    <3>1. Serves(p, u, n) /\ job[p].pc = "file"
      BY <1>1, <1>3, <1>5, <2>3, CommitServes
    <3> QED
      BY <2>1, <3>1 DEF RegistrationInv, RowInv, FilesAreFirst
  <2> QED
    BY <1>4, <2>1, <2>2, <2>3 DEF RegistrationInv, RowInv, FilesAreFirst
<1>12. RevokesAreDecided'
  <2>1. \A n \in Machines : application[n] \in FollowedUp => application'[n] \in FollowedUp
    BY <1>4, <1>8 DEF FollowedUp
  <2> QED
    BY <1>1, <1>5, <1>6, <2>1, CommitRevokes
<1>13. TablesAgree'
  <2> SUFFICES ASSUME NEW n \in Machines, ~parted'[n]
               PROVE  \/ application'[n] = status'[n]
                      \/ status'[n] = "revoked" /\ application'[n] \in FollowedUp
    BY DEF TablesAgree
  <2>1. status'[n] = Seen(w, n)
    BY <1>2 DEF Commit, View
  <2>2. CASE n = m
    <3>1. draft[m].by = w /\ draft[m].status = Target["register"]
      BY <1>1, <1>5, <1>6, <1>7, <2>2, CommitOwn
    <3> QED
      BY <1>4, <2>1, <2>2, <3>1 DEF Seen, Target
  <2>3. CASE n # m
    <3>1. ~parted[n] /\ draft[n].by # w
      BY <1>1, <1>5, <1>7, <2>3, CommitOwn
    <3> QED
      BY <1>4, <2>1, <2>3, <3>1 DEF Seen, RegistrationInv, Safety, TablesAgree
  <2> QED
    BY <2>2, <2>3
<1>14. OneRegistration'
  BY <1>4, <1>8 DEF RegistrationInv, Safety, OneRegistration
<1> QED
  BY <1>9, <1>10, <1>11, <1>12, <1>13, <1>14 DEF RowsHold, TablesHold

LEMMA FollowUpStep ==
    ASSUME RegistrationInv, NEW q \in Requests, FollowUp(q)
    PROVE  RowsHold' /\ TablesHold'
<1> DEFINE m == job[q].machine
           w == job[q].worker
           to == Target[job[q].kind]
<1>1. /\ Live(q) /\ job[q].pc \in Places(job[q].kind) /\ m \in Machines /\ w \in Workers
      /\ \A r \in Requests : r # q => job'[r] = job[r]
      /\ job'[q].machine = m /\ job'[q].worker = w /\ job'[q].kind = job[q].kind
  BY StepMoves DEF Step
<1>2. /\ job[q].pc = "follow" /\ w \notin broken /\ broken' = broken /\ Commit(w, q, View(w))
      /\ application' = [application EXCEPT ![m] = IF application[m] = "absent" THEN application[m] ELSE to]
      /\ applied' = applied /\ cert' = cert
  BY DEF FollowUp, At, certs
<1>3. job'[q].pc \in {"stamp", "done", "failed"} /\ job[q].kind \in {"approve", "reject", "expire"} /\ to \in FollowedUp
  <2>1. job'[q].pc \in Follows(job[q].kind, job[q].pc)
    BY StepGoes DEF Step
  <2>2. job[q].kind \in {"approve", "reject", "expire"}
    BY <1>1, <1>2 DEF Places
  <2> QED
    BY <1>2, <2>1, <2>2 DEF Follows, AfterWrite, Target, FollowedUp
<1>4. /\ application'[m] = IF application[m] = "absent" THEN application[m] ELSE to
      /\ \A n \in Machines : n # m => application'[n] = application[n]
  BY <1>1, <1>2 DEF RegistrationInv, TypeOK
<1>5. CommitBy(w, q, View(w))
  <2>1. \A n \in Machines : application'[n] = "absent" => application[n] = "absent"
    BY <1>3, <1>4 DEF FollowedUp
  <2> QED
    BY <1>1, <1>2, <1>3, <2>1 DEF CommitBy, View
<1>6. Writing(q, w, m) /\ \A n : n # m => ~Writing(q, w, n)
  BY <1>1, <1>2 DEF Serves, Writing, Halfway
<1>7. DraftInv' /\ SeenRowsExist' /\ FilesAreFirst'
  BY <1>1, <1>2, <1>5, CommitDrafts, CommitRows
<1>8. RowsAreApplied'
  <2> SUFFICES ASSUME NEW n \in Machines
               PROVE  (applied'[n] # {} => status'[n] # "absent") /\ (applied'[n] = {} => application'[n] = "absent")
    BY DEF RowsAreApplied
  <2>1. status[n] # "absent" => status'[n] # "absent"
    BY <1>1, <1>5, CommitView
  <2>2. application[n] = "absent" => application'[n] = "absent"
    BY <1>4
  <2> QED
    BY <1>2, <2>1, <2>2 DEF RegistrationInv, RowInv, RowsAreApplied
<1>9. ASSUME ~parted'[m] PROVE application'[m] = to /\ draft[m].by = w /\ draft[m].status = to
  <2>1. draft[m].by = w
    BY <1>1, <1>5, <1>6, <1>9, CommitOwn
  <2>2. draft[m].status = to /\ (application[m] = "absent" => job[q].kind = "register")
    BY <1>1, <1>5, <1>9, <2>1, CommitOwn
  <2> QED
    BY <1>3, <1>4, <2>1, <2>2
<1>10. RevokesAreDecided'
  <2>1. \A n \in Machines : application[n] \in FollowedUp => application'[n] \in FollowedUp
    BY <1>3, <1>4 DEF FollowedUp
  <2> QED
    BY <1>1, <1>3, <1>5, <1>6, <1>9, <2>1, CommitRevokes
<1>11. TablesAgree'
  <2> SUFFICES ASSUME NEW n \in Machines, ~parted'[n]
               PROVE  \/ application'[n] = status'[n]
                      \/ status'[n] = "revoked" /\ application'[n] \in FollowedUp
    BY DEF TablesAgree
  <2>1. status'[n] = Seen(w, n)
    BY <1>2 DEF Commit, View
  <2>2. CASE n = m
    BY <1>9, <2>1, <2>2 DEF Seen
  <2>3. CASE n # m
    <3>1. ~parted[n] /\ draft[n].by # w
      BY <1>1, <1>5, <1>6, <2>3, CommitOwn
    <3> QED
      BY <1>4, <2>1, <2>3, <3>1 DEF Seen, RegistrationInv, Safety, TablesAgree
  <2> QED
    BY <2>2, <2>3
<1>12. OneRegistration'
  BY <1>2 DEF RegistrationInv, Safety, OneRegistration
<1> QED
  BY <1>7, <1>8, <1>10, <1>11, <1>12 DEF RowsHold, TablesHold

LEMMA WriteAloneStep ==
    ASSUME RegistrationInv, NEW q \in Requests, WriteAlone(q)
    PROVE  RowsHold' /\ TablesHold'
<1> DEFINE m == job[q].machine
           w == job[q].worker
<1>1. /\ Live(q) /\ job[q].pc \in Places(job[q].kind) /\ m \in Machines /\ w \in Workers
      /\ \A r \in Requests : r # q => job'[r] = job[r]
      /\ job'[q].machine = m /\ job'[q].worker = w /\ job'[q].kind = job[q].kind
  BY StepMoves DEF Step
<1>2. job[q].pc = "write" /\ job[q].kind = "revoke" /\ job'[q].pc \in {"uncertify", "failed"}
  <2>1. job[q].pc = "write" /\ job[q].kind = "revoke"
    BY <1>1 DEF WriteAlone, Writes, At, Places, Target, FollowedUp
  <2>2. job'[q].pc \in Follows(job[q].kind, job[q].pc)
    BY StepGoes DEF Step
  <2> QED
    BY <2>1, <2>2 DEF Follows
<1>3. PICK rows : rows = [View(w) EXCEPT ![m] = "revoked"]
  OBVIOUS
<1>4. /\ w \notin broken /\ broken' = broken /\ Commit(w, q, rows)
      /\ UNCHANGED <<application, applied>> /\ cert' = cert
  BY <1>2, <1>3 DEF WriteAlone, Writes, At, certs, Target
<1>5. rows[m] = "revoked" /\ \A n \in Machines : n # m => rows[n] = Seen(w, n)
  BY <1>1, <1>3 DEF View
<1>6. CommitBy(w, q, rows)
  BY <1>1, <1>2, <1>4, <1>5 DEF CommitBy
<1>7. DraftInv' /\ SeenRowsExist' /\ RowsAreApplied' /\ FilesAreFirst'
  BY <1>1, <1>4, <1>6, CommitDrafts, CommitRows
<1>8. \A n : ~Writing(q, w, n)
  BY <1>2 DEF Writing, Halfway
<1>9. RevokesAreDecided'
  BY <1>1, <1>4, <1>6, <1>8, CommitRevokes
<1>10. TablesAgree'
  <2> SUFFICES ASSUME NEW n \in Machines, ~parted'[n]
               PROVE  \/ application'[n] = status'[n]
                      \/ status'[n] = "revoked" /\ application'[n] \in FollowedUp
    BY DEF TablesAgree
  <2>1. ~parted[n] /\ draft[n].by # w /\ \A p \in Requests : ~Writing(p, w, n)
    BY <1>1, <1>6, <1>8, CommitOwn
  <2>2. status'[n] = rows[n]
    BY <1>4 DEF Commit
  <2>3. CASE n = m
    <3>1. Serves(q, w, m)
      BY <1>1, <1>4 DEF Serves
    <3>2. application[m] \in FollowedUp
      BY <1>1, <1>2, <2>1, <2>3, <3>1 DEF RegistrationInv, RowInv, RevokesAreDecided
    <3> QED
      BY <1>4, <1>5, <2>2, <2>3, <3>2
  <2>4. CASE n # m
    BY <1>4, <1>5, <2>1, <2>2, <2>4 DEF Seen, RegistrationInv, Safety, TablesAgree
  <2> QED
    BY <2>3, <2>4
<1>11. OneRegistration'
  BY <1>4 DEF RegistrationInv, Safety, OneRegistration
<1> QED
  BY <1>7, <1>9, <1>10, <1>11 DEF RowsHold, TablesHold

-----------------------------------------------------------------------------
(* A session fails, or ends with its worker: what it wrote is gone.        *)

LostBy(w) ==
    /\ draft' = Without(w)
    /\ UNCHANGED <<status, parted, application, applied, cert>>
    /\ \A v : v # w => (v \in broken' <=> v \in broken)
    /\ \A r \in Requests : \A n : ~Serves(r, w, n)'
    /\ \A r \in Requests : \A v, n : v # w => (Serves(r, v, n)' <=> Serves(r, v, n))
    /\ \A r \in Requests : \A v, n : v # w /\ Serves(r, v, n)' => job'[r] = job[r]

LEMMA LostStep == ASSUME RegistrationInv, NEW w \in Workers, LostBy(w) PROVE RowsHold' /\ TablesHold'
<1>1. \A n \in Machines : /\ draft[n].by = w => draft'[n] = Free
                          /\ draft[n].by # w => draft'[n] = draft[n]
  BY DEF LostBy, Without
<1>2. None \notin Workers /\ None \notin broken'
  BY RegistrationAssumption DEF LostBy, RegistrationInv, TypeOK
<1>3. \A n \in Machines, v \in Workers :
          /\ draft'[n].by # w
          /\ draft'[n].by = v => v # w /\ draft'[n] = draft[n]
          /\ v # w => Seen(v, n)' = Seen(v, n)
  <2>1. ASSUME NEW n \in Machines, NEW v \in Workers
        PROVE  /\ draft'[n].by # w
               /\ draft'[n].by = v => v # w /\ draft'[n] = draft[n]
    BY <1>1, <1>2 DEF Free
  <2>2. ASSUME NEW n \in Machines, NEW v \in Workers, v # w PROVE Seen(v, n)' = Seen(v, n)
    BY <1>1, <1>2, <2>2 DEF LostBy, Seen, Free
  <2> QED
    BY <2>1, <2>2
<1>4. \A r \in Requests, v \in Workers, n \in Machines : Serves(r, v, n)' => v # w /\ Serves(r, v, n) /\ job'[r] = job[r]
  BY DEF LostBy
<1>5. \A r \in Requests, v \in Workers, n \in Machines :
          v # w => /\ Writing(r, v, n) => Writing(r, v, n)' /\ job'[r] = job[r]
                   /\ Writing(r, v, n)' => Writing(r, v, n)
  BY DEF LostBy, Writing, Halfway
<1>6. DraftInv'
  <2>1. DraftsAreSound'
    <3> SUFFICES ASSUME NEW n \in Machines
                 PROVE  /\ draft'[n].by \notin broken'
                        /\ draft'[n].by # None <=> draft'[n].status # "absent"
                        /\ status'[n] # "quarantined" /\ draft'[n].status # "quarantined"
                        /\ status'[n] = "registered" \/ draft'[n].status = "registered" => cert'[n] # None
      BY DEF DraftsAreSound
    <3>1. draft'[n].by \notin broken'
      BY <1>1, <1>2 DEF LostBy, Free, RegistrationInv, DraftInv, DraftsAreSound
    <3>2. UNCHANGED <<status, cert>>
      BY DEF LostBy
    <3>3. draft'[n] = Free \/ draft'[n] = draft[n]
      BY <1>1
    <3> QED
      BY <3>1, <3>2, <3>3 DEF Free, RegistrationInv, DraftInv, DraftsAreSound
  <2>2. WritersHoldRows'
    <3> SUFFICES ASSUME NEW n \in Machines, NEW v \in Workers, ~parted'[n]
                 PROVE  /\ \A r \in Requests : Writing(r, v, n)' => draft'[n].by = v
                        /\ draft'[n].by = v =>
                              \E p \in Requests : Writing(p, v, n)' /\ draft'[n].status = Target[job'[p].kind]
                        /\ draft'[n].by = v /\ application'[n] = "absent" =>
                              \E p \in Requests : Writing(p, v, n)' /\ job'[p].kind = "register"
      BY DEF WritersHoldRows
    <3>1. ~parted[n] /\ application'[n] = application[n]
      BY DEF LostBy
    <3>2. ASSUME NEW r \in Requests, Writing(r, v, n)' PROVE draft'[n].by = v
      <4>1. v # w /\ Writing(r, v, n)
        BY <1>4, <1>5, <3>2 DEF Writing
      <4>2. draft[n].by = v
        BY <3>1, <4>1 DEF RegistrationInv, DraftInv, WritersHoldRows
      <4> QED
        BY <1>1, <4>1, <4>2
    <3>3. ASSUME draft'[n].by = v
          PROVE  \E p \in Requests : Writing(p, v, n)' /\ draft'[n].status = Target[job'[p].kind]
      <4>1. PICK p \in Requests : Writing(p, v, n) /\ draft[n].status = Target[job[p].kind]
        BY <1>3, <3>1, <3>3 DEF RegistrationInv, DraftInv, WritersHoldRows
      <4> QED
        BY <1>3, <1>5, <3>3, <4>1
    <3>4. ASSUME draft'[n].by = v, application'[n] = "absent"
          PROVE  \E p \in Requests : Writing(p, v, n)' /\ job'[p].kind = "register"
      <4>0. draft[n].by = v /\ application[n] = "absent"
        BY <1>3, <3>1, <3>4
      <4>1. PICK p \in Requests : Writing(p, v, n) /\ job[p].kind = "register"
        BY <3>1, <4>0 DEF RegistrationInv, DraftInv, WritersHoldRows
      <4> QED
        BY <1>3, <1>5, <3>4, <4>1
    <3> QED
      BY <3>2, <3>3, <3>4
  <2> QED
    BY <2>1, <2>2 DEF DraftInv
<1>7. SeenRowsExist' /\ RowsAreApplied' /\ FilesAreFirst'
  <2>1. SeenRowsExist'
    BY <1>3, <1>4 DEF RegistrationInv, RowInv, SeenRowsExist
  <2>2. RowsAreApplied'
    BY DEF LostBy, RegistrationInv, RowInv, RowsAreApplied
  <2>3. FilesAreFirst'
    BY <1>4 DEF LostBy, RegistrationInv, RowInv, FilesAreFirst
  <2> QED
    BY <2>1, <2>2, <2>3
<1>8. RevokesAreDecided'
  <2> SUFFICES ASSUME NEW n \in Machines, NEW v \in Workers, NEW r \in Requests, Serves(r, v, n)',
                      job'[r].pc = "write", job'[r].kind = "revoke", ~parted'[n]
               PROVE  \/ application'[n] \in FollowedUp
                      \/ \E p \in Requests : Writing(p, v, n)' /\ job'[p].kind # "register"
    BY DEF RevokesAreDecided
  <2>1. v # w /\ Serves(r, v, n) /\ job'[r] = job[r] /\ ~parted[n] /\ application'[n] = application[n]
    BY <1>4 DEF LostBy
  <2>2. \/ application[n] \in FollowedUp
        \/ \E p \in Requests : Writing(p, v, n) /\ job[p].kind # "register"
    BY <2>1 DEF RegistrationInv, RowInv, RevokesAreDecided
  <2> QED
    BY <1>5, <2>1, <2>2
<1>9. OneRegistration' /\ TablesAgree'
  BY DEF LostBy, RegistrationInv, Safety, OneRegistration, TablesAgree
<1> QED
  BY <1>6, <1>7, <1>8, <1>9 DEF RowsHold, TablesHold

-----------------------------------------------------------------------------
(* The steps between: nothing is committed, and no session fails.          *)

\* A handler moves on without having written, and without starting to: its place was not
\* halfway, and is not.
LEMMA QuietStep ==
    ASSUME RegistrationInv, NEW q \in Requests,
           UNCHANGED <<machineTable, application, applied, broken>>,
           \A n \in Machines : cert[n] # None => cert'[n] # None,
           \A r \in Requests : r # q => job'[r] = job[r],
           ~Halfway(q), ~Halfway(q)',
           \A n \in Machines, v \in Workers :
              Serves(q, v, n)' => /\ job'[q].pc # "insert" => Seen(v, n) # "absent"
                                  /\ job'[q].pc = "write" /\ job'[q].kind = "revoke" /\ ~parted[n] =>
                                        \/ application[n] \in FollowedUp
                                        \/ \E p \in Requests : Writing(p, v, n) /\ job[p].kind # "register"
    PROVE  RowsHold' /\ TablesHold'
<1>1. UNCHANGED <<status, draft, parted, application, applied, broken>>
  BY DEF machineTable
<1>2. \A r \in Requests : \A v, n : /\ r # q => (Serves(r, v, n)' <=> Serves(r, v, n)) /\ job'[r] = job[r]
                                    /\ Writing(r, v, n)' <=> Writing(r, v, n)
                                    /\ Writing(r, v, n) => job'[r] = job[r]
  BY <1>1 DEF Serves, Writing, Halfway, Live
<1>3. \A v, n : Seen(v, n)' = Seen(v, n)
  BY <1>1 DEF Seen
<1>4. DraftsAreSound'
  BY <1>1 DEF RegistrationInv, DraftInv, DraftsAreSound
<1>5. WritersHoldRows'
  BY <1>1, <1>2 DEF RegistrationInv, DraftInv, WritersHoldRows
<1>6. SeenRowsExist'
  BY <1>2, <1>3 DEF RegistrationInv, RowInv, SeenRowsExist
<1>7. RowsAreApplied'
  BY <1>1 DEF RegistrationInv, RowInv, RowsAreApplied
<1>8. FilesAreFirst'
  <2>1. ASSUME NEW r \in Requests, NEW v, NEW n, Serves(r, v, n)', job'[r].pc = "file"
        PROVE  Serves(r, v, n) /\ job[r].pc = "file"
    BY <1>2, <2>1 DEF Halfway
  <2> QED
    BY <1>1, <2>1 DEF RegistrationInv, RowInv, FilesAreFirst
<1>9. RevokesAreDecided'
  <2> SUFFICES ASSUME NEW n \in Machines, NEW v \in Workers, NEW r \in Requests, Serves(r, v, n)',
                      job'[r].pc = "write", job'[r].kind = "revoke", ~parted'[n]
               PROVE  \/ application'[n] \in FollowedUp
                      \/ \E p \in Requests : Writing(p, v, n)' /\ job'[p].kind # "register"
    BY DEF RevokesAreDecided
  <2>1. \/ application[n] \in FollowedUp
        \/ \E p \in Requests : Writing(p, v, n) /\ job[p].kind # "register"
    BY <1>1, <1>2 DEF RegistrationInv, RowInv, RevokesAreDecided
  <2> QED
    BY <1>1, <1>2, <2>1
<1>10. OneRegistration' /\ TablesAgree'
  BY <1>1 DEF RegistrationInv, Safety, OneRegistration, TablesAgree
<1> QED
  BY <1>4, <1>5, <1>6, <1>7, <1>8, <1>9, <1>10 DEF RowsHold, TablesHold, DraftInv

\* The first statement of two: the row is this session's, and this handler is halfway.
LEMMA DraftStep ==
    ASSUME RegistrationInv, NEW q \in Requests, Insert(q) \/ Write(q)
    PROVE  RowsHold' /\ TablesHold'
<1>0. PICK m \in Machines, w \in Workers : m = job[q].machine /\ w = job[q].worker
  BY StepMoves DEF Step
<1> DEFINE k == job[q].kind
           to == Target[k]
<1>1. /\ Live(q) /\ job[q].pc \in Places(k) /\ m \in Machines /\ w \in Workers
      /\ \A r \in Requests : r # q => job'[r] = job[r]
      /\ job'[q].machine = m /\ job'[q].worker = w /\ job'[q].kind = k
      /\ job \in [Requests -> JobType]
  BY <1>0, StepMoves DEF Step, RegistrationInv, TypeOK
<1>2. /\ w \notin broken /\ draft[m].by \in {None, w}
      /\ UNCHANGED <<status, parted, application, applied, broken, cert>>
  BY <1>0 DEF Insert, Write, Writes, At, Unlocked, certs
<1>3. draft'[m] = [by |-> w, status |-> to] /\ \A n \in Machines : n # m => draft'[n] = draft[n]
  <2>1. Insert(q) => k = "register"
    BY <1>0, <1>1 DEF Insert, At, Places
  <2>2. draft' = [draft EXCEPT ![m] = [by |-> w, status |-> to]]
    BY <1>0, <2>1 DEF Insert, Write, Drafted, Target
  <2> QED
    BY <1>0, <1>1, <2>2 DEF RegistrationInv, TypeOK
<1>4. /\ job'[q].pc \in {"file", "follow"}
      /\ job[q].pc = "insert" => k = "register" /\ job'[q].pc = "file" /\ Seen(w, m) = "absent"
      /\ job[q].pc = "write" => k \in {"approve", "reject", "expire"} /\ job'[q].pc = "follow"
      /\ job[q].pc \in {"insert", "write"}
  <2>1. CASE Insert(q)
    BY <1>0, <1>1, <2>1 DEF Insert, At, IsTaken, GoTo, JobType, Places
  <2>2. CASE Write(q)
    <3>1. job[q].pc = "write" /\ job'[q].pc = "follow" /\ to \in FollowedUp
      BY <1>0, <1>1, <2>2 DEF Write, Writes, At, GoTo, JobType
    <3>2. k \in {"approve", "reject", "expire"}
      BY <1>1, <3>1 DEF Places, Target, FollowedUp
    <3> QED
      BY <3>1, <3>2
  <2> QED
    BY <2>1, <2>2
<1>5. to \in {"pending", "registered", "rejected", "expired"} /\ (k = "register" \/ to \in FollowedUp)
  BY <1>4 DEF Target, FollowedUp
<1>6. /\ \A r \in Requests : \A v, n : /\ r # q => (Serves(r, v, n)' <=> Serves(r, v, n)) /\ job'[r] = job[r]
                                       /\ r # q => (Writing(r, v, n)' <=> Writing(r, v, n))
                                       /\ Writing(r, v, n) => r # q
      /\ \A v, n : Serves(q, v, n)' <=> v = w /\ n = m
      /\ Writing(q, w, m)' /\ Serves(q, w, m)
  <2>1. \A r \in Requests : \A v, n : /\ r # q => (Serves(r, v, n)' <=> Serves(r, v, n)) /\ job'[r] = job[r]
                                      /\ r # q => (Writing(r, v, n)' <=> Writing(r, v, n))
    BY <1>0, <1>1, <1>2 DEF Serves, Writing, Halfway, Live
  <2>2. \A v, n : ~Writing(q, v, n)
    BY <1>4 DEF Writing, Halfway
  <2>3. /\ \A v, n : Serves(q, v, n)' <=> v = w /\ n = m
        /\ Writing(q, w, m)' /\ Serves(q, w, m)
    BY <1>0, <1>1, <1>2, <1>4 DEF Serves, Writing, Halfway, Live, Working
  <2> QED
    BY <2>1, <2>2, <2>3
<1>7. w # None
  BY <1>1, RegistrationAssumption
<1>8. DraftInv'
  <2>1. DraftsAreSound'
    <3> SUFFICES ASSUME NEW n \in Machines
                 PROVE  /\ draft'[n].by \notin broken'
                        /\ draft'[n].by # None <=> draft'[n].status # "absent"
                        /\ status'[n] # "quarantined" /\ draft'[n].status # "quarantined"
                        /\ status'[n] = "registered" \/ draft'[n].status = "registered" => cert'[n] # None
      BY DEF DraftsAreSound
    <3>1. CASE n # m
      BY <1>2, <1>3, <3>1 DEF RegistrationInv, DraftInv, DraftsAreSound
    <3>2. CASE n = m
      <4>1. to = "registered" => cert[m] # None
        <5>1. to = "registered" => k = "approve" /\ job[q].pc # "issue"
          BY <1>4 DEF Target
        <5> QED
          BY <1>0, <1>1, <5>1 DEF RegistrationInv, JobInv, ApprovalsHoldCertificates
      <4>2. status[m] # "quarantined" /\ (status[m] = "registered" => cert[m] # None)
        BY <1>1 DEF RegistrationInv, DraftInv, DraftsAreSound
      <4> QED
        BY <1>2, <1>3, <1>5, <1>7, <3>2, <4>1, <4>2
    <3> QED
      BY <3>1, <3>2
  <2>2. WritersHoldRows'
    <3> SUFFICES ASSUME NEW n \in Machines, NEW v \in Workers, ~parted'[n]
                 PROVE  /\ \A r \in Requests : Writing(r, v, n)' => draft'[n].by = v
                        /\ draft'[n].by = v =>
                              \E p \in Requests : Writing(p, v, n)' /\ draft'[n].status = Target[job'[p].kind]
                        /\ draft'[n].by = v /\ application'[n] = "absent" =>
                              \E p \in Requests : Writing(p, v, n)' /\ job'[p].kind = "register"
      BY DEF WritersHoldRows
    <3>1. ~parted[n] /\ application'[n] = application[n]
      BY <1>2
    <3>2. CASE n # m
      <4>1. draft'[n] = draft[n] /\ \A r \in Requests : Writing(r, v, n)' => r # q
        BY <1>3, <1>6, <3>2 DEF Writing
      <4>2. \A r \in Requests : (Writing(r, v, n)' <=> Writing(r, v, n)) /\ (Writing(r, v, n) => job'[r] = job[r])
        BY <1>6, <4>1
      <4> QED
        BY <3>1, <4>1, <4>2 DEF RegistrationInv, DraftInv, WritersHoldRows
    <3>3. CASE n = m
      <4>1. ASSUME NEW r \in Requests, Writing(r, v, m)' PROVE v = w
        <5>1. CASE r = q
          BY <1>6, <4>1, <5>1 DEF Writing
        <5>2. CASE r # q
          <6>0. Writing(r, v, m)
            BY <1>6, <4>1, <5>2
          <6>1. draft[m].by = v
            BY <1>1, <3>1, <3>3, <6>0 DEF RegistrationInv, DraftInv, WritersHoldRows
          <6> QED
            BY <1>2, <6>1, RegistrationAssumption
        <5> QED
          BY <5>1, <5>2
      <4>2. draft'[m].by = v => v = w
        BY <1>3
      <4>3. draft'[m].by = w /\ Writing(q, w, m)' /\ draft'[m].status = Target[job'[q].kind]
        BY <1>1, <1>3, <1>6
      <4>4. ASSUME application[m] = "absent"
            PROVE  \E p \in Requests : Writing(p, w, m)' /\ job'[p].kind = "register"
        <5>1. CASE k = "register"
          BY <1>1, <4>3, <5>1
        <5>2. CASE k # "register" /\ draft[m].by = w
          <6>1. PICK p \in Requests : Writing(p, w, m) /\ job[p].kind = "register"
            BY <1>1, <3>1, <3>3, <4>4, <5>2 DEF RegistrationInv, DraftInv, WritersHoldRows
          <6>2. p # q
            BY <1>6, <6>1
          <6>3. Writing(p, w, m)'
            BY <1>6, <6>1, <6>2
          <6> QED
            BY <1>1, <6>1, <6>2, <6>3
        <5>3. CASE k # "register" /\ draft[m].by = None
          <6>1. Seen(w, m) = status[m]
            BY <1>7, <5>3 DEF Seen
          <6>2. status[m] # "absent"
            BY <1>1, <1>4, <1>6, <5>3, <6>1 DEF RegistrationInv, RowInv, SeenRowsExist
          <6>3. application[m] = status[m] \/ application[m] \in FollowedUp
            BY <1>1, <3>1, <3>3 DEF RegistrationInv, Safety, TablesAgree
          <6> QED
            BY <4>4, <6>2, <6>3 DEF FollowedUp
        <5> QED
          BY <1>2, <5>1, <5>2, <5>3
      <4>5. application'[n] = "absent" =>
                \E p \in Requests : Writing(p, w, m)' /\ job'[p].kind = "register"
        BY <3>1, <3>3, <4>4
      <4>6. CASE v # w
        BY <3>3, <4>1, <4>2, <4>6
      <4>7. CASE v = w
        BY <3>3, <4>3, <4>5, <4>7
      <4> QED
        BY <4>6, <4>7
    <3> QED
      BY <3>2, <3>3
  <2> QED
    BY <2>1, <2>2 DEF DraftInv
<1>9. ASSUME NEW n \in Machines, NEW v \in Workers
      PROVE  (Seen(v, n) # "absent" => Seen(v, n)' # "absent") /\ (v = w /\ n = m => Seen(v, n)' # "absent")
  <2>1. CASE n # m
    BY <1>2, <1>3, <2>1 DEF Seen
  <2>2. CASE n = m /\ v = w
    BY <1>3, <1>5, <2>2 DEF Seen
  <2>3. CASE n = m /\ v # w
    <3>1. draft[m].by # v /\ draft'[m].by # v
      BY <1>2, <1>3, <2>3, RegistrationAssumption
    <3> QED
      BY <1>2, <2>3, <3>1 DEF Seen
  <2> QED
    BY <2>1, <2>2, <2>3
<1>10. SeenRowsExist'
  <2> SUFFICES ASSUME NEW n \in Machines, NEW v \in Workers, NEW r \in Requests, Serves(r, v, n)', job'[r].pc # "insert"
               PROVE  Seen(v, n)' # "absent"
    BY DEF SeenRowsExist
  <2>1. CASE r = q
    BY <1>6, <1>9, <2>1
  <2>2. CASE r # q
    <3>1. Serves(r, v, n) /\ job[r].pc # "insert"
      BY <1>6, <2>2
    <3>2. Seen(v, n) # "absent"
      BY <3>1 DEF RegistrationInv, RowInv, SeenRowsExist
    <3> QED
      BY <1>9, <3>2
  <2> QED
    BY <2>1, <2>2
<1>11. RowsAreApplied'
  BY <1>2 DEF RegistrationInv, RowInv, RowsAreApplied
<1>12. FilesAreFirst'
  <2>1. CASE job[q].pc = "write"
    <3>1. ASSUME NEW r \in Requests, NEW v, NEW n, Serves(r, v, n)', job'[r].pc = "file"
          PROVE  Serves(r, v, n) /\ job[r].pc = "file"
      <4>1. r # q
        BY <1>4, <2>1, <3>1
      <4> QED
        BY <1>6, <3>1, <4>1
    <3> QED
      BY <1>2, <3>1 DEF RegistrationInv, RowInv, FilesAreFirst
  <2>2. CASE job[q].pc = "insert"
    <3>1. draft[m].by = None /\ status[m] = "absent"
      <4>1. draft[m].by = w => Seen(w, m) # "absent"
        BY <1>1, <1>7 DEF Seen, RegistrationInv, DraftInv, DraftsAreSound
      <4>2. draft[m].by = None
        BY <1>2, <1>4, <2>2, <4>1
      <4> QED
        BY <1>4, <1>7, <2>2, <4>2 DEF Seen
    <3>2. applied[m] = {}
      BY <1>1, <3>1 DEF RegistrationInv, RowInv, RowsAreApplied
    <3>3. ASSUME NEW p \in Requests, NEW u \in Workers, Serves(p, u, m)', job'[p].pc = "file" PROVE p = q
      <4> SUFFICES ASSUME p # q PROVE FALSE
        OBVIOUS
      <4>1. Serves(p, u, m) /\ job[p].pc # "insert"
        <5>1. job'[p] = job[p] /\ (Serves(p, u, m)' <=> Serves(p, u, m))
          BY <1>6
        <5> QED
          BY <3>3, <5>1
      <4>2. Seen(u, m) # "absent"
        BY <1>1, <4>1 DEF RegistrationInv, RowInv, SeenRowsExist
      <4>3. u # None
        BY RegistrationAssumption
      <4> QED
        BY <3>1, <4>2, <4>3 DEF Seen
    <3>4. ASSUME NEW r \in Requests, NEW v \in Workers, NEW n \in Machines, n # m, Serves(r, v, n)', job'[r].pc = "file"
          PROVE  r # q /\ Serves(r, v, n) /\ job[r].pc = "file"
      BY <1>6, <3>4
    <3> SUFFICES ASSUME NEW n \in Machines, NEW v \in Workers, NEW r \in Requests, Serves(r, v, n)', job'[r].pc = "file"
                 PROVE  /\ applied'[n] = {}
                        /\ \A u \in Workers, p \in Requests : Serves(p, u, n)' /\ job'[p].pc = "file" => p = r
      BY DEF FilesAreFirst
    <3>5. CASE n = m
      <4>1. r = q
        BY <3>3, <3>5
      <4>2. \A u \in Workers, p \in Requests : Serves(p, u, n)' /\ job'[p].pc = "file" => p = q
        BY <3>3, <3>5
      <4> QED
        BY <1>2, <3>2, <3>5, <4>1, <4>2
    <3>6. CASE n # m
      <4>1. applied[n] = {} /\ \A u \in Workers, p \in Requests : Serves(p, u, n) /\ job[p].pc = "file" => p = r
        BY <3>4, <3>6 DEF RegistrationInv, RowInv, FilesAreFirst
      <4> QED
        BY <1>2, <3>4, <3>6, <4>1
    <3> QED
      BY <3>5, <3>6
  <2> QED
    BY <1>4, <2>1, <2>2
<1>13. RevokesAreDecided'
  <2> SUFFICES ASSUME NEW n \in Machines, NEW v \in Workers, NEW r \in Requests, Serves(r, v, n)',
                      job'[r].pc = "write", job'[r].kind = "revoke", ~parted'[n]
               PROVE  \/ application'[n] \in FollowedUp
                      \/ \E p \in Requests : Writing(p, v, n)' /\ job'[p].kind # "register"
    BY DEF RevokesAreDecided
  <2>1. r # q /\ Serves(r, v, n) /\ job[r] = job'[r]
    BY <1>4, <1>6
  <2>2. \/ application[n] \in FollowedUp
        \/ \E p \in Requests : Writing(p, v, n) /\ job[p].kind # "register"
    BY <1>2, <2>1 DEF RegistrationInv, RowInv, RevokesAreDecided
  <2> QED
    BY <1>2, <1>6, <2>2
<1>14. OneRegistration' /\ TablesAgree'
  BY <1>2 DEF RegistrationInv, Safety, OneRegistration, TablesAgree
<1> QED
  BY <1>8, <1>10, <1>11, <1>12, <1>13, <1>14 DEF RowsHold, TablesHold

\* A statement that raises ends its handler; if it was halfway, its write is cut in two.
LEMMA RaiseStep ==
    ASSUME RegistrationInv, NEW q \in Requests, StatementRaises(q)
    PROVE  RowsHold' /\ TablesHold'
<1>0. PICK m \in Machines, w \in Workers : m = job[q].machine /\ w = job[q].worker
  BY StepMoves DEF Step
<1>1. /\ m \in Machines /\ w \in Workers
      /\ \A r \in Requests : r # q => job'[r] = job[r]
  BY <1>0, StepMoves DEF Step
<1>2. /\ UNCHANGED <<status, draft, application, applied, broken, cert>>
      /\ \A n \in Machines : parted[n] => parted'[n]
      /\ Halfway(q) /\ w \notin broken => parted'[m]
  <2>1. parted' = [parted EXCEPT ![m] = parted[m] \/ (Halfway(q) /\ w \notin broken)]
    BY <1>0 DEF StatementRaises
  <2> QED
    BY <1>0, <1>1, <2>1 DEF StatementRaises, certs, RegistrationInv, TypeOK
<1>3. ~Live(q)'
  <2>1. job \in [Requests -> JobType]
    BY DEF RegistrationInv, TypeOK
  <2> QED
    BY <1>0, <2>1 DEF StatementRaises, GoTo, JobType, Live, Working
<1>4. \A r \in Requests : \A v, n : /\ r # q => (Serves(r, v, n)' <=> Serves(r, v, n)) /\ job'[r] = job[r]
                                    /\ r # q => (Writing(r, v, n)' <=> Writing(r, v, n))
                                    /\ ~Serves(q, v, n)' /\ ~Writing(q, v, n)'
  BY <1>0, <1>1, <1>2, <1>3 DEF Serves, Writing, Halfway, Live
<1>5. \A v, n : Writing(q, v, n) => n = m /\ parted'[m]
  BY <1>0, <1>2 DEF Writing, Serves
<1>6. DraftsAreSound'
  BY <1>2 DEF RegistrationInv, DraftInv, DraftsAreSound
<1>7. WritersHoldRows'
  <2> SUFFICES ASSUME NEW n \in Machines, NEW v \in Workers, ~parted'[n]
               PROVE  /\ \A r \in Requests : Writing(r, v, n)' => draft'[n].by = v
                      /\ draft'[n].by = v =>
                            \E p \in Requests : Writing(p, v, n)' /\ draft'[n].status = Target[job'[p].kind]
                      /\ draft'[n].by = v /\ application'[n] = "absent" =>
                            \E p \in Requests : Writing(p, v, n)' /\ job'[p].kind = "register"
    BY DEF WritersHoldRows
  <2>1. ~parted[n] /\ application'[n] = application[n] /\ draft' = draft
    BY <1>2
  <2>2. \A r \in Requests : (Writing(r, v, n)' <=> Writing(r, v, n)) /\ (Writing(r, v, n) => job'[r] = job[r])
    BY <1>4, <1>5
  <2> QED
    BY <2>1, <2>2 DEF RegistrationInv, DraftInv, WritersHoldRows
<1>8. SeenRowsExist' /\ RowsAreApplied'
  <2>1. \A v, n : Seen(v, n)' = Seen(v, n)
    BY <1>2 DEF Seen
  <2>2. SeenRowsExist'
    BY <1>4, <2>1 DEF RegistrationInv, RowInv, SeenRowsExist
  <2> QED
    BY <1>2, <2>2 DEF RegistrationInv, RowInv, RowsAreApplied
<1>9. FilesAreFirst'
  <2>1. \A r \in Requests : \A v, n : Serves(r, v, n)' => Serves(r, v, n) /\ job'[r] = job[r]
    BY <1>4
  <2> QED
    BY <1>2, <2>1 DEF RegistrationInv, RowInv, FilesAreFirst
<1>10. RevokesAreDecided'
  <2> SUFFICES ASSUME NEW n \in Machines, NEW v \in Workers, NEW r \in Requests, Serves(r, v, n)',
                      job'[r].pc = "write", job'[r].kind = "revoke", ~parted'[n]
               PROVE  \/ application'[n] \in FollowedUp
                      \/ \E p \in Requests : Writing(p, v, n)' /\ job'[p].kind # "register"
    BY DEF RevokesAreDecided
  <2>1. Serves(r, v, n) /\ job[r] = job'[r] /\ ~parted[n]
    BY <1>2, <1>4
  <2>2. \/ application[n] \in FollowedUp
        \/ \E p \in Requests : Writing(p, v, n) /\ job[p].kind # "register"
    BY <2>1 DEF RegistrationInv, RowInv, RevokesAreDecided
  <2>3. \A p \in Requests : Writing(p, v, n) => Writing(p, v, n)' /\ job'[p] = job[p]
    BY <1>4, <1>5
  <2> QED
    BY <1>2, <2>2, <2>3
<1>11. OneRegistration' /\ TablesAgree'
  BY <1>2 DEF RegistrationInv, Safety, OneRegistration, TablesAgree
<1> QED
  BY <1>6, <1>7, <1>8, <1>9, <1>10, <1>11 DEF RowsHold, TablesHold, DraftInv

-----------------------------------------------------------------------------
(* Every step, and the invariant.                                          *)

LEMMA StepRows ==
    ASSUME RegistrationInv, NEW q \in Requests, Step(q)
    PROVE  RowsHold' /\ TablesHold'
<1>0. PICK m \in Machines, w \in Workers : m = job[q].machine /\ w = job[q].worker
  BY StepMoves
<1>1. /\ Live(q) /\ job[q].pc \in Places(job[q].kind)
      /\ \A r \in Requests : r # q => job'[r] = job[r]
      /\ job'[q].machine = m /\ job'[q].worker = w /\ job'[q].kind = job[q].kind
      /\ job'[q].pc \in Follows(job[q].kind, job[q].pc)
      /\ q # None
  BY <1>0, StepMoves, StepGoes, RegistrationAssumption
<1>2. \A n \in Machines : cert[n] # None => cert'[n] # None
  BY StepKeepsCertificates
<1>3. CASE Issue(q) \/ Uncertify(q) \/ IssueFails(q) \/ UncertifyFails(q) \/ InsertFails(q) \/ Stamp(q) \/ Recheck(q)
  <2>1. /\ job[q].pc \in {"issue", "uncertify", "insert", "stamp", "recheck"} /\ ~Halfway(q)
        /\ job[q].pc = "insert" => InsertFails(q) /\ job'[q].pc = "failed"
        /\ job'[q].pc = "write" => job[q].kind = "approve"
        /\ UNCHANGED <<application, applied>> /\ w \notin broken
        /\ Serves(q, w, m)
    <3>1. /\ job[q].pc \in {"issue", "uncertify", "insert", "stamp", "recheck"}
          /\ job[q].pc = "insert" => InsertFails(q)
          /\ UNCHANGED <<application, applied>> /\ w \notin broken
      BY <1>0, <1>3 DEF Issue, Uncertify, IssueFails, UncertifyFails, InsertFails, Stamp, Recheck, At, tables
    <3>2. InsertFails(q) => job'[q].pc = "failed"
      <4>1. job \in [Requests -> JobType]
        BY DEF RegistrationInv, TypeOK
      <4> QED
        BY <4>1 DEF InsertFails, GoTo, JobType
    <3>3. job'[q].pc = "write" => job[q].kind = "approve"
      BY <1>1, <3>1 DEF Follows, Places
    <3> QED
      BY <1>0, <1>1, <3>1, <3>2, <3>3 DEF Halfway, Serves
  <2>2. job'[q].pc \notin {"insert", "file", "follow"} /\ ~Halfway(q)' /\ (job'[q].pc = "write" => Recheck(q))
    <3>1. job'[q].pc \notin {"insert", "file", "follow"}
      BY <1>1, <2>1 DEF Follows
    <3>2. job'[q].pc = "write" => job[q].pc = "recheck"
      BY <1>1, <2>1 DEF Follows
    <3>3. job[q].pc = "recheck" => Recheck(q)
      BY <1>3 DEF Issue, Uncertify, IssueFails, UncertifyFails, InsertFails, Stamp, At
    <3> QED
      BY <3>1, <3>2, <3>3 DEF Halfway
  <2>3. CASE UNCHANGED <<machineTable, broken>>
    <3>1. CASE job[q].pc # "insert"
      <4>1. Seen(w, m) # "absent"
        BY <2>1, <3>1 DEF RegistrationInv, RowInv, SeenRowsExist
      <4>2. \A n \in Machines, v \in Workers :
                Serves(q, v, n)' => /\ job'[q].pc # "insert" => Seen(v, n) # "absent"
                                    /\ ~(job'[q].pc = "write" /\ job'[q].kind = "revoke")
        BY <1>1, <2>1, <4>1 DEF Serves
      <4> QED
        BY <1>1, <1>2, <2>1, <2>2, <2>3, <4>2, QuietStep
    <3>2. CASE job[q].pc = "insert"
      <4>1. \A n \in Machines, v \in Workers : ~Serves(q, v, n)'
        BY <2>1, <3>2 DEF Serves, Live, Working
      <4> QED
        BY <1>1, <1>2, <2>1, <2>2, <2>3, <4>1, QuietStep
    <3> QED
      BY <3>1, <3>2
  <2>4. CASE Commit(w, q, View(w)) /\ broken' = broken /\ ~Recheck(q) /\ job[q].pc # "insert"
    <3>1. job'[q].pc \notin {"insert", "file", "write", "follow"}
      BY <2>2, <2>4
    <3>2. CommitBy(w, q, View(w))
      BY <1>0, <1>1, <1>2, <2>1, <2>4, <3>1 DEF CommitBy, View
    <3> QED
      BY <2>1, <3>2, CommitQuietly
  <2>5. CASE Breaks(w) /\ cert' = cert
    <3>1. broken' = broken \cup {w}
      BY <2>5 DEF Breaks
    <3>2. \A r \in Requests : \A n : ~Serves(r, w, n)'
      BY <3>1 DEF Serves
    <3>3. \A r \in Requests : \A v, n : v # w => (Serves(r, v, n)' <=> Serves(r, v, n))
      BY <1>0, <1>1, <3>1 DEF Serves, Live
    <3>4. \A r \in Requests : \A v, n : v # w /\ Serves(r, v, n)' => job'[r] = job[r]
      BY <1>1 DEF Serves
    <3>5. LostBy(w)
      BY <2>1, <2>5, <3>1, <3>2, <3>3, <3>4 DEF LostBy, Breaks
    <3> QED
      BY <3>5, LostStep
  <2>6. \/ UNCHANGED <<machineTable, broken>>
        \/ Commit(w, q, View(w)) /\ broken' = broken /\ ~Recheck(q) /\ job[q].pc # "insert"
        \/ Breaks(w) /\ cert' = cert
    <3>1. CASE Recheck(q)
      BY <3>1 DEF Recheck, tables
    <3>2. CASE Issue(q) \/ Uncertify(q) \/ Stamp(q)
      BY <1>0, <3>2 DEF Issue, Uncertify, Stamp, MayCommit, Recheck, At
    <3>3. CASE IssueFails(q) \/ UncertifyFails(q) \/ InsertFails(q)
      BY <1>0, <3>3 DEF IssueFails, UncertifyFails, InsertFails, MayBreak, certs
    <3> QED
      BY <1>3, <3>1, <3>2, <3>3
  <2> QED
    BY <2>3, <2>4, <2>5, <2>6
<1> QED
  BY <1>3, DraftStep, FileStep, FollowUpStep, WriteAloneStep, RaiseStep DEF Step

LEMMA StepCertified ==
    ASSUME RegistrationInv, NEW q \in Requests, Step(q), DraftInv'
    PROVE  RegisteredIsCertified'
<1> SUFFICES ASSUME NEW n \in Machines
             PROVE  /\ "registered" \in {status'[n], application'[n]} => cert'[n] # None
                    /\ fingerprint'[n] # None => /\ job'[fingerprint'[n]].machine = n
                                                 /\ job'[fingerprint'[n]].kind = "approve"
  BY DEF RegisteredIsCertified
<1>1. status'[n] = "registered" => cert'[n] # None
  BY DEF DraftInv, DraftsAreSound
<1>2. application'[n] = "registered" => cert'[n] # None
  <2>1. \/ application'[n] = application[n]
        \/ application'[n] = "pending"
        \/ FollowUp(q) /\ n = job[q].machine /\ application'[n] = Target[job[q].kind]
    <3>1. application \in [Machines -> StatusType]
      BY DEF RegistrationInv, TypeOK, StatusType
    <3>2. CASE File(q)
      BY <3>1, <3>2 DEF File
    <3>3. CASE FollowUp(q)
      BY <3>1, <3>3 DEF FollowUp
    <3>4. CASE ~File(q) /\ ~FollowUp(q)
      BY <3>4 DEF Step, Insert, InsertFails, Issue, IssueFails, Recheck, Write, WriteAlone,
             Stamp, Uncertify, UncertifyFails, StatementRaises, tables
    <3> QED
      BY <3>2, <3>3, <3>4
  <2>2. CASE application'[n] = application[n]
    BY <2>2, StepKeepsCertificates DEF RegistrationInv, Safety, RegisteredIsCertified
  <2>3. CASE FollowUp(q) /\ n = job[q].machine /\ application'[n] = "registered" /\ application'[n] = Target[job[q].kind]
    <3>1. /\ Live(q) /\ job[q].pc = "follow" /\ job[q].pc \in Places(job[q].kind)
      BY <2>3, StepMoves DEF FollowUp, At
    <3>2. job[q].kind = "approve"
      BY <2>3, <3>1 DEF Places, Target
    <3>3. cert[n] # None
      BY <2>3, <3>1, <3>2 DEF RegistrationInv, JobInv, ApprovalsHoldCertificates
    <3> QED
      BY <3>3, StepKeepsCertificates
  <2> QED
    BY <2>1, <2>2, <2>3
<1> QED
  BY <1>1, <1>2, StepFingerprints

LEMMA StepInvariance == ASSUME RegistrationInv, NEW q \in Requests, Step(q) PROVE RegistrationInv'
<1>1. RowsHold' /\ TablesHold'
  BY StepRows
<1>2. FingerprintsAreApprovals'
  BY StepFingerprints DEF FingerprintsAreApprovals
<1>3. RegisteredIsCertified'
  BY <1>1, StepCertified DEF RowsHold
<1>4. TypeOK' /\ JobInv'
  BY StepTypes, StepJobs
<1> QED
  BY <1>1, <1>2, <1>3, <1>4 DEF RegistrationInv, RowInv, Safety, RowsHold, TablesHold

\* What each kind of request may do after its first read.
FirstPlace(k, m, w, pc) ==
    \/ pc \in Ended
    \/ k = "register" /\ pc = "insert" /\ Seen(w, m) = "absent"
    \/ k = "approve" /\ pc = "issue" /\ Seen(w, m) = "pending"
    \/ k \in {"reject", "expire", "revoke"} /\ pc = "write" /\ <<Seen(w, m), Target[k]>> \in Legal

LEMMA Arrivals ==
    ASSUME NEW q \in Requests, NEW m \in Machines, NEW w \in Workers,
           \/ Register(q, m, w) \/ Approve(q, m, w)
           \/ Reject(q, m, w) \/ Expire(q, m, w) \/ Revoke(q, m, w)
    PROVE  \E k \in DOMAIN Target, pc \in Working \cup Ended :
              FirstPlace(k, m, w, pc) /\ Arrive(q, k, m, w, pc)
BY DEF Register, Approve, Reject, Expire, Revoke, Checked, FirstPlace, Working, Ended, Target

\* The first part of a request changes nothing but its job.
LEMMA ArriveStep ==
    ASSUME RegistrationInv, NEW q \in Requests, NEW m \in Machines, NEW w \in Workers,
           NEW k \in DOMAIN Target, NEW pc \in Working \cup Ended,
           FirstPlace(k, m, w, pc), Arrive(q, k, m, w, pc)
    PROVE  RegistrationInv'
<1>1. UNCHANGED <<tables, certs, broken, applied>>
  BY DEF Arrive
<1>2. \E p \in {pc, "failed"} :
          job' = [job EXCEPT ![q] = [pc |-> p, kind |-> k, machine |-> m, worker |-> w,
                                     seen |-> Seen(w, m)]]
  BY DEF Arrive
<1>3. PICK p \in {pc, "failed"} :
          job' = [job EXCEPT ![q] = [pc |-> p, kind |-> k, machine |-> m, worker |-> w,
                                     seen |-> Seen(w, m)]]
  BY <1>2
<1>4. p \in Working \cup Ended /\ FirstPlace(k, m, w, p)
  BY <1>3 DEF Ended, FirstPlace
<1>5. /\ job'[q] = [pc |-> p, kind |-> k, machine |-> m, worker |-> w, seen |-> Seen(w, m)]
      /\ \A r \in Requests : r # q => job'[r] = job[r]
      /\ job[q].pc = "idle"
  BY <1>3 DEF RegistrationInv, TypeOK, Arrive
<1>6. TypeOK'
  <2>1. disturbed' \in [Machines -> BOOLEAN]
    BY DEF RegistrationInv, TypeOK, Arrive
  <2>2. Seen(w, m) \in StatusType
    BY SeenType DEF RegistrationInv
  <2>3. job'[q] \in JobType
    BY <1>4, <1>5, <2>2 DEF JobType, StatusType
  <2>4. job' \in [Requests -> JobType]
    BY <1>3, <1>5, <2>3 DEF RegistrationInv, TypeOK
  <2> QED
    BY <1>1, <2>1, <2>4 DEF RegistrationInv, TypeOK, tables, machineTable, certs
<1>7. p \in Working => p \in Places(k) \ {"recheck", "file", "follow", "stamp", "uncertify"}
                       /\ (p = "write" => k # "approve")
  BY <1>4 DEF FirstPlace, Ended, Working, Places
<1>8. JobInv'
  <2>1. JobsAreSound'
    BY <1>5, <1>7 DEF RegistrationInv, JobInv, JobsAreSound, Live
  <2>2. MovesAreChecked'
    BY <1>4, <1>5 DEF RegistrationInv, JobInv, MovesAreChecked, FirstPlace, Ended
  <2>3. ApprovalsHoldCertificates'
    <3>1. k = "approve" /\ p \in Working => p = "issue"
      BY <1>7 DEF Places
    <3>2. cert' = cert
      BY <1>1 DEF certs
    <3> QED
      BY <1>5, <3>1, <3>2 DEF RegistrationInv, JobInv, ApprovalsHoldCertificates, Live
  <2> QED
    BY <2>1, <2>2, <2>3 DEF JobInv
<1>9. FingerprintsAreApprovals'
  BY <1>1, <1>5 DEF RegistrationInv, TypeOK, RowInv, FingerprintsAreApprovals, tables
<1>10. RegisteredIsCertified'
  <2>1. UNCHANGED <<status, application, fingerprint, cert>>
    BY <1>1 DEF tables, machineTable, certs
  <2>2. \A n \in Machines : fingerprint[n] # None =>
            job'[fingerprint[n]].machine = n /\ job'[fingerprint[n]].kind = "approve"
    BY <1>5 DEF RegistrationInv, TypeOK, RowInv, FingerprintsAreApprovals
  <2> QED
    BY <2>1, <2>2 DEF RegistrationInv, Safety, RegisteredIsCertified
<1>11. RowsHold' /\ TablesHold'
  <2>1. ~Halfway(q) /\ ~Halfway(q)'
    BY <1>5, <1>7 DEF Halfway, Working
  <2>2. ASSUME NEW n \in Machines, NEW v \in Workers, Serves(q, v, n)'
        PROVE  /\ job'[q].pc # "insert" => Seen(v, n) # "absent"
               /\ job'[q].pc = "write" /\ job'[q].kind = "revoke" /\ ~parted[n] =>
                     \/ application[n] \in FollowedUp
                     \/ \E o \in Requests : Writing(o, v, n) /\ job[o].kind # "register"
    <3>1. n = m /\ v = w /\ p \in Working /\ w \notin broken'
      BY <1>5, <2>2 DEF Serves, Live
    <3>2. p # "insert" => Seen(w, m) # "absent"
      BY <1>4, <3>1 DEF FirstPlace, Legal, Target, Working, Ended
    <3>3. ASSUME p = "write", k = "revoke", ~parted[m]
          PROVE  \/ application[m] \in FollowedUp
                 \/ \E o \in Requests : Writing(o, w, m) /\ job[o].kind # "register"
      <4>1. Seen(w, m) \in {"registered", "quarantined"}
        BY <1>4, <3>3 DEF FirstPlace, Legal, Target, Ended
      <4>2. Seen(w, m) = "registered"
        BY <4>1 DEF Seen, RegistrationInv, DraftInv, DraftsAreSound
      <4>3. CASE draft[m].by = w
        <5>1. PICK o \in Requests : Writing(o, w, m) /\ draft[m].status = Target[job[o].kind]
          BY <3>3, <4>3 DEF RegistrationInv, DraftInv, WritersHoldRows
        <5>2. job[o].kind # "register"
          BY <4>2, <4>3, <5>1 DEF Seen, Target
        <5> QED
          BY <5>1, <5>2
      <4>4. CASE draft[m].by # w
        BY <3>3, <4>2, <4>4 DEF Seen, RegistrationInv, Safety, TablesAgree, FollowedUp
      <4> QED
        BY <4>3, <4>4
    <3> QED
      BY <1>5, <3>1, <3>2, <3>3
  <2>3. UNCHANGED <<machineTable, application, applied, broken>> /\ cert' = cert
    BY <1>1 DEF tables, certs
  <2> QED
    BY <1>5, <2>1, <2>2, <2>3, QuietStep
<1> QED
  BY <1>6, <1>8, <1>9, <1>10, <1>11 DEF RegistrationInv, RowInv, Safety, RowsHold, TablesHold

\* The other managers' requests, and the end of a worker.
SameButTable == UNCHANGED <<application, fingerprint, certs, job, applied, disturbed>>

LEMMA OthersStep ==
    ASSUME RegistrationInv, NEW w \in Workers, OthersCommit(w) \/ OthersFail(w)
    PROVE  RegistrationInv'
<1>1. SameButTable
  BY DEF OthersCommit, OthersFail, SameButTable
<1>2. /\ w \notin broken \/ Breaks(w)
      /\ OthersCommit(w) => broken' = broken /\ Commit(w, None, View(w))
  BY DEF OthersCommit, OthersFail, RegistrationInv, DraftInv, DraftsAreSound
<1>3. TypeOK'
  <2>1. /\ status' \in [Machines -> StatusType]
        /\ draft' \in [Machines -> DraftType] /\ parted' \in [Machines -> BOOLEAN] /\ broken' \subseteq Workers
    <3>1. CASE OthersCommit(w)
      <4>1. View(w) \in [Machines -> StatusType]
        BY SeenType DEF View, RegistrationInv
      <4> QED
        BY <1>2, <3>1, <4>1, CommitTypes DEF RegistrationInv, TypeOK
    <3>2. CASE OthersFail(w)
      <4>1. Without(w) \in [Machines -> DraftType]
        BY WithoutType DEF RegistrationInv
      <4> QED
        BY <3>2, <4>1 DEF OthersFail, Breaks, RegistrationInv, TypeOK, StatusType
    <3> QED
      BY <3>1, <3>2
  <2> QED
    BY <1>1, <2>1 DEF SameButTable, certs, RegistrationInv, TypeOK, StatusType
<1>4. JobInv' /\ FingerprintsAreApprovals'
  BY <1>1 DEF SameButTable, certs, RegistrationInv, JobInv, JobsAreSound, MovesAreChecked, ApprovalsHoldCertificates,
              Live, RowInv, FingerprintsAreApprovals
<1>5. RowsHold' /\ TablesHold'
  <2>1. CASE OthersCommit(w)
    <3>1. w \notin broken
      BY <2>1 DEF OthersCommit, RegistrationInv, DraftInv, DraftsAreSound
    <3>2. CommitBy(w, None, View(w))
      BY <1>1, <1>2, <2>1, <3>1 DEF CommitBy, View, SameButTable, certs
    <3> QED
      BY <1>1, <3>2, CommitQuietly DEF SameButTable
  <2>2. CASE OthersFail(w)
    <3>1. broken' = broken \cup {w} /\ job' = job
      BY <2>2 DEF OthersFail, Breaks
    <3>2. LostBy(w)
      BY <1>1, <2>2, <3>1 DEF LostBy, OthersFail, Breaks, SameButTable, certs, Serves, Live
    <3> QED
      BY <3>2, LostStep
  <2> QED
    BY <2>1, <2>2
<1>6. RegisteredIsCertified'
  BY <1>1, <1>5 DEF SameButTable, certs, RegistrationInv, Safety, RegisteredIsCertified, RowsHold, DraftInv, DraftsAreSound
<1> QED
  BY <1>3, <1>4, <1>5, <1>6 DEF RegistrationInv, RowInv, Safety, RowsHold, TablesHold

\* A worker's end ends its handlers where they are.
LEMMA RestartStep ==
    ASSUME RegistrationInv, NEW w \in Workers, Restart(w)
    PROVE  RegistrationInv'
<1>1. /\ \A r \in Requests : \/ job'[r] = job[r] /\ ~(Live(r) /\ job[r].worker = w)
                             \/ job'[r] = [job[r] EXCEPT !.pc = "failed"] /\ Live(r) /\ job[r].worker = w
      /\ UNCHANGED <<status, parted, application, fingerprint, certs, applied>>
      /\ draft' = Without(w) /\ broken' = broken \ {w}
  BY DEF Restart
<1>2. TypeOK'
  <2>1. job' \in [Requests -> JobType]
    BY DEF Restart, RegistrationInv, TypeOK, JobType, Ended
  <2>2. disturbed' \in [Machines -> BOOLEAN]
    BY DEF Restart, RegistrationInv, TypeOK
  <2>3. Without(w) \in [Machines -> DraftType]
    BY WithoutType DEF RegistrationInv
  <2> QED
    BY <1>1, <2>1, <2>2, <2>3 DEF certs, RegistrationInv, TypeOK
<1>3. \A r \in Requests : /\ job'[r].pc = job[r].pc \/ job'[r].pc = "failed"
                          /\ job'[r].pc # "failed" => job'[r] = job[r]
                          /\ job'[r].machine = job[r].machine /\ job'[r].kind = job[r].kind
                          /\ job'[r].worker = job[r].worker
  <2> SUFFICES ASSUME NEW r \in Requests
               PROVE  /\ job'[r].pc = job[r].pc \/ job'[r].pc = "failed"
                      /\ job'[r].pc # "failed" => job'[r] = job[r]
                      /\ job'[r].machine = job[r].machine /\ job'[r].kind = job[r].kind
                      /\ job'[r].worker = job[r].worker
    OBVIOUS
  <2>1. job[r] \in JobType
    BY DEF RegistrationInv, TypeOK
  <2>2. CASE job'[r] = job[r]
    BY <2>2
  <2>3. CASE job'[r] = [job[r] EXCEPT !.pc = "failed"]
    BY <2>1, <2>3 DEF JobType
  <2> QED
    BY <1>1, <2>2, <2>3
<1>4. JobInv'
  BY <1>1, <1>3 DEF RegistrationInv, JobInv, JobsAreSound, MovesAreChecked, ApprovalsHoldCertificates,
                    Live, Working, certs
<1>5. FingerprintsAreApprovals' /\ RegisteredIsCertified'
  BY <1>1, <1>3 DEF RegistrationInv, TypeOK, RowInv, FingerprintsAreApprovals, Safety, RegisteredIsCertified, certs
<1>6. LostBy(w)
  <2>1. ASSUME NEW r \in Requests, NEW n PROVE ~Serves(r, w, n)'
    <3>1. job'[r].worker = job[r].worker
      BY <1>3
    <3>2. CASE Live(r) /\ job[r].worker = w
      <4>1. job'[r].pc = "failed"
        BY <1>1, <3>2 DEF RegistrationInv, TypeOK, JobType
      <4> QED
        BY <4>1 DEF Serves, Live, Working
    <3>3. CASE ~(Live(r) /\ job[r].worker = w)
      BY <1>1, <3>1, <3>3 DEF Serves, Live
    <3> QED
      BY <3>2, <3>3
  <2>2. ASSUME NEW r \in Requests, NEW v, NEW n, v # w PROVE Serves(r, v, n)' <=> Serves(r, v, n)
    <3>1. v \in broken' <=> v \in broken
      BY <1>1, <2>2
    <3>2. job[r].worker = v => job'[r] = job[r]
      BY <1>1, <2>2
    <3>3. job'[r].worker = job[r].worker
      BY <1>3
    <3> QED
      BY <3>1, <3>2, <3>3 DEF Serves, Live
  <2>3. \A r \in Requests : \A v, n : v # w /\ Serves(r, v, n)' => job'[r] = job[r]
    BY <1>3 DEF Serves, Live, Working
  <2> QED
    BY <1>1, <2>1, <2>2, <2>3 DEF LostBy, certs
<1>7. RowsHold' /\ TablesHold'
  BY <1>6, LostStep
<1> QED
  BY <1>2, <1>4, <1>5, <1>7 DEF RegistrationInv, RowInv, Safety, RowsHold, TablesHold

LEMMA RegistrationInvariance == Spec => []RegistrationInv
<1>1. RegistrationInv /\ [Next]_vars => RegistrationInv'
  <2>1. SUFFICES ASSUME RegistrationInv, [Next]_vars PROVE RegistrationInv'
    OBVIOUS
  <2>2. CASE UNCHANGED vars
    <3>1. UNCHANGED <<tables, certs, broken, job, applied, disturbed>>
      BY <2>2 DEF vars
    <3>2. TypeOK' /\ JobInv'
      BY <2>1, <3>1 DEF RegistrationInv, TypeOK, JobInv, JobsAreSound, MovesAreChecked,
                        ApprovalsHoldCertificates, Live, tables, machineTable, certs
    <3>3. DraftInv'
      BY <2>1, <3>1 DEF RegistrationInv, DraftInv, DraftsAreSound, WritersHoldRows, Writing, Serves, Halfway, Live,
                        tables, machineTable, certs
    <3>4. RowInv'
      BY <2>1, <3>1 DEF RegistrationInv, RowInv, RowsAreApplied, SeenRowsExist, Seen, FilesAreFirst,
                        FingerprintsAreApprovals, RevokesAreDecided, Writing, Serves, Halfway, Live, tables, machineTable, certs
    <3>5. Safety'
      BY <2>1, <3>1 DEF RegistrationInv, Safety, OneRegistration, TablesAgree, RegisteredIsCertified,
                        tables, machineTable, certs
    <3> QED
      BY <3>2, <3>3, <3>4, <3>5 DEF RegistrationInv
  <2>3. ASSUME NEW q \in Requests, NEW m \in Machines, NEW w \in Workers,
               \/ Register(q, m, w) \/ Approve(q, m, w)
               \/ Reject(q, m, w) \/ Expire(q, m, w) \/ Revoke(q, m, w)
        PROVE  RegistrationInv'
    <3>1. PICK k \in DOMAIN Target, pc \in Working \cup Ended :
              FirstPlace(k, m, w, pc) /\ Arrive(q, k, m, w, pc)
      BY <2>3, Arrivals
    <3> QED
      BY <2>1, <3>1, ArriveStep
  <2>4. ASSUME NEW q \in Requests, Step(q) PROVE RegistrationInv'
    BY <2>1, <2>4, StepInvariance
  <2>5. ASSUME NEW w \in Workers, OthersCommit(w) \/ OthersFail(w) \/ Restart(w) PROVE RegistrationInv'
    BY <2>1, <2>5, OthersStep, RestartStep
  <2> QED
    BY <2>1, <2>2, <2>3, <2>4, <2>5 DEF Next
<1> QED
  BY <1>1, InitRegistration, PTL DEF Spec

-----------------------------------------------------------------------------
\* The variables keep their types.
THEOREM RegistrationTypeCorrect == Spec => []TypeOK
BY RegistrationInvariance, PTL DEF RegistrationInv

\* Of any number of crossing registrations of a machine one is accepted.
THEOREM MachinesRegisterOnce == Spec => []OneRegistration
BY RegistrationInvariance, PTL DEF RegistrationInv, Safety

\* machines and registration_requests agree whatever the order of the decisions, the sessions
\* they share and the failures between; unless a write of both was cut in two.
THEOREM TablesStayTogether == Spec => []TablesAgree
BY RegistrationInvariance, PTL DEF RegistrationInv, Safety

\* Whatever fails on the way, and whoever commits it, no machine is registered without a
\* certificate having been issued for it.
THEOREM CertificateFirst == Spec => []RegisteredIsCertified
BY RegistrationInvariance, PTL DEF RegistrationInv, Safety

\* How the latest status of a machine may move.
Moves(m) ==
    \/ Latest(m)' = Latest(m)
    \/ <<Latest(m), Latest(m)'>> \in Legal
    \/ \E q \in Requests : /\ job[q].pc = "write" /\ job'[q].pc # "write"
                           /\ job[q].machine = m /\ job[q].seen # Latest(m)
    \/ draft[m].by # None /\ Latest(m)' = status[m] /\ status'[m] = status[m]

LEMMA CommitMoves ==
    ASSUME NEW w \in Workers, NEW q, NEW rows, Commit(w, q, rows), NEW m \in Machines, rows[m] = Seen(w, m)
    PROVE  Moves(m)
<1>1. status'[m] = Seen(w, m) /\ draft'[m] = (IF draft[m].by = w THEN Free ELSE draft[m]) /\ w # None
  BY RegistrationAssumption DEF Commit, Without
<1>2. Latest(m)' = Latest(m) \/ (draft[m].by \notin {None, w} /\ draft'[m] = draft[m])
  BY <1>1 DEF Latest, Seen, Free
<1>3. draft[m].by # None /\ draft'[m] = draft[m] => Latest(m)' = Latest(m)
  BY DEF Latest
<1> QED
  BY <1>2, <1>3 DEF Moves

LEMMA LossMoves ==
    ASSUME NEW w \in Workers, draft' = Without(w), status' = status, NEW m \in Machines
    PROVE  Moves(m)
<1>1. draft'[m] = (IF draft[m].by = w THEN Free ELSE draft[m]) /\ w # None
  BY RegistrationAssumption DEF Without
<1>2. CASE draft[m].by = w
  BY <1>1, <1>2 DEF Moves, Latest, Free
<1>3. CASE draft[m].by # w
  BY <1>1, <1>3 DEF Moves, Latest
<1> QED
  BY <1>2, <1>3

LEMMA StepLatest ==
    ASSUME RegistrationInv, NEW q \in Requests, Step(q), NEW n \in Machines
    PROVE  Moves(n)
<1>0. PICK m \in Machines, w \in Workers : m = job[q].machine /\ w = job[q].worker
  BY StepMoves
<1>1. /\ job[q].pc \in Places(job[q].kind) /\ job'[q].pc \in Follows(job[q].kind, job[q].pc)
      /\ w # None
  BY StepMoves, StepGoes, RegistrationAssumption
<1>2. CASE UNCHANGED <<status, draft>>
  BY <1>2 DEF Moves, Latest
<1>3. CASE Commit(w, q, View(w))
  BY <1>3, CommitMoves DEF View
<1>4. CASE Breaks(w)
  BY <1>4, LossMoves DEF Breaks
<1>5. CASE Insert(q) \/ Write(q)
  <2>1. /\ status' = status /\ Unlocked(w, m) /\ draft[m].by \in {None, w}
        /\ draft' = [draft EXCEPT ![m] = [by |-> w, status |-> Target[job[q].kind]]]
    <3>1. Insert(q) => job[q].kind = "register"
      BY <1>1 DEF Insert, At, Places
    <3> QED
      BY <1>0, <1>5, <3>1 DEF Insert, Write, Writes, Drafted, Target, Unlocked
  <2>2. CASE n # m
    <3>1. draft'[n] = draft[n]
      BY <2>1, <2>2 DEF RegistrationInv, TypeOK
    <3> QED
      BY <2>1, <3>1 DEF Moves, Latest
  <2>3. CASE n = m
    <3>1. draft'[m] = [by |-> w, status |-> Target[job[q].kind]]
      BY <2>1 DEF RegistrationInv, TypeOK
    <3>2. Latest(m)' = Target[job[q].kind] /\ Latest(m) = Seen(w, m)
      BY <1>1, <2>1, <3>1 DEF Latest, Seen
    <3>3. CASE Insert(q)
      <4>1. Seen(w, m) = "absent" /\ job[q].kind = "register"
        BY <1>0, <1>1, <3>3 DEF Insert, IsTaken, At, Places
      <4> QED
        BY <2>3, <3>2, <4>1 DEF Moves, Legal, Target
    <3>4. CASE Write(q)
      <4>1. job[q].pc = "write" /\ <<job[q].seen, Target[job[q].kind]>> \in Legal
        BY <3>4 DEF Write, Writes, At, RegistrationInv, JobInv, MovesAreChecked
      <4>2. job'[q].pc # "write"
        BY <1>1, <4>1 DEF Follows
      <4> QED
        BY <1>0, <2>3, <3>2, <4>1, <4>2 DEF Moves
    <3> QED
      BY <1>5, <3>3, <3>4
  <2> QED
    BY <2>2, <2>3
<1>6. CASE WriteAlone(q)
  <2>1. /\ job[q].pc = "write" /\ <<job[q].seen, Target[job[q].kind]>> \in Legal
        /\ draft[m].by \in {None, w} /\ Commit(w, q, [View(w) EXCEPT ![m] = Target[job[q].kind]])
    BY <1>0, <1>6 DEF WriteAlone, Writes, Unlocked, At, RegistrationInv, JobInv, MovesAreChecked
  <2>2. CASE n # m
    <3>1. [View(w) EXCEPT ![m] = Target[job[q].kind]][n] = Seen(w, n)
      BY <2>2 DEF View
    <3> QED
      BY <2>1, <3>1, CommitMoves
  <2>3. CASE n = m
    <3>1. status'[m] = Target[job[q].kind] /\ draft'[m] = IF draft[m].by = w THEN Free ELSE draft[m]
      BY <2>1 DEF Commit, View, Without
    <3>2. Latest(m)' = Target[job[q].kind] /\ Latest(m) = Seen(w, m)
      BY <1>1, <2>1, <3>1 DEF Latest, Seen, Free
    <3>3. job'[q].pc # "write"
      BY <1>1, <2>1 DEF Follows
    <3> QED
      BY <1>0, <2>1, <2>3, <3>2, <3>3 DEF Moves
  <2> QED
    BY <2>2, <2>3
<1>7. \/ UNCHANGED <<status, draft>> \/ Commit(w, q, View(w)) \/ Breaks(w)
      \/ Insert(q) \/ Write(q) \/ WriteAlone(q)
  BY <1>0 DEF Step, InsertFails, File, Issue, IssueFails, Recheck, FollowUp, Stamp, Uncertify, UncertifyFails,
              StatementRaises, MayCommit, MayBreak, tables, machineTable
<1> QED
  BY <1>2, <1>3, <1>4, <1>5, <1>6, <1>7

\* A move the transition table forbids is a write over a status that changed since the handler
\* read it, or the loss of one that was never committed (MachineRegistry, update_status).
THEOREM LifecycleBreaksOnlyByRace == Spec => OnlyStaleWritesBreakTheLifecycle
<1>1. ASSUME RegistrationInv, [Next]_vars PROVE [OnlyStaleWritesStep]_vars
  <2> SUFFICES ASSUME Next, NEW m \in Machines PROVE Moves(m)
    BY <1>1 DEF OnlyStaleWritesStep, Moves
  <2>1. ASSUME UNCHANGED tables PROVE Moves(m)
    BY <2>1 DEF Moves, Latest, tables, machineTable
  <2>2. ASSUME NEW q \in Requests, NEW n \in Machines, NEW w \in Workers,
               \/ Register(q, n, w) \/ Approve(q, n, w) \/ Reject(q, n, w)
               \/ Expire(q, n, w) \/ Revoke(q, n, w)
        PROVE  Moves(m)
    <3>1. UNCHANGED tables
      BY <2>2 DEF Register, Approve, Reject, Expire, Revoke, Arrive
    <3> QED
      BY <2>1, <3>1
  <2>3. ASSUME NEW w \in Workers, OthersCommit(w) PROVE Moves(m)
    BY <2>3, CommitMoves DEF OthersCommit, View
  <2>4. ASSUME NEW w \in Workers, OthersFail(w) \/ Restart(w) PROVE Moves(m)
    BY <2>4, LossMoves DEF OthersFail, Breaks, Restart
  <2> QED
    BY <1>1, <2>2, <2>3, <2>4, StepLatest DEF Next
<1> QED
  BY <1>1, RegistrationInvariance, PTL DEF Spec, OnlyStaleWritesBreakTheLifecycle

\* The three facts about what the registry says of a machine, together.
THEOREM RegistrySound == Spec => []RegistryIsSound
BY MachinesRegisterOnce, TablesStayTogether, CertificateFirst, PTL DEF RegistryIsSound
-----------------------------------------------------------------------------
(* A machine whose requests came one at a time.                            *)

Settled(s, f, c, v) == /\ s = "registered" <=> c # None /\ v
                       /\ s = "registered" => f = c

\* What the one handler at work on a machine has done to it so far.
Midway(q, pc, k, s, f, c, v) ==
    /\ pc = "insert" => s = "absent" /\ ~(c # None /\ v)
    /\ pc = "file" => s = "pending" /\ ~(c # None /\ v)
    /\ pc = "issue" => s = "pending" /\ ~(c # None /\ v)
    /\ pc = "recheck" => s = "pending" /\ c = q /\ v
    /\ pc = "write" /\ k = "approve" => s = "pending" /\ c = q /\ v
    /\ pc = "write" /\ k \in {"reject", "expire"} => s = "pending" /\ ~(c # None /\ v)
    /\ pc = "follow" => s = Target[k]
    /\ pc = "follow" /\ k = "approve" => c = q /\ v
    /\ pc = "follow" /\ k # "approve" => ~(c # None /\ v)
    /\ pc = "stamp" => s = "registered" /\ c = q /\ v
    /\ pc = "uncertify" => s = "revoked"

OnIt(q, m) == Live(q) /\ job[q].machine = m
Clean(m) == draft[m].by = None /\ Settled(status[m], fingerprint[m], cert[m], valid[m])
HalfDone(q, m) ==
    job[q].worker \notin broken =>
        /\ draft[m].by = None \/ (Halfway(q) /\ draft[m].by = job[q].worker)
        /\ Midway(q, job[q].pc, job[q].kind, Seen(job[q].worker, m), fingerprint[m], cert[m], valid[m])
MachineAlone(q, m) == \A p \in Requests : OnIt(p, m) => p = q
Orderly(m) == ~disturbed[m] => /\ ~Crossing(m) => Clean(m)
                               /\ \A q \in Requests : OnIt(q, m) => MachineAlone(q, m) /\ HalfDone(q, m)
OrderInv == \A m \in Machines : Orderly(m)

\* Nothing of the machine moves, as the one who is at work on it sees it.
SameCertificates(m) == fingerprint'[m] = fingerprint[m] /\ cert'[m] = cert[m] /\ (valid'[m] <=> valid[m])
SameRow(m) ==
    /\ SameCertificates(m)
    /\ draft[m].by = None => draft'[m] = draft[m] /\ status'[m] = status[m]
    /\ \A v : v \notin broken' /\ (\E q \in Requests : OnIt(q, m) /\ job[q].worker = v) =>
          /\ v \notin broken
          /\ draft[m].by \in {None, v} =>
                draft'[m].by \in {None, draft[m].by} /\ Seen(v, m)' = Seen(v, m)

LEMMA ElsewhereKeeps ==
    ASSUME NEW m \in Machines, Orderly(m), SameRow(m), disturbed[m] => disturbed'[m],
           \A q \in Requests : OnIt(q, m)' <=> OnIt(q, m),
           \A q \in Requests : OnIt(q, m) => job'[q] = job[q]
    PROVE  Orderly(m)'
<1> SUFFICES ASSUME ~disturbed'[m]
             PROVE  /\ ~Crossing(m)' => Clean(m)'
                    /\ \A q \in Requests : OnIt(q, m)' => MachineAlone(q, m)' /\ HalfDone(q, m)'
  BY DEF Orderly
<1>1. ~disturbed[m]
  OBVIOUS
<1>2. Crossing(m)' <=> Crossing(m)
  BY DEF Crossing, OnIt
<1>3. Clean(m) => Clean(m)'
  BY DEF Clean, Settled, SameRow, SameCertificates
<1>4. ASSUME NEW q \in Requests, OnIt(q, m)' PROVE MachineAlone(q, m)' /\ HalfDone(q, m)'
  <2>1. OnIt(q, m) /\ MachineAlone(q, m) /\ HalfDone(q, m) /\ job'[q] = job[q]
    BY <1>1, <1>4 DEF Orderly
  <2>2. MachineAlone(q, m)'
    BY <2>1 DEF MachineAlone
  <2>3. HalfDone(q, m)'
    <3> SUFFICES ASSUME job[q].worker \notin broken' PROVE HalfDone(q, m)'
      BY <2>1 DEF HalfDone
    <3>1. PICK w : w = job[q].worker
      OBVIOUS
    <3>2. /\ w \notin broken
          /\ draft[m].by = None \/ (Halfway(q) /\ draft[m].by = w)
          /\ Midway(q, job[q].pc, job[q].kind, Seen(w, m), fingerprint[m], cert[m], valid[m])
      BY <2>1, <3>1 DEF HalfDone, SameRow
    <3>3. draft'[m].by \in {None, draft[m].by} /\ Seen(w, m)' = Seen(w, m)
      BY <2>1, <3>1, <3>2 DEF SameRow
    <3>4. draft'[m].by = None \/ (Halfway(q)' /\ draft'[m].by = w)
      BY <2>1, <3>2, <3>3 DEF Halfway
    <3>5. Midway(q, job[q].pc, job[q].kind, Seen(w, m)', fingerprint'[m], cert'[m], valid'[m])
      BY <3>2, <3>3 DEF Midway, SameRow, SameCertificates
    <3> QED
      BY <2>1, <3>1, <3>4, <3>5 DEF HalfDone
  <2> QED
    BY <2>2, <2>3
<1> QED
  BY <1>1, <1>2, <1>3, <1>4 DEF Orderly

\* A COMMIT shows a machine to nobody who had not seen it so.
LEMMA CommitKeepsRow ==
    ASSUME NEW w \in Workers, NEW q, NEW rows, Commit(w, q, rows), broken' = broken,
           NEW m \in Machines, rows[m] = Seen(w, m), SameCertificates(m)
    PROVE  SameRow(m)
<1>1. status'[m] = Seen(w, m) /\ draft'[m] = (IF draft[m].by = w THEN Free ELSE draft[m]) /\ w # None
  BY RegistrationAssumption DEF Commit, Without
<1>2. draft[m].by = None => draft'[m] = draft[m] /\ status'[m] = status[m]
  BY <1>1 DEF Seen
<1>3. ASSUME NEW v, draft[m].by \in {None, v}
      PROVE  draft'[m].by \in {None, draft[m].by} /\ Seen(v, m)' = Seen(v, m)
  <2>1. CASE draft[m].by = w
    BY <1>1, <1>3, <2>1 DEF Seen, Free
  <2>2. CASE draft[m].by # w
    BY <1>1, <1>3, <2>2 DEF Seen
  <2> QED
    BY <2>1, <2>2
<1> QED
  BY <1>2, <1>3 DEF SameRow

LEMMA LossKeepsRow ==
    ASSUME NEW w \in Workers, draft' = Without(w), status' = status,
           \A v : v # w => (v \in broken' <=> v \in broken),
           NEW m \in Machines, SameCertificates(m),
           w \notin broken' => \A q \in Requests : OnIt(q, m) => job[q].worker # w
    PROVE  SameRow(m)
<1>1. draft'[m] = (IF draft[m].by = w THEN Free ELSE draft[m]) /\ w # None
  BY RegistrationAssumption DEF Without
<1>2. draft[m].by = None => draft'[m] = draft[m] /\ status'[m] = status[m]
  BY <1>1
<1>3. ASSUME NEW v, v # w, draft[m].by \in {None, v}
      PROVE  draft'[m].by \in {None, draft[m].by} /\ Seen(v, m)' = Seen(v, m)
  BY <1>1, <1>3 DEF Seen
<1>4. \A v : v \notin broken' /\ (\E q \in Requests : OnIt(q, m) /\ job[q].worker = v) => v # w
  OBVIOUS
<1> QED
  BY <1>2, <1>3, <1>4 DEF SameRow

\* One handler moves, the only one at work on the machine then.
LEMMA OneMoves ==
    ASSUME NEW m \in Machines, NEW q \in Requests,
           \A p \in Requests : p # q => ~OnIt(p, m)',
           OnIt(q, m)' => HalfDone(q, m)', ~OnIt(q, m)' => Clean(m)'
    PROVE  Orderly(m)'
<1>1. Crossing(m)' <=> OnIt(q, m)'
  BY DEF Crossing, OnIt
<1>2. MachineAlone(q, m)'
  BY DEF MachineAlone
<1>3. \A p \in Requests : OnIt(p, m)' => p = q
  OBVIOUS
<1> QED
  BY <1>1, <1>2, <1>3 DEF Orderly

LEMMA InitOrder == Init => OrderInv
<1> SUFFICES ASSUME Init, NEW m \in Machines PROVE Orderly(m)
  BY DEF OrderInv
<1>1. \A q \in Requests : ~OnIt(q, m)
  BY DEF Init, OnIt, Live, NoJob, Working
<1>2. Clean(m)
  BY DEF Clean, Settled, Init, Free
<1> QED
  BY <1>1, <1>2 DEF Orderly

LEMMA ArrivalsKeepOrder ==
    ASSUME RegistrationInv, OrderInv, NEW q \in Requests, NEW n \in Machines, NEW w \in Workers,
           NEW k \in DOMAIN Target, NEW pc \in Working \cup Ended,
           FirstPlace(k, n, w, pc), Arrive(q, k, n, w, pc)
    PROVE  OrderInv'
<1> SUFFICES ASSUME NEW m \in Machines PROVE Orderly(m)'
  BY DEF OrderInv
<1>1. PICK p \in {pc, "failed"} :
          /\ job' = [job EXCEPT ![q] = [pc |-> p, kind |-> k, machine |-> n, worker |-> w,
                                        seen |-> Seen(w, n)]]
          /\ p = IF w \in broken THEN "failed" ELSE pc
  BY DEF Arrive
<1>2. p \in Working \cup Ended /\ FirstPlace(k, n, w, p)
  BY <1>1 DEF Ended, FirstPlace
<1>3. /\ job'[q].pc = p /\ job'[q].kind = k /\ job'[q].machine = n /\ job'[q].worker = w
      /\ \A r \in Requests : r # q => job'[r] = job[r]
      /\ job[q].pc = "idle"
  BY <1>1 DEF RegistrationInv, TypeOK, Arrive
<1>4. UNCHANGED <<status, draft, parted, fingerprint, cert, valid, broken>>
  BY DEF Arrive, tables, machineTable, certs
<1>5. \A r \in Requests : r # q => (OnIt(r, m)' <=> OnIt(r, m))
  BY <1>3 DEF OnIt, Live
<1>6. ~OnIt(q, m)
  BY <1>3 DEF OnIt, Live, Working
<1>7. disturbed' = [disturbed EXCEPT ![n] = disturbed[n] \/ Crossing(n)] /\ disturbed \in [Machines -> BOOLEAN]
  BY DEF Arrive, RegistrationInv, TypeOK
<1>8. CASE ~OnIt(q, m)'
  <2>1. disturbed[m] => disturbed'[m]
    BY <1>7
  <2>2. \A r \in Requests : OnIt(r, m)' <=> OnIt(r, m)
    BY <1>5, <1>6, <1>8
  <2>3. \A r \in Requests : OnIt(r, m) => job'[r] = job[r]
    BY <1>3, <1>6
  <2>4. SameRow(m)
    <3>1. \A v : Seen(v, m)' = Seen(v, m)
      BY <1>4 DEF Seen
    <3> QED
      BY <1>4, <3>1 DEF SameRow, SameCertificates
  <2> QED
    BY <2>1, <2>2, <2>3, <2>4, ElsewhereKeeps DEF OrderInv
<1>9. CASE OnIt(q, m)'
  <2>1. n = m /\ p \in Working /\ w \notin broken
    BY <1>1, <1>3, <1>9 DEF OnIt, Live, Working
  <2>2. CASE Crossing(m) \/ disturbed[m]
    <3>1. disturbed'[m]
      BY <1>7, <2>1, <2>2
    <3> QED
      BY <3>1 DEF Orderly
  <2>3. CASE ~Crossing(m) /\ ~disturbed[m]
    <3>1. Clean(m) /\ \A r \in Requests : ~OnIt(r, m)
      BY <2>3 DEF OrderInv, Orderly, Crossing, OnIt
    <3>2. \A r \in Requests : r # q => ~OnIt(r, m)'
      BY <1>5, <3>1
    <3>3. Seen(w, m) = status[m] /\ w # None
      BY <3>1, RegistrationAssumption DEF Clean, Seen
    <3>4. /\ p = "insert" => k = "register"
          /\ p = "issue" => status[m] = "pending"
          /\ p = "write" => k # "approve" /\ <<status[m], Target[k]>> \in Legal
          /\ p \notin {"file", "recheck", "follow", "stamp", "uncertify"}
      BY <1>2, <2>1, <3>3 DEF FirstPlace, Ended, Working
    <3>5. p = "write" /\ k \in {"reject", "expire"} => status[m] = "pending"
      BY <3>4 DEF Legal, Target
    <3>6. p = "insert" => status[m] = "absent"
      BY <1>2, <2>1, <3>3 DEF FirstPlace, Ended
    <3>7. HalfDone(q, m)'
      <4>1. draft'[m].by = None /\ Seen(w, m)' = status[m]
        BY <1>4, <3>1, <3>3 DEF Clean, Seen
      <4>2. Midway(q, p, k, status[m], fingerprint[m], cert[m], valid[m])
        BY <3>1, <3>4, <3>5, <3>6 DEF Midway, Clean, Settled
      <4> QED
        BY <1>3, <1>4, <4>1, <4>2 DEF HalfDone
    <3> QED
      BY <1>9, <3>2, <3>7, OneMoves
  <2> QED
    BY <2>2, <2>3
<1> QED
  BY <1>8, <1>9

\* What the steps of one machine's handler leave of another machine.
LEMMA StepKeepsElsewhere ==
    ASSUME RegistrationInv, NEW q \in Requests, Step(q), NEW m \in Machines, job[q].machine # m
    PROVE  SameRow(m)
<1>0. PICK n \in Machines, w \in Workers : n = job[q].machine /\ w = job[q].worker
  BY StepMoves
<1>1. SameCertificates(m)
  BY <1>0 DEF RegistrationInv, TypeOK, Step, Insert, InsertFails, File, Issue, IssueFails, Recheck, Write, FollowUp,
       WriteAlone, Stamp, Uncertify, UncertifyFails, StatementRaises, SameCertificates, tables, certs,
       SetFingerprint, Invalidate
<1>2. CASE UNCHANGED <<status, draft, broken>>
  <2>1. \A v : Seen(v, m)' = Seen(v, m)
    BY <1>2 DEF Seen
  <2> QED
    BY <1>1, <1>2, <2>1 DEF SameRow
<1>3. CASE Commit(w, q, View(w)) /\ broken' = broken
  BY <1>1, <1>3, CommitKeepsRow DEF View
<1>4. CASE Breaks(w)
  <2>1. w \in broken' /\ draft' = Without(w) /\ status' = status /\ \A v : v # w => (v \in broken' <=> v \in broken)
    BY <1>4 DEF Breaks
  <2> QED
    BY <1>1, <2>1, LossKeepsRow
<1>5. CASE Insert(q) \/ Write(q)
  <2>1. status' = status /\ broken' = broken /\ draft'[m] = draft[m]
    BY <1>0, <1>5 DEF Insert, Write, Drafted, RegistrationInv, TypeOK
  <2>2. \A v : Seen(v, m)' = Seen(v, m)
    BY <2>1 DEF Seen
  <2> QED
    BY <1>1, <2>1, <2>2 DEF SameRow
<1>6. CASE WriteAlone(q)
  <2>1. Commit(w, q, [View(w) EXCEPT ![n] = Target[job[q].kind]]) /\ broken' = broken
    BY <1>0, <1>6 DEF WriteAlone
  <2>2. [View(w) EXCEPT ![n] = Target[job[q].kind]][m] = Seen(w, m)
    BY <1>0 DEF View
  <2> QED
    BY <1>1, <2>1, <2>2, CommitKeepsRow
<1> QED
  BY <1>0, <1>2, <1>3, <1>4, <1>5, <1>6
     DEF Step, InsertFails, File, Issue, IssueFails, Recheck, FollowUp, Stamp, Uncertify, UncertifyFails,
         StatementRaises, MayCommit, MayBreak, tables, machineTable

\* What they leave of their own machine's row, when nobody else is at work on it.
LEMMA StepsOwnRow ==
    ASSUME NEW w \in Workers, NEW q, NEW m \in Machines, draft[m].by \in {None, w}
    PROVE  /\ \A rows : Commit(w, q, rows) => status'[m] = rows[m] /\ draft'[m].by = None
           /\ draft[m].by = None /\ (MayCommit(w, q) \/ MayBreak(w)) => status'[m] = status[m] /\ draft'[m].by = None
<1>1. \A rows : Commit(w, q, rows) => status'[m] = rows[m] /\ draft'[m].by = None
  BY DEF Commit, Without, Free
<1>2. draft[m].by = None => View(w)[m] = status[m]
  BY RegistrationAssumption DEF View, Seen
<1>3. draft[m].by = None /\ Breaks(w) => status'[m] = status[m] /\ draft'[m].by = None
  BY RegistrationAssumption DEF Breaks, Without
<1> QED
  BY <1>1, <1>2, <1>3 DEF MayCommit, MayBreak, machineTable

LEMMA StepKeepsHere ==
    ASSUME RegistrationInv, NEW q \in Requests, Step(q), NEW m \in Machines, OnIt(q, m), HalfDone(q, m),
           ~disturbed'[m]
    PROVE  (OnIt(q, m)' => HalfDone(q, m)') /\ (~OnIt(q, m)' => Clean(m)')
<1>0. PICK w \in Workers, k \in DOMAIN Target, pc \in Working :
          w = job[q].worker /\ k = job[q].kind /\ pc = job[q].pc
  BY StepMoves DEF Places, Target, Live
<1>1. /\ job'[q].machine = m /\ job'[q].worker = w /\ job'[q].kind = k /\ job[q].machine = m
      /\ pc \in Places(k) /\ w # None /\ q # None /\ job \in [Requests -> JobType]
  BY <1>0, StepMoves, RegistrationAssumption DEF OnIt, RegistrationInv, TypeOK
<1>2. \A to : GoTo(q, to) => job'[q].pc = to
  BY <1>1 DEF GoTo, JobType
<1>3. ~UncertifyFails(q) /\ ~StatementRaises(q)
  BY <1>1 DEF RegistrationInv, TypeOK, UncertifyFails, StatementRaises
<1>4. w \notin broken
  BY <1>0, <1>3 DEF Step, Insert, InsertFails, File, Issue, IssueFails, Recheck, Write, FollowUp, WriteAlone, Writes,
                    Stamp, Uncertify, At
<1>5. PICK s, f, c : s = Seen(w, m) /\ f = fingerprint[m] /\ c = cert[m]
  OBVIOUS
<1>6. /\ draft[m].by = None \/ (pc \in {"file", "follow"} /\ draft[m].by = w)
      /\ Midway(q, pc, k, s, f, c, valid[m])
  BY <1>0, <1>4, <1>5 DEF HalfDone, Halfway
<1>7. draft[m].by = None => s = status[m]
  BY <1>1, <1>5 DEF Seen
<1>8. draft[m].by \in {None, w} /\ View(w)[m] = s
  BY <1>5, <1>6 DEF View
<1>9. fingerprint \in [Machines -> Requests \cup {None}] /\ cert \in [Machines -> Requests \cup {None}]
      /\ valid \in [Machines -> BOOLEAN] /\ draft \in [Machines -> DraftType]
  BY DEF RegistrationInv, TypeOK
<1>10. OnIt(q, m)' <=> job'[q].pc \in Working
  BY <1>1 DEF OnIt, Live
\* Two ways to reach the claim.
<1>11. ASSUME NEW to \in Working, NEW t, job'[q].pc = to, draft'[m].by = None, status'[m] = t,
              Midway(q, to, k, t, fingerprint'[m], cert'[m], valid'[m])
       PROVE  OnIt(q, m)' /\ HalfDone(q, m)'
  <2>1. Seen(w, m)' = t
    BY <1>1, <1>11 DEF Seen
  <2> QED
    BY <1>1, <1>10, <1>11, <2>1 DEF HalfDone
<1>12. ASSUME NEW to \in {"file", "follow"}, NEW t, job'[q].pc = to, draft'[m] = [by |-> w, status |-> t],
              Midway(q, to, k, t, fingerprint'[m], cert'[m], valid'[m])
       PROVE  OnIt(q, m)' /\ HalfDone(q, m)'
  <2>1. Seen(w, m)' = t /\ Halfway(q)'
    BY <1>12 DEF Seen, Halfway
  <2> QED
    BY <1>1, <1>10, <1>12, <2>1 DEF HalfDone, Working
<1>13. ASSUME NEW t, job'[q].pc \in Ended, draft'[m].by = None, status'[m] = t,
              Settled(t, fingerprint'[m], cert'[m], valid'[m])
       PROVE  ~OnIt(q, m)' /\ Clean(m)'
  BY <1>10, <1>13 DEF Clean, Ended, Working
<1>14. CASE Insert(q)
  <2>1. /\ pc = "insert" /\ k = "register" /\ job'[q].pc = "file"
        /\ draft' = [draft EXCEPT ![m] = [by |-> w, status |-> "pending"]]
        /\ fingerprint'[m] = f /\ cert'[m] = c /\ (valid'[m] <=> valid[m])
    BY <1>0, <1>1, <1>2, <1>5, <1>14 DEF Insert, At, Drafted, certs, Places
  <2>2. draft'[m] = [by |-> w, status |-> "pending"]
    BY <1>9, <2>1
  <2>3. Midway(q, "file", k, "pending", fingerprint'[m], cert'[m], valid'[m])
    BY <1>6, <2>1 DEF Midway
  <2> QED
    BY <1>12, <2>1, <2>2, <2>3
<1>15. CASE InsertFails(q)
  BY <1>0, <1>1, <1>5, <1>6, <1>15 DEF InsertFails, IsTaken, At, Midway
<1>16. CASE File(q)
  <2>1. /\ pc = "file" /\ job'[q].pc = "done" /\ Commit(w, q, View(w))
        /\ fingerprint'[m] = f /\ cert'[m] = c /\ (valid'[m] <=> valid[m])
    BY <1>0, <1>1, <1>2, <1>5, <1>16 DEF File, At, certs
  <2>2. status'[m] = s /\ draft'[m].by = None
    BY <1>8, <2>1, StepsOwnRow
  <2>3. Settled(s, fingerprint'[m], cert'[m], valid'[m])
    BY <1>6, <2>1 DEF Midway, Settled
  <2> QED
    BY <1>13, <2>1, <2>2, <2>3 DEF Ended
<1>17. CASE Issue(q)
  <2>1. /\ pc = "issue" /\ job'[q].pc = "recheck" /\ MayCommit(w, q)
        /\ fingerprint'[m] = f /\ cert'[m] = q /\ valid'[m]
    BY <1>0, <1>1, <1>2, <1>5, <1>9, <1>17 DEF Issue, At
  <2>2. status'[m] = s /\ draft'[m].by = None
    BY <1>6, <1>7, <1>8, <2>1, StepsOwnRow
  <2>3. Midway(q, "recheck", k, s, fingerprint'[m], cert'[m], valid'[m])
    BY <1>6, <2>1 DEF Midway
  <2> QED
    BY <1>11, <2>1, <2>2, <2>3 DEF Working
<1>18. CASE IssueFails(q)
  <2>1. /\ pc = "issue" /\ job'[q].pc = "failed" /\ MayBreak(w)
        /\ fingerprint'[m] = f /\ cert'[m] = c /\ (valid'[m] <=> valid[m])
    BY <1>0, <1>1, <1>2, <1>5, <1>18 DEF IssueFails, At, certs
  <2>2. status'[m] = s /\ draft'[m].by = None
    BY <1>6, <1>7, <1>8, <2>1, StepsOwnRow
  <2>3. Settled(s, fingerprint'[m], cert'[m], valid'[m])
    BY <1>6, <2>1 DEF Midway, Settled
  <2> QED
    BY <1>13, <2>1, <2>2, <2>3 DEF Ended
<1>19. CASE Recheck(q)
  <2>1. /\ pc = "recheck" /\ k = "approve" /\ job'[q].pc = Checked("approve", s)
        /\ draft'[m] = draft[m] /\ status'[m] = status[m]
        /\ fingerprint'[m] = f /\ cert'[m] = c /\ (valid'[m] <=> valid[m])
    BY <1>0, <1>1, <1>5, <1>19 DEF Recheck, At, certs, tables, machineTable, JobType, Places
  <2>2. s = "pending" /\ c = q /\ valid[m] /\ job'[q].pc = "write" /\ draft[m].by = None
    BY <1>6, <2>1 DEF Midway, Checked, Legal, Target
  <2>3. Midway(q, "write", k, s, fingerprint'[m], cert'[m], valid'[m])
    BY <2>1, <2>2 DEF Midway
  <2> QED
    BY <1>7, <1>11, <2>1, <2>2, <2>3 DEF Working
<1>20. CASE Write(q)
  <2>1. /\ pc = "write" /\ k \in {"approve", "reject", "expire"} /\ job'[q].pc = "follow"
        /\ draft' = [draft EXCEPT ![m] = [by |-> w, status |-> Target[k]]]
        /\ fingerprint'[m] = f /\ cert'[m] = c /\ (valid'[m] <=> valid[m])
    BY <1>0, <1>1, <1>2, <1>5, <1>20 DEF Write, Writes, At, Drafted, certs, Target, FollowedUp, Places
  <2>2. draft'[m] = [by |-> w, status |-> Target[k]]
    BY <1>9, <2>1
  <2>3. Midway(q, "follow", k, Target[k], fingerprint'[m], cert'[m], valid'[m])
    BY <1>6, <2>1 DEF Midway
  <2> QED
    BY <1>12, <2>1, <2>2, <2>3
<1>21. CASE FollowUp(q)
  <2>1. /\ pc = "follow" /\ job'[q].pc = AfterWrite[k] /\ Commit(w, q, View(w))
        /\ k \in {"approve", "reject", "expire"}
        /\ fingerprint'[m] = f /\ cert'[m] = c /\ (valid'[m] <=> valid[m])
    BY <1>0, <1>1, <1>2, <1>5, <1>21 DEF FollowUp, At, certs, Places
  <2>2. status'[m] = s /\ draft'[m].by = None /\ s = Target[k]
    BY <1>6, <1>8, <2>1, StepsOwnRow DEF Midway
  <2>3. CASE k = "approve"
    <3>1. job'[q].pc = "stamp" /\ Midway(q, "stamp", k, s, fingerprint'[m], cert'[m], valid'[m])
      BY <1>6, <2>1, <2>2, <2>3 DEF Midway, Target, AfterWrite
    <3> QED
      BY <1>11, <2>2, <3>1 DEF Working
  <2>4. CASE k # "approve"
    <3>1. job'[q].pc = "done" /\ Settled(s, fingerprint'[m], cert'[m], valid'[m])
      BY <1>6, <2>1, <2>2, <2>4 DEF Midway, Settled, Target, AfterWrite
    <3> QED
      BY <1>13, <2>2, <3>1 DEF Ended
  <2> QED
    BY <2>3, <2>4
<1>22. CASE WriteAlone(q)
  <2>1. pc = "write" /\ k = "revoke" /\ job'[q].pc = AfterWrite[k]
        /\ Commit(w, q, [View(w) EXCEPT ![m] = Target[k]])
    BY <1>0, <1>1, <1>2, <1>22 DEF WriteAlone, Writes, At, Places, Target, FollowedUp
  <2>2. PICK rows : Commit(w, q, rows) /\ rows[m] = "revoked"
    BY <2>1 DEF View, Target
  <2>3. status'[m] = "revoked" /\ draft'[m].by = None /\ AfterWrite[k] = "uncertify"
    BY <1>8, <2>1, <2>2, StepsOwnRow DEF AfterWrite
  <2>4. Midway(q, "uncertify", k, "revoked", fingerprint'[m], cert'[m], valid'[m])
    BY DEF Midway
  <2> QED
    BY <1>11, <2>1, <2>2, <2>3, <2>4 DEF Working
<1>23. CASE Stamp(q)
  <2>1. /\ pc = "stamp" /\ job'[q].pc = "done" /\ Commit(w, q, View(w))
        /\ fingerprint'[m] = q /\ cert'[m] = c /\ (valid'[m] <=> valid[m])
    BY <1>0, <1>1, <1>2, <1>5, <1>9, <1>23 DEF Stamp, At, certs, SetFingerprint
  <2>2. status'[m] = s /\ draft'[m].by = None
    BY <1>8, <2>1, StepsOwnRow
  <2>3. Settled(s, fingerprint'[m], cert'[m], valid'[m])
    BY <1>1, <1>6, <2>1 DEF Midway, Settled
  <2> QED
    BY <1>13, <2>1, <2>2, <2>3 DEF Ended
<1>24. CASE Uncertify(q)
  <2>1. /\ pc = "uncertify" /\ job'[q].pc = "done" /\ MayCommit(w, q) /\ ~valid'[m]
    BY <1>0, <1>1, <1>2, <1>9, <1>24 DEF Uncertify, At, Invalidate
  <2>2. status'[m] = s /\ draft'[m].by = None
    BY <1>6, <1>7, <1>8, <2>1, StepsOwnRow
  <2>3. Settled(s, fingerprint'[m], cert'[m], valid'[m])
    BY <1>6, <2>1 DEF Midway, Settled
  <2> QED
    BY <1>13, <2>1, <2>2, <2>3 DEF Ended
<1> QED
  BY <1>3, <1>14, <1>15, <1>16, <1>17, <1>18, <1>19, <1>20, <1>21, <1>22, <1>23, <1>24 DEF Step

LEMMA StepsKeepOrder ==
    ASSUME RegistrationInv, OrderInv, NEW q \in Requests, Step(q)
    PROVE  OrderInv'
<1> SUFFICES ASSUME NEW m \in Machines PROVE Orderly(m)'
  BY DEF OrderInv
<1>1. /\ Live(q) /\ job'[q].machine = job[q].machine
      /\ \A p \in Requests : p # q => job'[p] = job[p]
  BY StepMoves
<1>2. \A p \in Requests : p # q => (OnIt(p, m)' <=> OnIt(p, m))
  BY <1>1 DEF OnIt, Live
<1>3. disturbed[m] => disturbed'[m]
  BY DEF RegistrationInv, TypeOK, Step, Insert, InsertFails, File, Issue, IssueFails, Recheck, Write, FollowUp,
         WriteAlone, Stamp, Uncertify, UncertifyFails, StatementRaises
<1>4. CASE job[q].machine # m
  <2>1. ~OnIt(q, m) /\ ~OnIt(q, m)'
    BY <1>1, <1>4 DEF OnIt
  <2>2. \A p \in Requests : OnIt(p, m)' <=> OnIt(p, m)
    BY <1>2, <2>1
  <2>3. \A p \in Requests : OnIt(p, m) => job'[p] = job[p]
    BY <1>1, <2>1
  <2> QED
    BY <1>3, <1>4, <2>2, <2>3, StepKeepsElsewhere, ElsewhereKeeps DEF OrderInv
<1>5. CASE disturbed'[m]
  BY <1>5 DEF Orderly
<1>6. CASE job[q].machine = m /\ ~disturbed'[m]
  <2>1. OnIt(q, m) /\ MachineAlone(q, m) /\ HalfDone(q, m)
    BY <1>1, <1>3, <1>6 DEF OnIt, OrderInv, Orderly
  <2>2. \A p \in Requests : p # q => ~OnIt(p, m)'
    BY <1>2, <2>1 DEF MachineAlone
  <2>3. (OnIt(q, m)' => HalfDone(q, m)') /\ (~OnIt(q, m)' => Clean(m)')
    BY <1>6, <2>1, StepKeepsHere
  <2> QED
    BY <2>2, <2>3, OneMoves
<1> QED
  BY <1>4, <1>5, <1>6

LEMMA OthersKeepOrder ==
    ASSUME RegistrationInv, OrderInv, NEW w \in Workers, OthersCommit(w) \/ OthersFail(w)
    PROVE  OrderInv'
<1> SUFFICES ASSUME NEW m \in Machines PROVE Orderly(m)'
  BY DEF OrderInv
<1>1. SameCertificates(m) /\ job' = job /\ disturbed' = disturbed
  BY DEF OthersCommit, OthersFail, certs, SameCertificates
<1>2. SameRow(m)
  <2>1. CASE OthersCommit(w)
    BY <1>1, <2>1, CommitKeepsRow DEF OthersCommit, View
  <2>2. CASE OthersFail(w)
    <3>1. w \in broken' /\ draft' = Without(w) /\ status' = status /\ \A v : v # w => (v \in broken' <=> v \in broken)
      BY <2>2 DEF OthersFail, Breaks
    <3> QED
      BY <1>1, <3>1, LossKeepsRow
  <2> QED
    BY <2>1, <2>2
<1>3. \A p \in Requests : OnIt(p, m)' <=> OnIt(p, m)
  BY <1>1 DEF OnIt, Live
<1> QED
  BY <1>1, <1>2, <1>3, ElsewhereKeeps DEF OrderInv

LEMMA RestartKeepsOrder == ASSUME RegistrationInv, OrderInv, NEW w \in Workers, Restart(w) PROVE OrderInv'
<1> SUFFICES ASSUME NEW m \in Machines PROVE Orderly(m)'
  BY DEF OrderInv
<1>1. PICK cut : cut = {q \in Requests : Live(q) /\ job[q].worker = w}
  OBVIOUS
<1>2. /\ job' = [q \in Requests |-> IF q \in cut THEN [job[q] EXCEPT !.pc = "failed"] ELSE job[q]]
      /\ disturbed' = [n \in Machines |-> disturbed[n] \/ \E q \in cut : job[q].machine = n]
      /\ SameCertificates(m)
      /\ draft' = Without(w) /\ status' = status /\ \A v : v # w => (v \in broken' <=> v \in broken)
  BY <1>1 DEF Restart, SameCertificates, certs
<1>3. CASE \E q \in cut : job[q].machine = m
  <2>1. disturbed'[m]
    BY <1>2, <1>3
  <2> QED
    BY <2>1 DEF Orderly
<1>4. CASE ~\E q \in cut : job[q].machine = m
  <2>1. disturbed[m] => disturbed'[m]
    BY <1>2
  <2>2. ASSUME NEW q \in Requests, job[q].machine = m PROVE job'[q] = job[q]
    BY <1>2, <1>4, <2>2
  <2>3. ASSUME NEW q \in Requests PROVE job'[q].machine = job[q].machine
    <3>1. job[q] \in JobType
      BY DEF RegistrationInv, TypeOK
    <3> QED
      BY <1>2, <3>1 DEF JobType
  <2>4. \A q \in Requests : OnIt(q, m)' <=> OnIt(q, m)
    BY <2>2, <2>3 DEF OnIt, Live
  <2>5. \A q \in Requests : OnIt(q, m) => job'[q] = job[q]
    BY <2>2 DEF OnIt
  <2>6. \A q \in Requests : OnIt(q, m) => job[q].worker # w
    BY <1>1, <1>4 DEF OnIt
  <2>7. SameRow(m)
    BY <1>2, <2>6, LossKeepsRow
  <2> QED
    BY <2>1, <2>4, <2>5, <2>7, ElsewhereKeeps DEF OrderInv
<1> QED
  BY <1>3, <1>4

LEMMA NextOrder == RegistrationInv /\ OrderInv /\ [Next]_vars => OrderInv'
<1> SUFFICES ASSUME RegistrationInv, OrderInv, [Next]_vars PROVE OrderInv'
  OBVIOUS
<1>1. CASE UNCHANGED vars
  <2> SUFFICES ASSUME NEW m \in Machines PROVE Orderly(m)'
    BY DEF OrderInv
  <2>1. /\ UNCHANGED <<status, draft, broken, disturbed, job>> /\ SameCertificates(m)
    BY <1>1 DEF vars, tables, machineTable, certs, SameCertificates
  <2>2. \A v : Seen(v, m)' = Seen(v, m)
    BY <2>1 DEF Seen
  <2>3. SameRow(m)
    BY <2>1, <2>2 DEF SameRow
  <2>4. \A q \in Requests : OnIt(q, m)' <=> OnIt(q, m)
    BY <2>1 DEF OnIt, Live
  <2> QED
    BY <2>1, <2>3, <2>4, ElsewhereKeeps DEF OrderInv
<1>2. ASSUME NEW q \in Requests, NEW m \in Machines, NEW w \in Workers,
             \/ Register(q, m, w) \/ Approve(q, m, w)
             \/ Reject(q, m, w) \/ Expire(q, m, w) \/ Revoke(q, m, w)
      PROVE  OrderInv'
  <2>1. PICK k \in DOMAIN Target, pc \in Working \cup Ended :
            FirstPlace(k, m, w, pc) /\ Arrive(q, k, m, w, pc)
    BY <1>2, Arrivals
  <2> QED
    BY <2>1, ArrivalsKeepOrder
<1> QED
  BY <1>1, <1>2, StepsKeepOrder, OthersKeepOrder, RestartKeepsOrder DEF Next

\* Requests that come one after the other, none of them cut off, leave a machine registered exactly
\* if it holds a valid certificate, the one the registry names; for any machines, requests and
\* workers, and whatever else their sessions serve (MachineRegistry.approve and revoke, and the
\* certificate service between their writes).
THEOREM OrderLeavesConsistency == Spec => []UndisturbedIsConsistent
<1>1. OrderInv => UndisturbedIsConsistent
  BY DEF OrderInv, Orderly, Clean, Settled, UndisturbedIsConsistent
<1> QED
  BY <1>1, RegistrationInvariance, InitOrder, NextOrder, PTL DEF Spec

=============================================================================
