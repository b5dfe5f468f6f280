---------------------------- MODULE Registration ----------------------------
(***************************************************************************)
(* The machine registry of the management server:                          *)
(* management_server/src/management_server/machines.                       *)
(*                                                                         *)
(* An administrator's request about a machine reads its row, checks the    *)
(* transition, and writes the row without looking again.  Approval puts a  *)
(* certificate between a first and a second read.  A registration and a    *)
(* decision write two tables, statement after statement, and COMMIT.       *)
(*                                                                         *)
(* Requests run in worker processes, and all that a worker serves, to the  *)
(* registry or to another manager, share its one AsyncSession              *)
(* (startup/stages.py:114).  So what one of them has written so far is     *)
(* seen by the others of the worker, and the COMMIT of any commits it;     *)
(* other workers neither see it nor get past the row until then.  Nothing  *)
(* rolls back: a statement PostgreSQL refuses leaves the session in a      *)
(* failed transaction, its writes lost, and every later request of the     *)
(* worker fails; one sent while the session is busy with another's raises  *)
(* before it gets there, and leaves open what preceded it.  The last       *)
(* statement of a transaction and its COMMIT are one step.                 *)
(*                                                                         *)
(* The certificate service is external: it keeps one certificate for a     *)
(* machine, both of its operations may raise, and they may COMMIT the      *)
(* session, which they share.  Queries, metrics, the transition log in     *)
(* memory and delete_machine, which nobody calls, are left out.            *)
(***************************************************************************)
EXTENDS Naturals

CONSTANTS Machines,  \* the machine_uuids
          Requests,  \* the requests that may arrive
          Workers,   \* the worker processes
          None       \* no machine, worker or certificate

ASSUME RegistrationAssumption == None \notin Machines \cup Requests \cup Workers

VARIABLES
    status,       \* status[m]: machines.status as committed, "absent" before the INSERT
    application,  \* application[m]: registration_requests.status
    fingerprint,  \* fingerprint[m]: the approval whose certificate the row names
    draft,        \* draft[m]: the status that a worker's session has not committed yet
    cert,         \* cert[m]: the approval the certificate on file was issued for
    valid,        \* valid[m]: that certificate is not revoked
    broken,       \* the workers whose session is in a failed transaction
    job,          \* job[q]: the handler of request q
    \* History, read by the properties only:
    applied,      \* applied[m]: the registrations that were accepted
    disturbed,    \* disturbed[m]: two requests about m crossed, or one stopped halfway
    parted        \* parted[m]: a write of both tables was cut in two, by a failure or a COMMIT

machineTable == <<status, draft, parted>>
tables == <<machineTable, application, fingerprint>>
certs == <<cert, valid>>
vars == <<tables, certs, broken, job, applied, disturbed>>

\* MachineState (online, degraded and offline have no transition yet)
MachineState == {"pending", "registered", "quarantined", "rejected", "expired", "revoked"}

\* MachineStateMachine._rules
Legal == {<<"absent", "pending">>, <<"pending", "registered">>, <<"pending", "rejected">>,
          <<"pending", "expired">>, <<"registered", "quarantined">>,
          <<"registered", "revoked">>, <<"quarantined", "revoked">>}

\* The status each operation writes
Target == [register |-> "pending", approve |-> "registered", reject |-> "rejected",
           expire |-> "expired", revoke |-> "revoked"]

Working == {"insert", "file", "issue", "recheck", "write", "follow", "stamp", "uncertify"}
Ended == {"done", "refused", "failed"}
Live(q) == job[q].pc \in Working
\* Between the statement on machines and the one on registration_requests.
Halfway(q) == job[q].pc \in {"file", "follow"}

Free == [by |-> None, status |-> "absent"]
NoJob == [pc |-> "idle", kind |-> "none", machine |-> None, worker |-> None, seen |-> "absent"]

Init ==
    /\ status = [m \in Machines |-> "absent"]
    /\ application = [m \in Machines |-> "absent"]
    /\ fingerprint = [m \in Machines |-> None]
    /\ draft = [m \in Machines |-> Free]
    /\ cert = [m \in Machines |-> None]
    /\ valid = [m \in Machines |-> FALSE]
    /\ broken = {}
    /\ job = [q \in Requests |-> NoJob]
    /\ applied = [m \in Machines |-> {}]
    /\ disturbed = [m \in Machines |-> FALSE]
    /\ parted = [m \in Machines |-> FALSE]

-----------------------------------------------------------------------------
\* The session of worker w: what it sees of machines, which rows it may write, what a
\* COMMIT of request q does (q is None if it is not about a machine), and a rollback.
Seen(w, m) == IF draft[m].by = w THEN draft[m].status ELSE status[m]
Latest(m) == IF draft[m].by = None THEN status[m] ELSE draft[m].status
Unlocked(w, m) == draft[m].by \in {None, w}
Without(w) == [m \in Machines |-> IF draft[m].by = w THEN Free ELSE draft[m]]
CutBy(w, q, m) == \E p \in Requests : Halfway(p) /\ p # q /\ job[p].worker = w /\ job[p].machine = m

View(w) == [m \in Machines |-> Seen(w, m)]
Commit(w, q, rows) ==
    /\ status' = rows
    /\ draft' = Without(w)
    /\ parted' = [m \in Machines |-> parted[m] \/ CutBy(w, q, m)]

Breaks(w) ==
    /\ broken' = broken \cup {w}
    /\ draft' = Without(w)
    /\ UNCHANGED <<status, parted>>
MayBreak(w) == Breaks(w) \/ UNCHANGED <<broken, machineTable>>
MayCommit(w, q) == Commit(w, q, View(w)) \/ UNCHANGED machineTable

-----------------------------------------------------------------------------
\* A request about m arrives at worker w, reads the row and goes on at pc, or ends.
Crossing(m) == \E q \in Requests : Live(q) /\ job[q].machine = m

Arrive(q, k, m, w, pc) ==
    /\ job[q].pc = "idle"
    /\ job' = [job EXCEPT ![q] = [pc |-> IF w \in broken THEN "failed" ELSE pc,
                                  kind |-> k, machine |-> m, worker |-> w,
                                  seen |-> Seen(w, m)]]
    /\ disturbed' = [disturbed EXCEPT ![m] = @ \/ Crossing(m)]
    /\ UNCHANGED <<tables, certs, broken, applied>>

Register(q, m, w) ==
    Arrive(q, "register", m, w, IF Seen(w, m) = "absent" THEN "insert" ELSE "refused")

Approve(q, m, w) ==
    Arrive(q, "approve", m, w, IF Seen(w, m) = "pending" THEN "issue" ELSE "refused")

CheckedAny(k, from) == IF from # "absent" THEN "write" ELSE "refused"
Checked(k, from) == IF <<from, Target[k]>> \in Legal THEN "write" ELSE "refused"

Reject(q, m, w) == Arrive(q, "reject", m, w, Checked("reject", Seen(w, m)))
Expire(q, m, w) == Arrive(q, "expire", m, w, Checked("expire", Seen(w, m)))
Revoke(q, m, w) == Arrive(q, "revoke", m, w, Checked("revoke", Seen(w, m)))

-----------------------------------------------------------------------------
\* The rest of a handler, from one await to the next.
At(q, pc) == job[q].pc = pc /\ job[q].worker \notin broken
GoTo(q, pc) == job' = [job EXCEPT ![q].pc = pc]

Drafted(q, to) ==
    draft' = [draft EXCEPT ![job[q].machine] = [by |-> job[q].worker, status |-> to]]

\* create_registration_request: the row of machines, whose machine_uuid is UNIQUE, so that
\* a second INSERT waits for the first worker's COMMIT and is refused.
IsTaken(q) == Seen(job[q].worker, job[q].machine) # "absent"

Insert(q) ==
    /\ At(q, "insert") /\ Unlocked(job[q].worker, job[q].machine) /\ ~IsTaken(q)
    /\ Drafted(q, "pending")
    /\ GoTo(q, "file")
    /\ UNCHANGED <<status, parted, application, fingerprint, certs, broken, applied, disturbed>>

InsertFails(q) ==
    /\ At(q, "insert") /\ Unlocked(job[q].worker, job[q].machine) /\ IsTaken(q)
    /\ Breaks(job[q].worker)
    /\ GoTo(q, "failed")
    /\ UNCHANGED <<application, fingerprint, certs, applied, disturbed>>

\* Then the row of registration_requests, and the COMMIT.
File(q) ==
    LET m == job[q].machine  w == job[q].worker IN
    /\ At(q, "file")
    /\ application' = [application EXCEPT ![m] = "pending"]
    /\ applied' = [applied EXCEPT ![m] = @ \cup {q}]
    /\ Commit(w, q, View(w))
    /\ GoTo(q, "done")
    /\ UNCHANGED <<fingerprint, certs, broken, disturbed>>

\* issue_certificate, and what approve() does when it raises: whether the database
\* was the cause, and broke the session, is not known here.
Issue(q) ==
    LET m == job[q].machine IN
    /\ At(q, "issue")
    /\ cert' = [cert EXCEPT ![m] = q]
    /\ valid' = [valid EXCEPT ![m] = TRUE]
    /\ MayCommit(job[q].worker, q)
    /\ GoTo(q, "recheck")
    /\ UNCHANGED <<application, fingerprint, broken, applied, disturbed>>

IssueFails(q) ==
    /\ At(q, "issue")
    /\ MayBreak(job[q].worker)
    /\ GoTo(q, "failed")
    /\ UNCHANGED <<application, fingerprint, certs, applied, disturbed>>

\* MachineRegistry.approve reads the row again before it writes.
Recheck(q) ==
    LET now == Seen(job[q].worker, job[q].machine) IN
    /\ At(q, "recheck")
    /\ job' = [job EXCEPT ![q].pc = Checked("approve", now), ![q].seen = now]
    /\ UNCHANGED <<tables, certs, broken, applied, disturbed>>

\* update_status: the UPDATE names the machine only, not the status that was read.  Another
\* UPDATE follows it, of the application if there is one, unless this is a revocation.
FollowedUpShort == {"registered", "rejected"}
FollowedUp == {"registered", "rejected", "expired"}

Writes(q) == At(q, "write") /\ Unlocked(job[q].worker, job[q].machine)

Write(q) ==
    /\ Writes(q) /\ Target[job[q].kind] \in FollowedUp
    /\ Drafted(q, Target[job[q].kind])
    /\ GoTo(q, "follow")
    /\ UNCHANGED <<status, parted, application, fingerprint, certs, broken, applied, disturbed>>

AfterWrite == [reject |-> "done", expire |-> "done", approve |-> "stamp", revoke |-> "uncertify"]

FollowUp(q) ==
    LET m == job[q].machine  w == job[q].worker IN
    /\ At(q, "follow")
    /\ application' = [application EXCEPT
                          ![m] = IF @ = "absent" THEN @ ELSE Target[job[q].kind]]
    /\ Commit(w, q, View(w))
    /\ GoTo(q, AfterWrite[job[q].kind])
    /\ UNCHANGED <<fingerprint, certs, broken, applied, disturbed>>

WriteAlone(q) ==
    LET m == job[q].machine  w == job[q].worker  to == Target[job[q].kind] IN
    /\ Writes(q) /\ to \notin FollowedUp
    /\ Commit(w, q, [View(w) EXCEPT ![m] = to])
    /\ GoTo(q, AfterWrite[job[q].kind])
    /\ UNCHANGED <<application, fingerprint, certs, broken, applied, disturbed>>

\* set_certificate_fingerprint
SetFingerprint(m, fp) == fingerprint' = [fingerprint EXCEPT ![m] = fp]

Stamp(q) ==
    LET m == job[q].machine  w == job[q].worker IN
    /\ At(q, "stamp") /\ Unlocked(w, m)
    /\ SetFingerprint(m, q)
    /\ Commit(w, q, View(w))
    /\ GoTo(q, "done")
    /\ UNCHANGED <<application, certs, broken, applied, disturbed>>

\* revoke_certificate.  When it raises, revoke() logs a warning and answers as ever.
KeepValid(q) == UNCHANGED valid
Invalidate(q) == valid' = [valid EXCEPT ![job[q].machine] = FALSE]

Uncertify(q) ==
    /\ At(q, "uncertify")
    /\ Invalidate(q)
    /\ MayCommit(job[q].worker, q)
    /\ GoTo(q, "done")
    /\ UNCHANGED <<application, fingerprint, cert, broken, applied, disturbed>>

UncertifyFails(q) ==
    /\ At(q, "uncertify")
    /\ MayBreak(job[q].worker)
    /\ disturbed' = [disturbed EXCEPT ![job[q].machine] = TRUE]
    /\ GoTo(q, "done")
    /\ UNCHANGED <<application, fingerprint, certs, applied>>

\* A statement sent through a failed session raises, and so does one sent while the
\* session is busy.  Only the certificate service's is caught, by revoke().
StatementRaises(q) ==
    LET m == job[q].machine IN
    /\ Live(q)
    /\ GoTo(q, IF job[q].pc = "uncertify" THEN "done" ELSE "failed")
    /\ disturbed' = [disturbed EXCEPT ![m] = TRUE]
    /\ parted' = [parted EXCEPT ![m] = @ \/ (Halfway(q) /\ job[q].worker \notin broken)]
    /\ UNCHANGED <<status, draft, application, fingerprint, certs, broken, applied>>

\* What another manager's request does to the session it shares.
OthersCommit(w) ==
    /\ \E m \in Machines : draft[m].by = w
    /\ Commit(w, None, View(w))
    /\ UNCHANGED <<application, fingerprint, certs, broken, job, applied, disturbed>>

OthersFail(w) ==
    /\ Breaks(w)
    /\ UNCHANGED <<application, fingerprint, certs, job, applied, disturbed>>

\* A worker process dies with the requests it was handling, and another takes its place.
Restart(w) ==
    LET cut == {q \in Requests : Live(q) /\ job[q].worker = w} IN
    /\ broken' = broken \ {w}
    /\ draft' = Without(w)
    /\ job' = [q \in Requests |-> IF q \in cut THEN [job[q] EXCEPT !.pc = "failed"] ELSE job[q]]
    /\ disturbed' = [m \in Machines |-> disturbed[m] \/ \E q \in cut : job[q].machine = m]
    /\ UNCHANGED <<status, parted, application, fingerprint, certs, applied>>

Step(q) ==
    \/ Insert(q) \/ InsertFails(q) \/ File(q)
    \/ Issue(q) \/ IssueFails(q) \/ Recheck(q)
    \/ Write(q) \/ FollowUp(q) \/ WriteAlone(q) \/ Stamp(q)
    \/ Uncertify(q) \/ UncertifyFails(q)
    \/ StatementRaises(q)

Next ==
    \/ \E q \in Requests, m \in Machines, w \in Workers :
          \/ Register(q, m, w) \/ Approve(q, m, w)
          \/ Reject(q, m, w) \/ Expire(q, m, w) \/ Revoke(q, m, w)
    \/ \E q \in Requests : Step(q)
    \/ \E w \in Workers : OthersCommit(w) \/ OthersFail(w) \/ Restart(w)

Spec == Init /\ [][Next]_vars

-----------------------------------------------------------------------------
\* Every variable has the shape the code gives it.
JobType == [pc : {"idle"} \cup Working \cup Ended, kind : DOMAIN Target \cup {"none"},
            machine : Machines \cup {None}, worker : Workers \cup {None},
            seen : MachineState \cup {"absent"}]
DraftType == [by : Workers \cup {None}, status : MachineState \cup {"absent"}]

TypeOK ==
    /\ status \in [Machines -> MachineState \cup {"absent"}]
    /\ application \in [Machines -> MachineState \cup {"absent"}]
    /\ fingerprint \in [Machines -> Requests \cup {None}]
    /\ draft \in [Machines -> DraftType]
    /\ cert \in [Machines -> Requests \cup {None}]
    /\ valid \in [Machines -> BOOLEAN]
    /\ broken \subseteq Workers
    /\ job \in [Requests -> JobType]
    /\ applied \in [Machines -> SUBSET Requests]
    /\ disturbed \in [Machines -> BOOLEAN]
    /\ parted \in [Machines -> BOOLEAN]

\* A machine is registered once: of the registrations that found no row, however
\* they cross and wherever a worker dies, one is accepted.
OneRegistration == \A m \in Machines : \A p, q \in applied[m] : p = q

\* The two tables tell one story: the application follows the machine through every
\* decision, in whatever order the decisions hit the rows; a revocation, which has no
\* application of its own, leaves the last decision in place.  Only a write of both that
\* was cut in two, by a failure or by another request's COMMIT, sets them apart.
TablesAgree ==
    \A m \in Machines :
        \/ parted[m]
        \/ application[m] = status[m]
        \/ status[m] = "revoked" /\ application[m] \in FollowedUp

\* No machine is registered, by either table, before a certificate was issued for it,
\* whoever wrote the rows last and whatever committed them; and a certificate named in
\* the row was issued for that machine.
RegisteredIsCertified ==
    \A m \in Machines :
        /\ "registered" \in {status[m], application[m]} => cert[m] # None
        /\ fingerprint[m] # None => /\ job[fingerprint[m]].machine = m
                                    /\ job[fingerprint[m]].kind = "approve"

\* Together: what the registry says of a machine at any time, crossings, failures, shared
\* sessions and deaths of workers included.
RegistryIsSound == OneRegistration /\ TablesAgree /\ RegisteredIsCertified

\* When the requests about a machine came one after the other, and none was cut off,
\* then between them it is registered exactly if it holds a valid certificate, and
\* the registry names the certificate it holds.
UndisturbedIsConsistent ==
    \A m \in Machines :
        ~disturbed[m] /\ ~Crossing(m) =>
            /\ status[m] = "registered" <=> cert[m] # None /\ valid[m]
            /\ status[m] = "registered" => fingerprint[m] = cert[m]

\* A row moves outside the transition table, a revoked machine being registered again
\* say, only under a handler that read another status than the one it overwrites, or
\* back, when the session that wrote it ends without a COMMIT.
OnlyStaleWritesStep ==
    \A m \in Machines :
        \/ Latest(m)' = Latest(m)
        \/ <<Latest(m), Latest(m)'>> \in Legal
        \/ \E q \in Requests : /\ job[q].pc = "write" /\ job'[q].pc # "write"
                               /\ job[q].machine = m /\ job[q].seen # Latest(m)
        \/ draft[m].by # None /\ Latest(m)' = status[m] /\ status'[m] = status[m]
OnlyStaleWritesBreakTheLifecycle == [][OnlyStaleWritesStep]_vars
=============================================================================
