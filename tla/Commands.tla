------------------------------ MODULE Commands ------------------------------
(***************************************************************************)
(* The remote commands of the management server:                           *)
(* management_server/src/management_server/commands.                       *)
(*                                                                         *)
(* A command is a row of "commands" and a log, the rows of                 *)
(* "command_lifecycle".  A request reads the row, checks the transition it *)
(* is about to make, and makes it with an UPDATE that names the command    *)
(* and nothing else, an INSERT into the log, and a COMMIT; creation and    *)
(* authorization make two transitions.                                     *)
(*                                                                         *)
(* Whatever a worker process serves, these requests, the agents' polls and *)
(* those of other managers, shares the one AsyncSession of the worker      *)
(* (startup/stages.py:114), as Registration.tla says: what one of them has *)
(* written is seen by the others of the worker, committed by the COMMIT of *)
(* any, and lost when a statement of any is refused, after which the       *)
(* session fails for good.  The INSERT into the log and the COMMIT are one *)
(* step.                                                                   *)
(*                                                                         *)
(* All commands are for one machine: those of different machines never     *)
(* meet.  Its agent polls for the commands it may run.  The authorization  *)
(* pipeline (commands/authorization.py) is never called by the service and *)
(* is left out, as are parameters, expiry, which nothing checks, priority, *)
(* which only chooses a queue nobody reads, and the queries.               *)
(***************************************************************************)
EXTENDS Sequences, Naturals

CONSTANTS Commands,  \* the commands that may be created
          CommandRequests,  \* the requests that may arrive
          CommandWorkers,   \* the worker processes
          NoOne

ASSUME CommandsAssumption == NoOne \notin Commands \cup CommandRequests \cup CommandWorkers

VARIABLES
    state,      \* state[c]: commands.state as committed, "absent" before the INSERT
    log,        \* log[c]: the states of c in command_lifecycle, oldest first
    uncommitted,    \* uncommitted[c]: the state of c that a worker's session has not committed yet
    failing,    \* the workers whose session is in a failed transaction
    enqueued,   \* enqueued[w]: the commands in the CommandQueue of worker w
    commandJob, \* commandJob[q]: the handler of request q
    \* History, read by the properties only:
    handed,     \* the commands the agent was given
    cancelled,  \* the commands whose cancellation was committed
    cutCommands,        \* those with a transition cut in two, by a failure or a COMMIT
    withdrawn,          \* those with a transition that was lost before its COMMIT
    disturbedCommands   \* those two requests crossed on, or one stopped halfway on

rowOfCommand == <<state, uncommitted, cutCommands>>
commandTable == <<rowOfCommand, log, failing, withdrawn>>
commandVars == <<commandTable, enqueued, commandJob, handed, cancelled, disturbedCommands>>

CommandState == {"created", "queued", "authorized", "ready", "delivered", "acknowledged",
                 "running", "success", "failed", "cancelled", "expired"}

\* LEGAL_TRANSITIONS
LegalMoves == {<<"created", "queued">>, <<"queued", "authorized">>, <<"queued", "cancelled">>,
          <<"queued", "expired">>, <<"authorized", "ready">>, <<"authorized", "cancelled">>,
          <<"ready", "delivered">>, <<"ready", "cancelled">>, <<"ready", "expired">>,
          <<"delivered", "acknowledged">>, <<"acknowledged", "running">>,
          <<"running", "success">>, <<"running", "failed">>,
          <<"created", "cancelled">>, <<"created", "expired">>}

LiveRequest(q) == commandJob[q].pc \in {"check", "write", "log", "enqueue"}
CommandCrossing(c) == \E q \in CommandRequests : LiveRequest(q) /\ commandJob[q].command = c
NoCommandJob == [pc |-> "idle", command |-> NoOne, worker |-> NoOne, seen |-> "absent", to |-> "queued"]
Saved == [by |-> NoOne, state |-> "absent"]

CommandsInit ==
    /\ state = [c \in Commands |-> "absent"]
    /\ log = [c \in Commands |-> <<>>]
    /\ uncommitted = [c \in Commands |-> Saved]
    /\ failing = {}
    /\ enqueued = [w \in CommandWorkers |-> {}]
    /\ commandJob = [q \in CommandRequests |-> NoCommandJob]
    /\ handed = {}
    /\ cancelled = {}
    /\ cutCommands = {}
    /\ withdrawn = {}
    /\ disturbedCommands = {}

-----------------------------------------------------------------------------
\* The session of worker w: the row it sees, the COMMIT of request q (of nobody here, if
\* q is NoOne), and the loss of what is not committed.
SeenState(w, c) == IF uncommitted[c].by = w THEN uncommitted[c].state ELSE state[c]
LatestState(c) == IF uncommitted[c].by = NoOne THEN state[c] ELSE uncommitted[c].state
OpenOf(w) == {c \in Commands : uncommitted[c].by = w}
CutShort(w, q) == {commandJob[p].command : p \in {r \in CommandRequests :
                      commandJob[r].pc = "log" /\ commandJob[r].worker = w /\ r # q}}

Close(w) == uncommitted' = [c \in Commands |-> IF c \in OpenOf(w) THEN Saved ELSE uncommitted[c]]

SaveAll(w, q) ==
    /\ state' = [c \in Commands |-> SeenState(w, c)]
    /\ Close(w)
    /\ cutCommands' = cutCommands \cup CutShort(w, q)

LoseAll(w) ==
    /\ Close(w)
    /\ withdrawn' = withdrawn \cup OpenOf(w)
    /\ UNCHANGED <<state, log, cutCommands>>

-----------------------------------------------------------------------------
\* A request about c arrives at worker w, reads the row, and goes on to make the transition
\* if it is legal from there; it ends with an error if not.
MayMoveAny(from, to) == from # "absent"
MayMove(from, to) == <<from, to>> \in LegalMoves

Read(q, c, w, to) ==
    commandJob' = [commandJob EXCEPT
        ![q] = [pc |-> IF w \notin failing /\ MayMove(SeenState(w, c), to) THEN "write" ELSE "refused",
                command |-> c, worker |-> w, seen |-> SeenState(w, c), to |-> to]]

\* authorize_command and cancel_command
Ask(q, c, w, to) ==
    /\ commandJob[q].pc = "idle"
    /\ Read(q, c, w, to)
    /\ disturbedCommands' = IF CommandCrossing(c) THEN disturbedCommands \cup {c} ELSE disturbedCommands
    /\ UNCHANGED <<commandTable, enqueued, handed, cancelled>>

Authorize(q, c, w) == Ask(q, c, w, "authorized")
Cancel(q, c, w) == Ask(q, c, w, "cancelled")

\* create_command: the id is a new uuid4, and nothing is read before the INSERT.
NewCommand(c) == \A q \in CommandRequests : commandJob[q].command = c => commandJob[q].to \notin {"created", "queued"}

CreateCommand(q, c, w) ==
    /\ commandJob[q].pc = "idle" /\ NewCommand(c)
    /\ commandJob' = [commandJob EXCEPT ![q] = [pc |-> "write", command |-> c, worker |-> w,
                                  seen |-> "absent", to |-> "created"]]
    /\ UNCHANGED <<commandTable, enqueued, handed, cancelled, disturbedCommands>>

-----------------------------------------------------------------------------
\* The rest of a handler, from one await to the next.
Reaches(q, pc) == commandJob[q].pc = pc /\ commandJob[q].worker \notin failing

\* The row moves whatever it says by now; another worker's uncommitted UPDATE is waited for.
WriteState(q) ==
    LET c == commandJob[q].command  w == commandJob[q].worker IN
    /\ Reaches(q, "write") /\ uncommitted[c].by \in {NoOne, w}
    /\ uncommitted' = [uncommitted EXCEPT ![c] = [by |-> w, state |-> commandJob[q].to]]
    /\ commandJob' = [commandJob EXCEPT ![q].pc = "log"]
    /\ UNCHANGED <<state, cutCommands, log, failing, withdrawn, enqueued, handed, cancelled,
                   disturbedCommands>>

\* _record_lifecycle and the COMMIT: the log grows by what the row moved to.  A creation goes
\* on to its transition to QUEUED, and an authorization to its second one, to READY, for which
\* it does not read the row again.
LoggedOnce(c, to) ==
    IF \E i \in DOMAIN log[c] : log[c][i] = to THEN log[c] ELSE Append(log[c], to)
Logged(c, to) == Append(log[c], to)

AfterForgetting(j) ==
    CASE j.to = "created" -> [j EXCEPT !.pc = "check", !.to = "queued"]
      [] j.to = "queued"  -> [j EXCEPT !.pc = "enqueue"]
      [] OTHER            -> [j EXCEPT !.pc = "done"]
After(j) ==
    CASE j.to = "created"    -> [j EXCEPT !.pc = "check", !.to = "queued"]
      [] j.to = "queued"     -> [j EXCEPT !.pc = "enqueue"]
      [] j.to = "authorized" -> [j EXCEPT !.pc = "write", !.seen = "authorized", !.to = "ready"]
      [] OTHER               -> [j EXCEPT !.pc = "done"]

LogState(q) ==
    LET c == commandJob[q].command  to == commandJob[q].to IN
    /\ Reaches(q, "log")
    /\ log' = [log EXCEPT ![c] = Logged(c, to)]
    /\ SaveAll(commandJob[q].worker, q)
    /\ commandJob' = [commandJob EXCEPT ![q] = After(@)]
    /\ cancelled' = IF to = "cancelled" THEN cancelled \cup {c} ELSE cancelled
    /\ UNCHANGED <<failing, withdrawn, enqueued, handed, disturbedCommands>>

\* _transition, within create_command
Check(q) ==
    /\ Reaches(q, "check")
    /\ Read(q, commandJob[q].command, commandJob[q].worker, "queued")
    /\ UNCHANGED <<commandTable, enqueued, handed, cancelled, disturbedCommands>>

\* The end of create_command.  Nothing dequeues.
MayEnqueue(q) == commandJob[q].pc = "enqueue"

Enqueue(q) ==
    /\ MayEnqueue(q)
    /\ enqueued' = [enqueued EXCEPT ![commandJob[q].worker] = @ \cup {commandJob[q].command}]
    /\ commandJob' = [commandJob EXCEPT ![q].pc = "done"]
    /\ UNCHANGED <<commandTable, handed, cancelled, disturbedCommands>>

\* A statement raises before it gets to the database: the session is busy, or has failed.
\* An UPDATE that preceded it stays open.
Fail(q) ==
    LET c == commandJob[q].command IN
    /\ LiveRequest(q)
    /\ commandJob' = [commandJob EXCEPT ![q].pc = "failed"]
    /\ disturbedCommands' = disturbedCommands \cup {c}
    /\ cutCommands' = IF Reaches(q, "log") THEN cutCommands \cup {c} ELSE cutCommands
    /\ UNCHANGED <<state, uncommitted, log, failing, withdrawn, enqueued, handed, cancelled>>

\* What any request of the worker does to the session: a COMMIT, or a statement that
\* PostgreSQL refuses.
SessionCommits(w) ==
    /\ OpenOf(w) # {}
    /\ SaveAll(w, NoOne)
    /\ UNCHANGED <<log, failing, withdrawn, enqueued, commandJob, handed, cancelled, disturbedCommands>>

SessionFails(w) ==
    /\ failing' = failing \cup {w}
    /\ LoseAll(w)
    /\ UNCHANGED <<enqueued, commandJob, handed, cancelled, disturbedCommands>>

\* A worker process dies with the requests it was handling and its queue.
RestartWorker(w) ==
    LET cut == {q \in CommandRequests : LiveRequest(q) /\ commandJob[q].worker = w} IN
    /\ failing' = failing \ {w}
    /\ LoseAll(w)
    /\ enqueued' = [enqueued EXCEPT ![w] = {}]
    /\ commandJob' = [q \in CommandRequests |->
                        IF q \in cut THEN [commandJob[q] EXCEPT !.pc = "failed"] ELSE commandJob[q]]
    /\ disturbedCommands' = disturbedCommands \cup {commandJob[q].command : q \in cut}
    /\ UNCHANGED <<handed, cancelled>>

\* get_pending_for_machine: the agent polls at worker w.  Being handed out changes no state,
\* so that a command is handed out at every poll.
Deliverable == {"authorized", "ready"}
Due(w, c) == SeenState(w, c) \in Deliverable

Poll(w) ==
    /\ w \notin failing
    /\ handed' = handed \cup {c \in Commands : Due(w, c)}
    /\ handed' # handed
    /\ UNCHANGED <<commandTable, enqueued, commandJob, cancelled, disturbedCommands>>

CommandsNext ==
    \/ \E q \in CommandRequests, c \in Commands, w \in CommandWorkers :
          CreateCommand(q, c, w) \/ Authorize(q, c, w) \/ Cancel(q, c, w)
    \/ \E q \in CommandRequests : WriteState(q) \/ LogState(q) \/ Check(q) \/ Enqueue(q) \/ Fail(q)
    \/ \E w \in CommandWorkers : SessionCommits(w) \/ SessionFails(w) \/ RestartWorker(w) \/ Poll(w)

CommandsSpec == CommandsInit /\ [][CommandsNext]_commandVars

-----------------------------------------------------------------------------
\* Every variable has the shape the code gives it.
CommandJobType == [pc : {"idle", "check", "write", "log", "enqueue", "done", "refused", "failed"},
            command : Commands \cup {NoOne}, worker : CommandWorkers \cup {NoOne},
            seen : CommandState \cup {"absent"}, to : CommandState]
UncommittedType == [by : CommandWorkers \cup {NoOne}, state : CommandState \cup {"absent"}]

CommandsTypeOK ==
    /\ state \in [Commands -> CommandState \cup {"absent"}]
    /\ log \in [Commands -> Seq(CommandState)]
    /\ uncommitted \in [Commands -> UncommittedType]
    /\ failing \subseteq CommandWorkers
    /\ enqueued \in [CommandWorkers -> SUBSET Commands]
    /\ commandJob \in [CommandRequests -> CommandJobType]
    /\ handed \subseteq Commands
    /\ cancelled \subseteq Commands
    /\ cutCommands \subseteq Commands
    /\ withdrawn \subseteq Commands
    /\ disturbedCommands \subseteq Commands

\* c went through state s, by its log.
Went(c, s) == \E i \in DOMAIN log[c] : log[c][i] = s
EndsWith(c, s) == IF s = "absent" THEN log[c] = <<>> ELSE log[c] # <<>> /\ log[c][Len(log[c])] = s

\* The log is the command's history, whatever requests crossed on it, shared a session or
\* died: it starts with the creation and ends with the state of the row.  Only a transition
\* that was cut in two, by a failure or by another request's COMMIT, sets them apart.
LogTellsTheState ==
    \A c \in Commands \ cutCommands :
        EndsWith(c, state[c]) /\ (log[c] # <<>> => log[c][1] = "created")

\* No agent is given a command unless a request to authorize it found it QUEUED; and the
\* log has the authorization, but for one that is being written, was cut in two, or was lost
\* before its COMMIT, when a poll of the same worker had seen it already.
Authorizing(q, c) ==
    /\ commandJob[q].command = c /\ commandJob[q].to \in {"authorized", "ready"}
    /\ commandJob[q].pc # "refused"
NoneHandedUnauthorized ==
    \A c \in handed :
        /\ \E q \in CommandRequests : Authorizing(q, c)
        /\ \/ Went(c, "authorized")
           \/ c \in cutCommands \cup withdrawn
           \/ \E q \in CommandRequests : Authorizing(q, c) /\ Reaches(q, "log")

\* A command sits in the queue of one worker at most, and went through QUEUED: one
\* whose creation was answered with an error is in none.
EnqueuedOnce ==
    \A v, w \in CommandWorkers : \A c \in enqueued[v] :
        /\ Went(c, "queued")
        /\ c \in enqueued[w] => v = w

\* Together: what the log, the queues and the agent know of a command is its history.
CommandsAreSound == LogTellsTheState /\ NoneHandedUnauthorized /\ EnqueuedOnce

\* Requests that came one after the other, and none of them cut off, leave a command
\* waiting for its authorization, ready or cancelled, and never in between, whatever else
\* their sessions served; its log then is a path of legal transitions to that state.
UndisturbedIsSettled ==
    \A c \in Commands \ disturbedCommands :
        ~CommandCrossing(c) =>
            /\ state[c] \in {"absent", "queued", "ready", "cancelled"}
            /\ EndsWith(c, state[c])
            /\ \A i \in 1 .. Len(log[c]) - 1 : <<log[c][i], log[c][i + 1]>> \in LegalMoves

\* A row moves outside LEGAL_TRANSITIONS only under a handler that believed it in
\* another state than the one it overwrites, or back, when the session that moved it
\* ends without a COMMIT.
OnlyStaleCommandWritesStep ==
    \A c \in Commands :
        \/ LatestState(c)' = LatestState(c)
        \/ LatestState(c) = "absent" /\ LatestState(c)' = "created"
        \/ <<LatestState(c), LatestState(c)'>> \in LegalMoves
        \/ \E q \in CommandRequests : /\ commandJob[q].pc = "write" /\ commandJob'[q].pc = "log"
                                      /\ commandJob[q].command = c /\ commandJob[q].seen # LatestState(c)
        \/ uncommitted[c].by # NoOne /\ LatestState(c)' = state[c] /\ state'[c] = state[c]
OnlyStaleWritesBreakCommands == [][OnlyStaleCommandWritesStep]_commandVars

=============================================================================
