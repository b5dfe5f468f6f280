--------------------------- MODULE Commands_proofs ---------------------------
(***************************************************************************)
(* What Commands.tla does for any number of commands, requests and worker  *)
(* processes.                                                              *)
(***************************************************************************)
EXTENDS Commands, TLAPS

\* A handler that is not over knows its command and its worker, and what it is about to do.
CommandPlaces(to) ==
    CASE to = "queued" -> {"check", "write", "log", "enqueue"}
      [] to \in {"created", "authorized", "ready", "cancelled"} -> {"write", "log"}
      [] OTHER -> {}

CommandJobsAreSound ==
    \A q \in CommandRequests :
        /\ commandJob[q].pc = "idle" => commandJob[q].command = NoOne
        /\ LiveRequest(q) =>
            /\ commandJob[q].command \in Commands /\ commandJob[q].worker \in CommandWorkers
            /\ commandJob[q].pc \in CommandPlaces(commandJob[q].to)
            /\ commandJob[q].pc = "write" =>
                  <<commandJob[q].seen, commandJob[q].to>> \in LegalMoves \cup {<<"absent", "created">>}

\* A handler's earlier transitions are in the log.
EntriesPrecede ==
    \A q \in CommandRequests, c \in Commands :
        LiveRequest(q) /\ commandJob[q].command = c =>
            /\ commandJob[q].to = "ready" => Went(c, "authorized")
            /\ commandJob[q].pc = "enqueue" => Went(c, "queued")

\* One handler creates a command, and it is done when the command is in a queue, its worker's.
Creates(q, c) == commandJob[q].command = c /\ commandJob[q].to \in {"created", "queued"}
OneCreator ==
    \A c \in Commands :
        /\ \A p, q \in CommandRequests : Creates(p, c) /\ Creates(q, c) => p = q
        /\ \A v \in CommandWorkers : c \in enqueued[v] =>
              /\ Went(c, "queued")
              /\ \E q \in CommandRequests : Creates(q, c) /\ commandJob[q].worker = v /\ commandJob[q].pc = "done"

\* The handler of a request at a session that still works, on command c; and halfway.
ServesCommand(q, w, c) ==
    LiveRequest(q) /\ w \notin failing /\ commandJob[q].worker = w /\ commandJob[q].command = c
MovesCommand(q, w, c) == ServesCommand(q, w, c) /\ commandJob[q].pc = "log"
HasSeen(q, w, c) == ServesCommand(q, w, c) /\ (commandJob[q].to # "created" \/ commandJob[q].pc = "log")

\* What a session has not committed is some state, and nothing in a failed one.
UncommittedIsSound ==
    \A c \in Commands :
        /\ uncommitted[c].by \notin failing
        /\ uncommitted[c].by # NoOne <=> uncommitted[c].state # "absent"

\* Unless a transition was cut in two, a handler between its statements holds the row, and a
\* row is held by the handler that wrote it last; the first of all is the creation.
HoldersMoveRows ==
    \A c \in Commands \ cutCommands, w \in CommandWorkers :
        /\ \A q \in CommandRequests : MovesCommand(q, w, c) => uncommitted[c].by = w
        /\ uncommitted[c].by = w =>
              \E p \in CommandRequests : MovesCommand(p, w, c) /\ commandJob[p].to = uncommitted[c].state
        /\ uncommitted[c].by = w /\ state[c] = "absent" =>
              \E p \in CommandRequests : MovesCommand(p, w, c) /\ commandJob[p].to = "created"

\* A handler that has read or written the row has a session that sees one still.
SeenCommandsExist ==
    \A c \in Commands, w \in CommandWorkers, q \in CommandRequests :
        HasSeen(q, w, c) => SeenState(w, c) # "absent"

\* A row says AUTHORIZED or READY because a request to authorize wrote it so.
DueIsAuthorized ==
    \A c \in Commands :
        /\ state[c] \in Deliverable \/ uncommitted[c].state \in Deliverable =>
              \E q \in CommandRequests : Authorizing(q, c)
        /\ state[c] \in Deliverable /\ c \notin cutCommands => Went(c, "authorized")

CommandRows == UncommittedIsSound /\ HoldersMoveRows /\ SeenCommandsExist /\ LogTellsTheState
CommandJobsInv == CommandJobsAreSound /\ EntriesPrecede /\ OneCreator
CommandsInv == CommandsTypeOK /\ CommandJobsInv /\ CommandRows /\ DueIsAuthorized /\ NoneHandedUnauthorized

LEMMA InitCommands == CommandsInit => CommandsInv
<1> SUFFICES ASSUME CommandsInit PROVE CommandsInv
  OBVIOUS
<1>1. /\ \A q \in CommandRequests : commandJob[q] = NoCommandJob /\ ~LiveRequest(q)
      /\ \A c \in Commands : uncommitted[c] = Saved /\ state[c] = "absent" /\ log[c] = <<>>
      /\ \A w \in CommandWorkers : enqueued[w] = {}
      /\ handed = {} /\ failing = {}
  BY DEF CommandsInit, NoCommandJob, LiveRequest
<1>2. CommandsTypeOK
  BY DEF CommandsInit, CommandsTypeOK, NoCommandJob, CommandJobType, UncommittedType, Saved, CommandState
<1>3. CommandJobsInv
  <2>1. CommandJobsAreSound /\ EntriesPrecede
    BY <1>1 DEF CommandJobsAreSound, EntriesPrecede, NoCommandJob
  <2>2. OneCreator
    <3>1. \A q \in CommandRequests : commandJob[q].command = NoOne
      BY <1>1 DEF NoCommandJob
    <3>2. \A q \in CommandRequests, c \in Commands : ~Creates(q, c)
      BY <3>1, CommandsAssumption DEF Creates
    <3> QED
      BY <1>1, <3>2 DEF OneCreator
  <2> QED
    BY <2>1, <2>2 DEF CommandJobsInv
<1>4. CommandRows
  BY <1>1, CommandsAssumption DEF CommandRows, UncommittedIsSound, HoldersMoveRows, SeenCommandsExist, LogTellsTheState,
                MovesCommand, HasSeen, ServesCommand, EndsWith, Saved
<1>5. DueIsAuthorized /\ NoneHandedUnauthorized
  BY <1>1 DEF DueIsAuthorized, NoneHandedUnauthorized, Deliverable, Saved
<1> QED
  BY <1>2, <1>3, <1>4, <1>5 DEF CommandsInv

\* What appending to a log does.
LEMMA LongerLog ==
    ASSUME NEW s \in Seq(CommandState), NEW x \in CommandState
    PROVE  /\ Append(s, x) \in Seq(CommandState)
           /\ Append(s, x) # <<>>
           /\ Append(s, x)[Len(Append(s, x))] = x
           /\ Append(s, x)[1] = IF s = <<>> THEN x ELSE s[1]
           /\ \E i \in DOMAIN Append(s, x) : Append(s, x)[i] = x
           /\ \A y : (\E i \in DOMAIN s : s[i] = y) =>
                     (\E i \in DOMAIN Append(s, x) : Append(s, x)[i] = y)
<1>1. Append(s, x) \in Seq(CommandState) /\ Len(Append(s, x)) = Len(s) + 1 /\ Len(s) \in Nat
  OBVIOUS
<1>2. DOMAIN Append(s, x) = 1 .. Len(s) + 1 /\ DOMAIN s = 1 .. Len(s)
  BY <1>1
<1>3. /\ \A i \in 1 .. Len(s) : Append(s, x)[i] = s[i]
      /\ Append(s, x)[Len(s) + 1] = x
  OBVIOUS
<1>4. Append(s, x) # <<>> /\ Append(s, x)[Len(Append(s, x))] = x
  BY <1>1, <1>3
<1>5. Append(s, x)[1] = IF s = <<>> THEN x ELSE s[1]
  <2>1. CASE s = <<>>
    BY <1>3, <2>1
  <2>2. CASE s # <<>>
    <3>1. 1 \in 1 .. Len(s)
      BY <1>1, <2>2
    <3> QED  BY <1>3, <2>2, <3>1
  <2> QED  BY <2>1, <2>2
<1>6. \E i \in DOMAIN Append(s, x) : Append(s, x)[i] = x
  <2>1. Len(s) + 1 \in DOMAIN Append(s, x)
    BY <1>1, <1>2
  <2> QED  BY <1>3, <2>1
<1>7. ASSUME NEW y, NEW i \in DOMAIN s, s[i] = y
      PROVE  \E j \in DOMAIN Append(s, x) : Append(s, x)[j] = y
  <2>1. i \in DOMAIN Append(s, x)
    BY <1>1, <1>2
  <2> QED  BY <1>2, <1>3, <1>7, <2>1
<1> QED  BY <1>1, <1>4, <1>5, <1>6, <1>7


\* A log that grows by one entry has what it had, and the entry.
LEMMA LoggedMore ==
    ASSUME CommandsTypeOK, NEW c \in Commands, NEW to \in CommandState, log' = [log EXCEPT ![c] = Logged(c, to)]
    PROVE  /\ log' \in [Commands -> Seq(CommandState)]
           /\ log'[c] = Append(log[c], to) /\ \A d \in Commands : d # c => log'[d] = log[d]
           /\ \A d \in Commands, y \in CommandState : Went(d, y) => Went(d, y)'
           /\ Went(c, to)'
<1>1. log[c] \in Seq(CommandState)
  BY DEF CommandsTypeOK
<1>2. log'[c] = Append(log[c], to) /\ \A d \in Commands : d # c => log'[d] = log[d]
  BY DEF CommandsTypeOK, Logged
<1>3. log' \in [Commands -> Seq(CommandState)]
  BY <1>1, LongerLog DEF CommandsTypeOK, Logged
<1>4. ASSUME NEW d \in Commands, NEW y \in CommandState, Went(d, y) PROVE Went(d, y)'
  <2>1. CASE d = c
    <3>1. \E i \in DOMAIN log[c] : log[c][i] = y
      BY <1>4, <2>1 DEF Went
    <3>2. \E i \in DOMAIN Append(log[c], to) : Append(log[c], to)[i] = y
      BY <1>1, <3>1, LongerLog
    <3> QED
      BY <1>2, <2>1, <3>2 DEF Went
  <2>2. CASE d # c
    BY <1>2, <1>4, <2>2 DEF Went
  <2> QED
    BY <2>1, <2>2
<1>5. Went(c, to)'
  BY <1>1, <1>2, LongerLog DEF Went
<1> QED
  BY <1>2, <1>3, <1>4, <1>5

\* The requests that may move, and how far one step takes them.
CommandStep(q) == WriteState(q) \/ LogState(q) \/ Check(q) \/ Enqueue(q) \/ Fail(q)
CommandArrival(q, c, w) == CreateCommand(q, c, w) \/ Authorize(q, c, w) \/ Cancel(q, c, w)
SessionStep(w) == SessionCommits(w) \/ SessionFails(w) \/ RestartWorker(w) \/ Poll(w)

\* What becomes of a handler: it keeps its command and its worker, and its plan.
Onward(q, c, w, to, pc) ==
    /\ commandJob'[q].command = c /\ commandJob'[q].worker = w
    /\ commandJob'[q].to = to \/ <<to, commandJob'[q].to>> \in {<<"created", "queued">>, <<"authorized", "ready">>}
    /\ commandJob'[q].pc = "refused" => to = "queued" /\ pc = "check"
    /\ commandJob'[q].pc # "idle"

LEMMA AfterJob ==
    ASSUME NEW j \in CommandJobType, j.to \in {"created", "queued", "authorized", "ready", "cancelled"}
    PROVE  /\ After(j) \in CommandJobType /\ After(j).command = j.command /\ After(j).worker = j.worker
           /\ j.to = "created" => After(j).pc = "check" /\ After(j).to = "queued"
           /\ j.to = "queued" => After(j).pc = "enqueue" /\ After(j).to = "queued"
           /\ j.to = "authorized" => After(j).pc = "write" /\ After(j).to = "ready" /\ After(j).seen = "authorized"
           /\ j.to \in {"ready", "cancelled"} => After(j).pc = "done" /\ After(j).to = j.to
<1>1. CASE j.to = "created"
  BY <1>1 DEF After, CommandJobType, CommandState
<1>2. CASE j.to = "queued"
  BY <1>2 DEF After, CommandJobType
<1>3. CASE j.to = "authorized"
  BY <1>3 DEF After, CommandJobType, CommandState
<1>4. CASE j.to \in {"ready", "cancelled"}
  BY <1>4 DEF After, CommandJobType
<1> QED
  BY <1>1, <1>2, <1>3, <1>4

LEMMA CommandMoves ==
    ASSUME CommandsInv, NEW q \in CommandRequests, CommandStep(q)
    PROVE  /\ LiveRequest(q) /\ commandJob[q] \in CommandJobType
           /\ commandJob[q].command \in Commands /\ commandJob[q].worker \in CommandWorkers
           /\ commandJob[q].pc \in CommandPlaces(commandJob[q].to)
           /\ commandJob' \in [CommandRequests -> CommandJobType]
           /\ \A r \in CommandRequests : r # q => commandJob'[r] = commandJob[r]
           /\ Onward(q, commandJob[q].command, commandJob[q].worker, commandJob[q].to, commandJob[q].pc)
<1>1. LiveRequest(q)
  BY DEF CommandStep, WriteState, LogState, Check, Enqueue, MayEnqueue, Fail, Reaches, LiveRequest
<1>2. /\ commandJob[q].command \in Commands /\ commandJob[q].worker \in CommandWorkers
      /\ commandJob[q].pc \in CommandPlaces(commandJob[q].to)
  BY <1>1 DEF CommandsInv, CommandJobsInv, CommandJobsAreSound
<1>3. PICK j \in CommandJobType, to \in {"created", "queued", "authorized", "ready", "cancelled"} :
          j = commandJob[q] /\ to = j.to
  BY <1>2 DEF CommandsInv, CommandsTypeOK, CommandPlaces
<1>4. PICK k \in CommandJobType :
          /\ commandJob' = [commandJob EXCEPT ![q] = k] /\ k.command = j.command /\ k.worker = j.worker
          /\ k.to = to \/ <<to, k.to>> \in {<<"created", "queued">>, <<"authorized", "ready">>}
          /\ k.pc = "refused" => to = "queued" /\ j.pc = "check"
          /\ k.pc # "idle"
  <2>1. CASE WriteState(q) \/ Enqueue(q) \/ Fail(q)
    <3>1. PICK pc \in {"log", "done", "failed"} : commandJob' = [commandJob EXCEPT ![q].pc = pc]
      BY <2>1 DEF WriteState, Enqueue, Fail
    <3>2. PICK k : k = [j EXCEPT !.pc = pc]
      OBVIOUS
    <3>3. k \in CommandJobType /\ k.command = j.command /\ k.worker = j.worker /\ k.to = j.to /\ k.pc = pc
      BY <3>2 DEF CommandJobType
    <3>4. commandJob' = [commandJob EXCEPT ![q] = k]
      BY <1>3, <3>1, <3>2
    <3> QED
      BY <1>3, <3>3, <3>4
  <2>2. CASE LogState(q)
    <3>1. commandJob' = [commandJob EXCEPT ![q] = After(j)]
      BY <1>3, <2>2 DEF LogState
    <3> QED
      BY <1>3, <3>1, AfterJob
  <2>3. CASE Check(q)
    <3>1. PICK pc \in {"write", "refused"}, seen \in CommandState \cup {"absent"} :
              commandJob' = [commandJob EXCEPT ![q] = [pc |-> pc, command |-> j.command, worker |-> j.worker,
                                                       seen |-> seen, to |-> "queued"]]
      BY <1>2, <1>3, <2>3 DEF Check, Read, SeenState, CommandsInv, CommandsTypeOK, UncommittedType
    <3>2. to = "queued" /\ j.pc = "check"
      BY <1>2, <1>3, <2>3 DEF Check, Reaches, CommandPlaces
    <3>3. PICK k : k = [pc |-> pc, command |-> j.command, worker |-> j.worker, seen |-> seen, to |-> "queued"]
      OBVIOUS
    <3>4. k \in CommandJobType
      BY <1>2, <1>3, <3>3 DEF CommandJobType, CommandState
    <3> QED
      BY <3>1, <3>2, <3>3, <3>4
  <2> QED
    BY <2>1, <2>2, <2>3 DEF CommandStep
<1>5. commandJob \in [CommandRequests -> CommandJobType]
  BY DEF CommandsInv, CommandsTypeOK
<1>6. commandJob'[q] = k /\ \A r \in CommandRequests : r # q => commandJob'[r] = commandJob[r]
  BY <1>4, <1>5
<1>7. Onward(q, j.command, j.worker, j.to, j.pc)
  BY <1>3, <1>4, <1>6 DEF Onward
<1> QED
  BY <1>1, <1>2, <1>3, <1>4, <1>5, <1>6, <1>7

\* A request that arrives knows its command, and creates it or has read it.
Arrived(q, c, w, p, to) ==
    /\ commandJob[q].pc = "idle" /\ commandJob[q].command = NoOne
    /\ commandJob'[q].command = c /\ commandJob'[q].worker = w
    /\ commandJob'[q].pc = p /\ commandJob'[q].to = to
    /\ p = "write" => <<commandJob'[q].seen, to>> \in LegalMoves \cup {<<"absent", "created">>}
    /\ \/ to = "created" /\ p = "write" /\ NewCommand(c) /\ disturbedCommands' = disturbedCommands
       \/ /\ to \in {"authorized", "cancelled"}
          /\ p = "write" => commandJob'[q].seen = SeenState(w, c) /\ SeenState(w, c) # "absent"
          /\ disturbedCommands' = IF CommandCrossing(c) THEN disturbedCommands \cup {c} ELSE disturbedCommands

LEMMA CommandArrives ==
    ASSUME CommandsInv, NEW q \in CommandRequests, NEW c \in Commands, NEW w \in CommandWorkers,
           CommandArrival(q, c, w)
    PROVE  /\ UNCHANGED <<commandTable, enqueued, handed, cancelled>>
           /\ commandJob' \in [CommandRequests -> CommandJobType]
           /\ \A r \in CommandRequests : r # q => commandJob'[r] = commandJob[r]
           /\ \E p \in {"write", "refused"}, to \in {"created", "authorized", "cancelled"} :
                 Arrived(q, c, w, p, to)
<1>1. commandJob \in [CommandRequests -> CommandJobType] /\ commandJob[q].pc = "idle" /\ commandJob[q].command = NoOne
  BY DEF CommandArrival, CreateCommand, Authorize, Cancel, Ask, CommandsInv, CommandsTypeOK, CommandJobsInv,
         CommandJobsAreSound
<1>2. CASE CreateCommand(q, c, w)
  <2>1. PICK j : /\ j = [pc |-> "write", command |-> c, worker |-> w, seen |-> "absent", to |-> "created"]
                 /\ commandJob' = [commandJob EXCEPT ![q] = j]
    BY <1>2 DEF CreateCommand
  <2>2. j \in CommandJobType
    BY <2>1 DEF CommandJobType, CommandState
  <2>3. commandJob'[q] = j
    BY <1>1, <2>1
  <2>4. Arrived(q, c, w, "write", "created")
    BY <1>1, <1>2, <2>1, <2>3 DEF Arrived, CreateCommand
  <2> QED
    BY <1>1, <1>2, <2>1, <2>2, <2>4 DEF CreateCommand
<1>3. CASE Authorize(q, c, w) \/ Cancel(q, c, w)
  <2>1. PICK to \in {"authorized", "cancelled"} : Ask(q, c, w, to)
    BY <1>3 DEF Authorize, Cancel
  <2>2. PICK s \in CommandState \cup {"absent"} : s = SeenState(w, c)
    BY DEF SeenState, CommandsInv, CommandsTypeOK, UncommittedType
  <2>3. PICK p \in {"write", "refused"} : p = IF w \notin failing /\ MayMove(s, to) THEN "write" ELSE "refused"
    OBVIOUS
  <2>4. PICK j : /\ j = [pc |-> p, command |-> c, worker |-> w, seen |-> s, to |-> to]
                 /\ commandJob' = [commandJob EXCEPT ![q] = j]
    BY <2>1, <2>2, <2>3 DEF Ask, Read
  <2>5. j \in CommandJobType
    BY <2>4 DEF CommandJobType, CommandState
  <2>6. commandJob'[q] = j
    BY <1>1, <2>4
  <2>7. p = "write" => <<s, to>> \in LegalMoves /\ s # "absent"
    BY <2>3 DEF MayMove, LegalMoves
  <2>8. Arrived(q, c, w, p, to)
    BY <1>1, <2>1, <2>2, <2>4, <2>6, <2>7 DEF Arrived, Ask
  <2> QED
    BY <1>1, <2>1, <2>4, <2>5, <2>8 DEF Ask
<1> QED
  BY <1>2, <1>3 DEF CommandArrival
\* What a session may do to the tables keeps their shape.
LEMMA SessionTypes ==
    ASSUME CommandsInv, NEW w \in CommandWorkers
    PROVE  /\ \A q : SaveAll(w, q) => /\ state' \in [Commands -> CommandState \cup {"absent"}]
                                      /\ uncommitted' \in [Commands -> UncommittedType]
                                      /\ cutCommands' \subseteq Commands
           /\ Close(w) => uncommitted' \in [Commands -> UncommittedType]
           /\ OpenOf(w) \subseteq Commands
<1>1. OpenOf(w) \subseteq Commands /\ Saved \in UncommittedType
  BY DEF OpenOf, Saved, UncommittedType
<1>2. Close(w) => uncommitted' \in [Commands -> UncommittedType]
  BY <1>1 DEF Close, CommandsInv, CommandsTypeOK
<1>3. \A q : CutShort(w, q) \subseteq Commands
  BY DEF CutShort, CommandsInv, CommandJobsInv, CommandJobsAreSound, LiveRequest
<1>4. \A c \in Commands : SeenState(w, c) \in CommandState \cup {"absent"}
  BY DEF SeenState, CommandsInv, CommandsTypeOK, UncommittedType
<1> QED
  BY <1>1, <1>2, <1>3, <1>4 DEF SaveAll, CommandsInv, CommandsTypeOK

LEMMA StepTypesCommands ==
    ASSUME CommandsInv, NEW q \in CommandRequests, CommandStep(q)
    PROVE  CommandsTypeOK'
<1>1. PICK c \in Commands, w \in CommandWorkers, to \in CommandState :
          c = commandJob[q].command /\ w = commandJob[q].worker /\ to = commandJob[q].to
  BY CommandMoves DEF CommandJobType
<1>2. commandJob' \in [CommandRequests -> CommandJobType]
  BY CommandMoves
<1>3. CommandsTypeOK
  BY DEF CommandsInv
<1>4. CASE WriteState(q)
  <2>1. [by |-> w, state |-> to] \in UncommittedType
    BY DEF UncommittedType
  <2>2. uncommitted' = [uncommitted EXCEPT ![c] = [by |-> w, state |-> to]]
    BY <1>1, <1>4 DEF WriteState
  <2>3. uncommitted' \in [Commands -> UncommittedType]
    BY <1>3, <2>1, <2>2 DEF CommandsTypeOK
  <2> QED
    BY <1>2, <1>3, <1>4, <2>3 DEF WriteState, CommandsTypeOK
<1>5. CASE LogState(q)
  <2>1. log' \in [Commands -> Seq(CommandState)]
    BY <1>1, <1>3, <1>5, LoggedMore DEF LogState
  <2>2. SaveAll(w, q) /\ cancelled' \subseteq Commands
    BY <1>1, <1>3, <1>5 DEF LogState, CommandsTypeOK
  <2> QED
    BY <1>2, <1>3, <1>5, <2>1, <2>2, SessionTypes DEF LogState, CommandsTypeOK
<1>6. CASE Check(q)
  BY <1>2, <1>3, <1>6 DEF Check, CommandsTypeOK, commandTable, rowOfCommand
<1>7. CASE Enqueue(q)
  <2>1. enqueued' \in [CommandWorkers -> SUBSET Commands]
    BY <1>1, <1>3, <1>7 DEF Enqueue, CommandsTypeOK
  <2> QED
    BY <1>2, <1>3, <1>7, <2>1 DEF Enqueue, CommandsTypeOK, commandTable, rowOfCommand
<1>8. CASE Fail(q)
  BY <1>1, <1>2, <1>3, <1>8 DEF Fail, CommandsTypeOK
<1> QED
  BY <1>4, <1>5, <1>6, <1>7, <1>8 DEF CommandStep

\* A worker's death ends its handlers where they are.
LEMMA DeathEnds ==
    ASSUME CommandsInv, NEW w \in CommandWorkers, RestartWorker(w)
    PROVE  /\ commandJob' \in [CommandRequests -> CommandJobType]
           /\ \A q \in CommandRequests :
                 /\ commandJob'[q].command = commandJob[q].command /\ commandJob'[q].worker = commandJob[q].worker
                 /\ commandJob'[q].to = commandJob[q].to
                 /\ IF LiveRequest(q) /\ commandJob[q].worker = w THEN commandJob'[q].pc = "failed"
                                                                 ELSE commandJob'[q] = commandJob[q]
<1>1. commandJob \in [CommandRequests -> CommandJobType]
  BY DEF CommandsInv, CommandsTypeOK
<1>2. PICK cut : /\ cut = {q \in CommandRequests : LiveRequest(q) /\ commandJob[q].worker = w}
                 /\ commandJob' = [q \in CommandRequests |->
                        IF q \in cut THEN [commandJob[q] EXCEPT !.pc = "failed"] ELSE commandJob[q]]
  BY DEF RestartWorker
<1>3. ASSUME NEW q \in CommandRequests
      PROVE  LET k == [commandJob[q] EXCEPT !.pc = "failed"]
             IN  /\ k \in CommandJobType /\ k.command = commandJob[q].command /\ k.worker = commandJob[q].worker
                 /\ k.to = commandJob[q].to /\ k.pc = "failed"
  <2>1. commandJob[q] \in CommandJobType
    BY <1>1
  <2> QED
    BY <2>1 DEF CommandJobType
<1> QED
  BY <1>1, <1>2, <1>3

LEMMA SessionStepTypes ==
    ASSUME CommandsInv, NEW w \in CommandWorkers, SessionStep(w)
    PROVE  CommandsTypeOK'
<1>1. CommandsTypeOK
  BY DEF CommandsInv
<1>2. CASE SessionCommits(w)
  BY <1>1, <1>2, SessionTypes DEF SessionCommits, CommandsTypeOK
<1>3. CASE SessionFails(w)
  BY <1>1, <1>3, SessionTypes DEF SessionFails, LoseAll, CommandsTypeOK
<1>4. CASE RestartWorker(w)
  <2>1. commandJob' \in [CommandRequests -> CommandJobType]
    BY <1>4, DeathEnds
  <2>2. disturbedCommands' \subseteq Commands
    BY <1>1, <1>4 DEF RestartWorker, CommandsTypeOK, CommandsInv, CommandJobsInv, CommandJobsAreSound
  <2>3. enqueued' \in [CommandWorkers -> SUBSET Commands]
    BY <1>1, <1>4 DEF RestartWorker, CommandsTypeOK
  <2> QED
    BY <1>1, <1>4, <2>1, <2>2, <2>3, SessionTypes DEF RestartWorker, LoseAll, CommandsTypeOK
<1>5. CASE Poll(w)
  BY <1>1, <1>5 DEF Poll, CommandsTypeOK, commandTable, rowOfCommand
<1> QED
  BY <1>2, <1>3, <1>4, <1>5 DEF SessionStep

\* Nothing is taken from a log.
LEMMA LogsGrow ==
    ASSUME CommandsInv,
           \/ \E q \in CommandRequests : CommandStep(q)
           \/ \E w \in CommandWorkers : SessionStep(w)
           \/ UNCHANGED log,
           NEW c \in Commands, NEW y \in CommandState, Went(c, y)
    PROVE  Went(c, y)'
<1>1. CASE UNCHANGED log
  BY <1>1 DEF Went
<1>2. ASSUME NEW q \in CommandRequests, LogState(q) PROVE Went(c, y)'
  <2>1. CommandStep(q) /\ CommandsTypeOK
    BY <1>2 DEF CommandStep, CommandsInv
  <2>2. PICK d \in Commands, to \in CommandState : d = commandJob[q].command /\ to = commandJob[q].to
    BY <2>1, CommandMoves DEF CommandJobType
  <2>3. log' = [log EXCEPT ![d] = Logged(d, to)]
    BY <1>2, <2>2 DEF LogState
  <2> QED
    BY <2>1, <2>3, LoggedMore
<1>3. ASSUME NEW q \in CommandRequests, CommandStep(q), ~LogState(q) PROVE UNCHANGED log
  BY <1>3 DEF CommandStep, WriteState, Check, Enqueue, Fail, commandTable
<1>4. ASSUME NEW w \in CommandWorkers, SessionStep(w) PROVE UNCHANGED log
  BY <1>4 DEF SessionStep, SessionCommits, SessionFails, RestartWorker, LoseAll, Poll, commandTable
<1> QED
  BY <1>1, <1>2, <1>3, <1>4

\* What is true of the handlers stays true of them.
LEMMA StepJobsCommands ==
    ASSUME CommandsInv, NEW q \in CommandRequests, CommandStep(q)
    PROVE  CommandJobsInv'
<1>0. PICK c \in Commands, w \in CommandWorkers, j \in CommandJobType :
          c = commandJob[q].command /\ w = commandJob[q].worker /\ j = commandJob[q]
  BY CommandMoves
<1>1. /\ LiveRequest(q) /\ j.pc \in CommandPlaces(j.to) /\ j.command = c /\ j.worker = w
      /\ \A r \in CommandRequests : r # q => commandJob'[r] = commandJob[r]
      /\ Onward(q, c, w, j.to, j.pc)
      /\ j.to \in {"created", "queued", "authorized", "ready", "cancelled"}
      /\ commandJob \in [CommandRequests -> CommandJobType]
  BY <1>0, CommandMoves DEF CommandPlaces, CommandsInv, CommandsTypeOK
<1>2. \A d \in Commands, y \in CommandState : Went(d, y) => Went(d, y)'
  BY LogsGrow
\* Where it goes.
<1>3. /\ WriteState(q) => j.pc = "write" /\ commandJob'[q].pc = "log" /\ commandJob'[q].to = j.to
      /\ LogState(q) => j.pc = "log" /\ commandJob'[q] = After(j)
      /\ Check(q) => j.to = "queued" /\ commandJob'[q].to = "queued" /\ commandJob'[q].pc \in {"write", "refused"}
      /\ Check(q) /\ commandJob'[q].pc = "write" => <<commandJob'[q].seen, "queued">> \in LegalMoves
      /\ Enqueue(q) => j.pc = "enqueue" /\ commandJob'[q].pc = "done"
      /\ Fail(q) => commandJob'[q].pc = "failed"
  <2>1. WriteState(q) => j.pc = "write" /\ commandJob'[q].pc = "log" /\ commandJob'[q].to = j.to
    BY <1>0, <1>1 DEF WriteState, Reaches, CommandJobType
  <2>2. LogState(q) => j.pc = "log" /\ commandJob'[q] = After(j)
    BY <1>0, <1>1 DEF LogState, Reaches
  <2>3. Check(q) => /\ j.to = "queued" /\ commandJob'[q].to = "queued" /\ commandJob'[q].pc \in {"write", "refused"}
                    /\ commandJob'[q].pc = "write" => <<commandJob'[q].seen, "queued">> \in LegalMoves
    BY <1>0, <1>1 DEF Check, Reaches, CommandPlaces, Read, MayMove
  <2>4. Enqueue(q) => j.pc = "enqueue" /\ commandJob'[q].pc = "done"
    BY <1>0, <1>1 DEF Enqueue, MayEnqueue, CommandJobType
  <2>5. Fail(q) => commandJob'[q].pc = "failed"
    BY <1>0, <1>1 DEF Fail, CommandJobType
  <2> QED
    BY <2>1, <2>2, <2>3, <2>4, <2>5
<1>4. LiveRequest(q)' => /\ commandJob'[q].pc \in CommandPlaces(commandJob'[q].to)
                         /\ commandJob'[q].pc = "write" =>
                               <<commandJob'[q].seen, commandJob'[q].to>> \in LegalMoves \cup {<<"absent", "created">>}
  <2>1. CASE WriteState(q)
    BY <1>1, <1>3, <2>1 DEF CommandPlaces
  <2>2. CASE LogState(q)
    BY <1>0, <1>1, <1>3, <2>2, AfterJob DEF CommandPlaces, LegalMoves, LiveRequest
  <2>3. CASE Check(q)
    <3>1. commandJob'[q].to = "queued" /\ commandJob'[q].pc \in {"write", "refused"}
      BY <1>3, <2>3
    <3>2. commandJob'[q].pc = "write" => <<commandJob'[q].seen, commandJob'[q].to>> \in LegalMoves
      BY <1>3, <2>3, <3>1
    <3>3. LiveRequest(q)' => commandJob'[q].pc = "write"
      BY <3>1 DEF LiveRequest
    <3> QED
      BY <3>1, <3>2, <3>3 DEF CommandPlaces
  <2>4. CASE Enqueue(q) \/ Fail(q)
    BY <1>3, <2>4 DEF LiveRequest
  <2> QED
    BY <2>1, <2>2, <2>3, <2>4 DEF CommandStep
<1>5. CommandJobsAreSound'
  <2> SUFFICES ASSUME NEW r \in CommandRequests
               PROVE  /\ commandJob'[r].pc = "idle" => commandJob'[r].command = NoOne
                      /\ LiveRequest(r)' =>
                           /\ commandJob'[r].command \in Commands /\ commandJob'[r].worker \in CommandWorkers
                           /\ commandJob'[r].pc \in CommandPlaces(commandJob'[r].to)
                           /\ commandJob'[r].pc = "write" =>
                                 <<commandJob'[r].seen, commandJob'[r].to>> \in LegalMoves \cup {<<"absent", "created">>}
    BY DEF CommandJobsAreSound
  <2>1. CASE r = q
    BY <1>1, <1>4, <2>1 DEF Onward
  <2>2. CASE r # q
    BY <1>1, <2>2 DEF LiveRequest, CommandsInv, CommandJobsInv, CommandJobsAreSound
  <2> QED
    BY <2>1, <2>2
<1>6. /\ LiveRequest(q)' /\ commandJob'[q].to = "ready" => Went(c, "authorized")'
      /\ LiveRequest(q)' /\ commandJob'[q].pc = "enqueue" => Went(c, "queued")'
  <2>1. "authorized" \in CommandState /\ "queued" \in CommandState /\ "ready" \in CommandState
    BY DEF CommandState
  <2>2. j.to = "ready" => Went(c, "authorized")'
    BY <1>0, <1>1, <1>2, <2>1 DEF CommandsInv, CommandJobsInv, EntriesPrecede
  <2>3. CASE LogState(q)
    <3>1. PICK to \in CommandState : to = j.to
      BY DEF CommandJobType
    <3>2. log' = [log EXCEPT ![c] = Logged(c, to)]
      BY <1>0, <2>3, <3>1 DEF LogState
    <3>3. Went(c, to)'
      BY <3>2, LoggedMore DEF CommandsInv
    <3>4. CASE to = "authorized"
      <4>1. commandJob'[q].pc # "enqueue"
        BY <1>1, <1>3, <2>3, <3>1, <3>4, AfterJob
      <4> QED
        BY <3>3, <3>4, <4>1
    <3>5. CASE to = "queued"
      <4>1. commandJob'[q].to = "queued"
        BY <1>1, <1>3, <2>3, <3>1, <3>5, AfterJob
      <4> QED
        BY <3>3, <3>5, <4>1
    <3>6. CASE to \in {"created", "ready", "cancelled"}
      <4>1. commandJob'[q].pc # "enqueue" /\ (commandJob'[q].to = "ready" => to = "ready")
        BY <1>1, <1>3, <2>3, <3>1, <3>6, AfterJob
      <4> QED
        BY <2>2, <3>1, <4>1
    <3> QED
      BY <1>1, <3>1, <3>4, <3>5, <3>6
  <2>4. CASE ~LogState(q)
    <3>1. LiveRequest(q)' => commandJob'[q].pc # "enqueue" /\ commandJob'[q].to = j.to
      BY <1>1, <1>3, <2>4 DEF CommandStep, LiveRequest
    <3> QED
      BY <2>2, <3>1
  <2> QED
    BY <2>3, <2>4
<1>7. EntriesPrecede'
  <2> SUFFICES ASSUME NEW r \in CommandRequests, NEW d \in Commands, LiveRequest(r)', commandJob'[r].command = d
               PROVE  /\ commandJob'[r].to = "ready" => Went(d, "authorized")'
                      /\ commandJob'[r].pc = "enqueue" => Went(d, "queued")'
    BY DEF EntriesPrecede
  <2>1. CASE r = q
    <3>1. d = c
      BY <1>1, <2>1 DEF Onward
    <3> QED
      BY <1>6, <2>1, <3>1
  <2>2. CASE r # q
    <3>1. "authorized" \in CommandState /\ "queued" \in CommandState
      BY DEF CommandState
    <3>2. LiveRequest(r) /\ commandJob'[r] = commandJob[r] /\ commandJob[r].command = d
      BY <1>1, <2>2 DEF LiveRequest
    <3> QED
      BY <1>2, <3>1, <3>2 DEF CommandsInv, CommandJobsInv, EntriesPrecede
  <2> QED
    BY <2>1, <2>2
<1>8. OneCreator'
  <2>1. \A r \in CommandRequests, d \in Commands : Creates(r, d)' <=> Creates(r, d)
    <3> SUFFICES ASSUME NEW r \in CommandRequests, NEW d \in Commands PROVE Creates(r, d)' <=> Creates(r, d)
      OBVIOUS
    <3>1. CASE r = q
      BY <1>0, <1>1, <3>1 DEF Creates, Onward
    <3>2. CASE r # q
      BY <1>1, <3>2 DEF Creates
    <3> QED
      BY <3>1, <3>2
  <2> SUFFICES ASSUME NEW d \in Commands, NEW v \in CommandWorkers, d \in enqueued'[v]
               PROVE  /\ Went(d, "queued")'
                      /\ \E r \in CommandRequests : Creates(r, d)' /\ commandJob'[r].worker = v /\ commandJob'[r].pc = "done"
    <3>1. \A d \in Commands : \A p, r \in CommandRequests : Creates(p, d)' /\ Creates(r, d)' => p = r
      BY <2>1 DEF CommandsInv, CommandJobsInv, OneCreator
    <3> QED
      BY <3>1 DEF OneCreator
  <2>2. "queued" \in CommandState
    BY DEF CommandState
  <2>3. CASE d \in enqueued[v]
    <3>1. PICK r \in CommandRequests : Creates(r, d) /\ commandJob[r].worker = v /\ commandJob[r].pc = "done"
      BY <2>3 DEF CommandsInv, CommandJobsInv, OneCreator
    <3>2. r # q
      BY <1>1, <3>1 DEF LiveRequest
    <3>3. Went(d, "queued")'
      BY <1>2, <2>2, <2>3 DEF CommandsInv, CommandJobsInv, OneCreator
    <3> QED
      BY <1>1, <2>1, <3>1, <3>2, <3>3
  <2>4. CASE d \notin enqueued[v]
    <3>1. Enqueue(q)
      BY <2>4 DEF CommandStep, WriteState, LogState, Check, Fail
    <3>2. d = c /\ v = w
      BY <1>0, <2>4, <3>1 DEF Enqueue, CommandsInv, CommandsTypeOK
    <3>3. j.pc = "enqueue" /\ commandJob'[q].pc = "done"
      BY <1>3, <3>1
    <3>4. j.to = "queued"
      BY <1>1, <3>3 DEF CommandPlaces
    <3>5. Creates(q, c)' /\ commandJob'[q].worker = w
      BY <1>0, <1>1, <2>1, <3>4 DEF Creates, Onward
    <3>6. Went(c, "queued")'
      BY <1>0, <1>1, <1>2, <2>2, <3>3 DEF CommandsInv, CommandJobsInv, EntriesPrecede
    <3> QED
      BY <3>2, <3>3, <3>5, <3>6
  <2> QED
    BY <2>3, <2>4
<1> QED
  BY <1>5, <1>7, <1>8 DEF CommandJobsInv

\* A step that leaves the tables alone, and every handler halfway or its command cut.
QuietCommands ==
    /\ UNCHANGED <<state, uncommitted, failing, log>> /\ cutCommands \subseteq cutCommands'
    /\ \A c \in Commands \ cutCommands', w \in CommandWorkers, r \in CommandRequests :
          /\ MovesCommand(r, w, c)' => MovesCommand(r, w, c)
          /\ MovesCommand(r, w, c) => MovesCommand(r, w, c)' /\ commandJob'[r].to = commandJob[r].to
    /\ \A c \in Commands, w \in CommandWorkers, r \in CommandRequests :
          HasSeen(r, w, c)' => SeenState(w, c) # "absent"

LEMMA QuietRows == ASSUME CommandsInv, QuietCommands PROVE CommandRows'
<1>1. UncommittedIsSound'
  BY DEF QuietCommands, CommandsInv, CommandRows, UncommittedIsSound
<1>2. HoldersMoveRows'
  <2> SUFFICES ASSUME NEW c \in Commands \ cutCommands', NEW w \in CommandWorkers
               PROVE  /\ \A q \in CommandRequests : MovesCommand(q, w, c)' => uncommitted'[c].by = w
                      /\ uncommitted'[c].by = w =>
                            \E p \in CommandRequests : MovesCommand(p, w, c)' /\ commandJob'[p].to = uncommitted'[c].state
                      /\ uncommitted'[c].by = w /\ state'[c] = "absent" =>
                            \E p \in CommandRequests : MovesCommand(p, w, c)' /\ commandJob'[p].to = "created"
    BY DEF HoldersMoveRows
  <2>1. c \in Commands \ cutCommands /\ state' = state /\ uncommitted' = uncommitted
    BY DEF QuietCommands
  <2>2. \A r \in CommandRequests :
          /\ MovesCommand(r, w, c)' => MovesCommand(r, w, c)
          /\ MovesCommand(r, w, c) => MovesCommand(r, w, c)' /\ commandJob'[r].to = commandJob[r].to
    BY DEF QuietCommands
  <2>3. /\ \A q \in CommandRequests : MovesCommand(q, w, c) => uncommitted[c].by = w
        /\ uncommitted[c].by = w =>
              \E p \in CommandRequests : MovesCommand(p, w, c) /\ commandJob[p].to = uncommitted[c].state
        /\ uncommitted[c].by = w /\ state[c] = "absent" =>
              \E p \in CommandRequests : MovesCommand(p, w, c) /\ commandJob[p].to = "created"
    BY <2>1 DEF CommandsInv, CommandRows, HoldersMoveRows
  <2> QED
    BY <2>1, <2>2, <2>3
<1>3. SeenCommandsExist'
  <2>1. \A w, c : SeenState(w, c)' = SeenState(w, c)
    BY DEF QuietCommands, SeenState
  <2> QED
    BY <2>1 DEF QuietCommands, SeenCommandsExist
<1>4. LogTellsTheState'
  BY DEF QuietCommands, CommandsInv, CommandRows, LogTellsTheState, EndsWith
<1> QED
  BY <1>1, <1>2, <1>3, <1>4 DEF CommandRows

\* A handler that did not move serves what it served.
LEMMA SameHandler ==
    ASSUME NEW r, NEW w, NEW c, commandJob'[r] = commandJob[r], UNCHANGED failing
    PROVE  /\ ServesCommand(r, w, c)' <=> ServesCommand(r, w, c)
           /\ MovesCommand(r, w, c)' <=> MovesCommand(r, w, c)
           /\ HasSeen(r, w, c)' <=> HasSeen(r, w, c)
BY DEF MovesCommand, HasSeen, ServesCommand, LiveRequest

\* The UPDATE: the handler holds the row then.
LEMMA WriteRows == ASSUME CommandsInv, NEW q \in CommandRequests, WriteState(q) PROVE CommandRows'
<1>0. PICK d \in Commands, v \in CommandWorkers, to \in {"created", "queued", "authorized", "ready", "cancelled"} :
          d = commandJob[q].command /\ v = commandJob[q].worker /\ to = commandJob[q].to
  BY CommandMoves DEF CommandStep, CommandPlaces
<1>1. /\ v \notin failing /\ uncommitted[d].by \in {NoOne, v} /\ commandJob[q].pc = "write" /\ v # NoOne
      /\ uncommitted'[d] = [by |-> v, state |-> to]
      /\ \A c \in Commands : c # d => uncommitted'[c] = uncommitted[c]
      /\ UNCHANGED <<state, cutCommands, log, failing>>
  BY <1>0, CommandsAssumption DEF WriteState, Reaches, CommandsInv, CommandsTypeOK
<1>2. /\ commandJob'[q].pc = "log" /\ commandJob'[q].command = d /\ commandJob'[q].worker = v
      /\ commandJob'[q].to = to
      /\ \A r \in CommandRequests : r # q => commandJob'[r] = commandJob[r]
  BY <1>0 DEF WriteState, CommandsInv, CommandsTypeOK, CommandJobType
<1>3. MovesCommand(q, v, d)' /\ (to # "created" => HasSeen(q, v, d))
  BY <1>0, <1>1, <1>2 DEF MovesCommand, HasSeen, ServesCommand, LiveRequest
<1>4. ASSUME NEW w, NEW c, HasSeen(q, w, c)' PROVE w = v /\ c = d
  BY <1>2, <1>4 DEF HasSeen, ServesCommand
<1>5. ASSUME NEW w, NEW c, MovesCommand(q, w, c)' PROVE w = v /\ c = d
  BY <1>2, <1>5 DEF MovesCommand, ServesCommand
<1>6. ASSUME NEW r \in CommandRequests, NEW w, NEW c, MovesCommand(r, w, c)
      PROVE  MovesCommand(r, w, c)' /\ commandJob'[r] = commandJob[r]
  <2>1. r # q
    BY <1>1, <1>6 DEF MovesCommand
  <2> QED
    BY <1>1, <1>2, <1>6, <2>1, SameHandler
<1>7. UncommittedIsSound'
  BY <1>1 DEF CommandsInv, CommandRows, UncommittedIsSound
<1>8. HoldersMoveRows'
  <2> SUFFICES ASSUME NEW c \in Commands \ cutCommands, NEW w \in CommandWorkers
               PROVE  /\ \A r \in CommandRequests : MovesCommand(r, w, c)' => uncommitted'[c].by = w
                      /\ uncommitted'[c].by = w =>
                            \E p \in CommandRequests : MovesCommand(p, w, c)' /\ commandJob'[p].to = uncommitted'[c].state
                      /\ uncommitted'[c].by = w /\ state'[c] = "absent" =>
                            \E p \in CommandRequests : MovesCommand(p, w, c)' /\ commandJob'[p].to = "created"
    BY <1>1 DEF HoldersMoveRows
  <2>1. /\ \A r \in CommandRequests : MovesCommand(r, w, c) => uncommitted[c].by = w
        /\ uncommitted[c].by = w =>
              \E p \in CommandRequests : MovesCommand(p, w, c) /\ commandJob[p].to = uncommitted[c].state
        /\ uncommitted[c].by = w /\ state[c] = "absent" =>
              \E p \in CommandRequests : MovesCommand(p, w, c) /\ commandJob[p].to = "created"
    BY DEF CommandsInv, CommandRows, HoldersMoveRows
  <2>2. ASSUME NEW r \in CommandRequests, MovesCommand(r, w, c)', r # q PROVE uncommitted[c].by = w
    BY <1>1, <1>2, <2>1, <2>2, SameHandler
  <2>3. ASSUME NEW p \in CommandRequests, MovesCommand(p, w, c)
        PROVE  MovesCommand(p, w, c)' /\ commandJob'[p] = commandJob[p]
    BY <1>6, <2>3
  <2>4. CASE c # d
    <3>1. uncommitted'[c] = uncommitted[c] /\ state' = state
      BY <1>1, <2>4
    <3>2. ASSUME NEW r \in CommandRequests, MovesCommand(r, w, c)' PROVE uncommitted'[c].by = w
      BY <1>5, <2>2, <2>4, <3>1, <3>2
    <3> QED
      BY <2>1, <2>3, <3>1, <3>2
  <2>5. CASE c = d /\ w # v
    <3>1. uncommitted[c].by # w /\ uncommitted'[c].by # w
      BY <1>1, <2>5, CommandsAssumption
    <3>2. \A r \in CommandRequests : ~MovesCommand(r, w, c)'
      BY <1>5, <2>2, <2>5, <3>1
    <3> QED
      BY <3>1, <3>2
  <2>6. CASE c = d /\ w = v
    <3>1. uncommitted'[c].by = w /\ uncommitted'[c].state = to /\ state' = state
      BY <1>1, <2>6
    <3>2. state[c] = "absent" => \E p \in CommandRequests : MovesCommand(p, w, c)' /\ commandJob'[p].to = "created"
      <4>1. CASE to = "created"
        BY <1>2, <1>3, <2>6, <4>1
      <4>2. CASE to # "created" /\ state[c] = "absent"
        <5>1. SeenState(w, c) # "absent"
          BY <1>3, <2>6, <4>2 DEF CommandsInv, CommandRows, SeenCommandsExist
        <5>2. uncommitted[c].by = w
          BY <4>2, <5>1 DEF SeenState
        <5> QED
          BY <2>1, <2>3, <4>2, <5>2
      <4> QED
        BY <4>1, <4>2
    <3> QED
      BY <1>2, <1>3, <2>6, <3>1, <3>2
  <2> QED
    BY <2>4, <2>5, <2>6
<1>9. SeenCommandsExist'
  <2> SUFFICES ASSUME NEW c \in Commands, NEW w \in CommandWorkers, NEW r \in CommandRequests, HasSeen(r, w, c)'
               PROVE  SeenState(w, c)' # "absent"
    BY DEF SeenCommandsExist
  <2>1. CASE c = d /\ w = v
    BY <1>1, <2>1 DEF SeenState
  <2>2. CASE ~(c = d /\ w = v)
    <3>1. r # q
      BY <1>4, <2>2
    <3>2. HasSeen(r, w, c)
      BY <1>1, <1>2, <3>1, SameHandler
    <3>3. SeenState(w, c) # "absent"
      BY <3>2 DEF CommandsInv, CommandRows, SeenCommandsExist
    <3>4. SeenState(w, c)' = SeenState(w, c)
      <4>1. CASE c # d
        BY <1>1, <4>1 DEF SeenState
      <4>2. CASE c = d /\ w # v
        BY <1>1, <4>2, CommandsAssumption DEF SeenState
      <4> QED
        BY <2>2, <4>1, <4>2
    <3> QED
      BY <3>3, <3>4
  <2> QED
    BY <2>1, <2>2
<1>10. LogTellsTheState'
  BY <1>1 DEF CommandsInv, CommandRows, LogTellsTheState, EndsWith
<1> QED
  BY <1>7, <1>8, <1>9, <1>10 DEF CommandRows


\* A COMMIT, of request q or of another manager's: what the session of w holds is stored, and of
\* the handlers halfway only q's command, whose log grows with it, is not cut.
LEMMA SaveRows ==
    ASSUME CommandsInv, NEW w \in CommandWorkers, NEW q, SaveAll(w, q), w \notin failing, UNCHANGED failing,
           \A r \in CommandRequests : r # q => commandJob'[r] = commandJob[r],
           q \in CommandRequests => LogState(q) /\ w = commandJob[q].worker,
           q \notin CommandRequests => UNCHANGED log
    PROVE  CommandRows'
<1>1. \A c \in Commands : /\ state'[c] = SeenState(w, c) /\ w # NoOne
                          /\ uncommitted'[c] = IF uncommitted[c].by = w THEN Saved ELSE uncommitted[c]
  BY CommandsAssumption DEF SaveAll, Close, OpenOf
<1>2. \A r \in CommandRequests, c \in Commands : MovesCommand(r, w, c) /\ r # q => c \in cutCommands'
  BY DEF SaveAll, CutShort, MovesCommand, ServesCommand
<1>3. cutCommands \subseteq cutCommands'
  BY DEF SaveAll
<1>4. /\ q \in CommandRequests => /\ commandJob[q].pc = "log" /\ commandJob'[q].pc # "log"
                                  /\ commandJob'[q].command = commandJob[q].command
                                  /\ commandJob'[q].worker = w /\ commandJob[q].worker = w
                                  /\ commandJob[q].to \in {"created", "queued", "authorized", "ready", "cancelled"}
                                  /\ commandJob[q].command \in Commands
  <2> SUFFICES ASSUME q \in CommandRequests
               PROVE  /\ commandJob[q].pc = "log" /\ commandJob'[q].pc # "log"
                      /\ commandJob'[q].command = commandJob[q].command
                      /\ commandJob'[q].worker = w /\ commandJob[q].worker = w
                      /\ commandJob[q].to \in {"created", "queued", "authorized", "ready", "cancelled"}
                      /\ commandJob[q].command \in Commands
    OBVIOUS
  <2>1. PICK j \in CommandJobType : j = commandJob[q] /\ j.to \in {"created", "queued", "authorized", "ready", "cancelled"}
    BY CommandMoves DEF CommandStep, CommandPlaces
  <2>2. j.pc = "log" /\ commandJob'[q] = After(j)
    BY <2>1 DEF LogState, Reaches, CommandsInv, CommandsTypeOK
  <2>3. After(j).pc # "log"
    BY <2>1, AfterJob
  <2>4. After(j).command = j.command /\ After(j).worker = j.worker
    BY <2>1, AfterJob
  <2>5. j.command \in Commands
    BY <2>1, CommandMoves DEF CommandStep
  <2> QED
    BY <2>1, <2>2, <2>3, <2>4, <2>5
<1>5. ASSUME NEW r \in CommandRequests, NEW v, NEW c, MovesCommand(r, v, c)'
      PROVE  MovesCommand(r, v, c) /\ r # q /\ commandJob'[r] = commandJob[r]
  <2>1. r # q
    BY <1>4, <1>5 DEF MovesCommand
  <2> QED
    BY <1>5, <2>1, SameHandler
<1>6. ASSUME NEW r \in CommandRequests, NEW v, NEW c, MovesCommand(r, v, c), r # q
      PROVE  MovesCommand(r, v, c)' /\ commandJob'[r] = commandJob[r]
  BY <1>6, SameHandler
<1>7. UncommittedIsSound'
  <2>1. NoOne \notin failing
    BY CommandsAssumption DEF CommandsInv, CommandsTypeOK
  <2> QED
    BY <1>1, <2>1 DEF CommandsInv, CommandRows, UncommittedIsSound, Saved
<1>8. HoldersMoveRows'
  <2> SUFFICES ASSUME NEW c \in Commands \ cutCommands', NEW v \in CommandWorkers
               PROVE  /\ \A r \in CommandRequests : MovesCommand(r, v, c)' => uncommitted'[c].by = v
                      /\ uncommitted'[c].by = v =>
                            \E p \in CommandRequests : MovesCommand(p, v, c)' /\ commandJob'[p].to = uncommitted'[c].state
                      /\ uncommitted'[c].by = v /\ state'[c] = "absent" =>
                            \E p \in CommandRequests : MovesCommand(p, v, c)' /\ commandJob'[p].to = "created"
    BY DEF HoldersMoveRows
  <2>1. /\ \A r \in CommandRequests : MovesCommand(r, v, c) => uncommitted[c].by = v
        /\ uncommitted[c].by = v =>
              \E p \in CommandRequests : MovesCommand(p, v, c) /\ commandJob[p].to = uncommitted[c].state
        /\ uncommitted[c].by = v /\ state[c] = "absent" =>
              \E p \in CommandRequests : MovesCommand(p, v, c) /\ commandJob[p].to = "created"
    BY <1>3 DEF CommandsInv, CommandRows, HoldersMoveRows
  <2>2. CASE v = w
    <3>1. uncommitted'[c].by # w
      BY <1>1 DEF Saved
    <3>2. \A r \in CommandRequests : ~MovesCommand(r, w, c)'
      BY <1>2, <1>5
    <3> QED
      BY <2>2, <3>1, <3>2
  <2>3. CASE v # w
    <3>1. ASSUME NEW r \in CommandRequests, MovesCommand(r, v, c)
          PROVE  MovesCommand(r, v, c)' /\ commandJob'[r] = commandJob[r]
      <4>1. r # q
        BY <1>4, <2>3, <3>1 DEF MovesCommand, ServesCommand
      <4> QED
        BY <1>6, <3>1, <4>1
    <3>2. ASSUME NEW r \in CommandRequests, MovesCommand(r, v, c)' PROVE MovesCommand(r, v, c)
      BY <1>5, <3>2
    <3>3. CASE uncommitted[c].by = w
      <4>1. uncommitted'[c].by = NoOne /\ v # NoOne
        BY <1>1, <3>3, CommandsAssumption DEF Saved
      <4>2. \A r \in CommandRequests : ~MovesCommand(r, v, c)'
        BY <2>1, <2>3, <3>2, <3>3
      <4> QED
        BY <4>1, <4>2
    <3>4. CASE uncommitted[c].by # w
      <4>1. uncommitted'[c] = uncommitted[c] /\ state'[c] = state[c]
        BY <1>1, <3>4 DEF SeenState
      <4> QED
        BY <2>1, <3>1, <3>2, <4>1
    <3> QED
      BY <3>3, <3>4
  <2> QED
    BY <2>2, <2>3
<1>9. SeenCommandsExist'
  <2> SUFFICES ASSUME NEW c \in Commands, NEW v \in CommandWorkers, NEW r \in CommandRequests, HasSeen(r, v, c)'
               PROVE  SeenState(v, c)' # "absent"
    BY DEF SeenCommandsExist
  <2>1. HasSeen(r, v, c)
    <3>1. CASE r = q
      <4>1. c = commandJob[q].command /\ v = w /\ commandJob[q].pc = "log"
        BY <1>4, <3>1 DEF HasSeen, ServesCommand
      <4> QED
        BY <1>4, <3>1, <4>1 DEF HasSeen, ServesCommand, LiveRequest
    <3>2. CASE r # q
      BY <3>2, SameHandler
    <3> QED
      BY <3>1, <3>2
  <2>2. SeenState(v, c) # "absent"
    BY <2>1 DEF CommandsInv, CommandRows, SeenCommandsExist
  <2>3. \A x \in CommandWorkers : uncommitted[c].by = x => uncommitted[c].state # "absent"
    BY CommandsAssumption DEF CommandsInv, CommandRows, UncommittedIsSound
  <2>4. CASE uncommitted[c].by = w
    <3>1. uncommitted'[c].by = NoOne /\ v # NoOne /\ state'[c] = uncommitted[c].state
      BY <1>1, <2>4, CommandsAssumption DEF SeenState, Saved
    <3> QED
      BY <2>3, <2>4, <3>1 DEF SeenState
  <2>5. CASE uncommitted[c].by # w
    <3>1. uncommitted'[c] = uncommitted[c] /\ state'[c] = state[c]
      BY <1>1, <2>5 DEF SeenState
    <3> QED
      BY <2>2, <3>1 DEF SeenState
  <2> QED
    BY <2>4, <2>5
<1>10. LogTellsTheState'
  <2> SUFFICES ASSUME NEW c \in Commands \ cutCommands'
               PROVE  EndsWith(c, state[c])' /\ (log'[c] # <<>> => log'[c][1] = "created")
    BY DEF LogTellsTheState
  <2>1. EndsWith(c, state[c]) /\ (log[c] # <<>> => log[c][1] = "created") /\ c \in Commands \ cutCommands
    BY <1>3 DEF CommandsInv, CommandRows, LogTellsTheState
  <2>2. uncommitted[c].by = w =>
            \E p \in CommandRequests : MovesCommand(p, w, c) /\ commandJob[p].to = uncommitted[c].state
    BY <2>1 DEF CommandsInv, CommandRows, HoldersMoveRows
  <2>3. \A r \in CommandRequests : MovesCommand(r, w, c) => r = q
    BY <1>2
  <2>4. CASE q \in CommandRequests /\ c = commandJob[q].command
    <3>1. MovesCommand(q, w, c)
      BY <1>4, <2>4 DEF MovesCommand, ServesCommand, LiveRequest
    <3>2. uncommitted[c].by = w
      BY <2>1, <2>4, <3>1 DEF CommandsInv, CommandRows, HoldersMoveRows
    <3>3. PICK to \in CommandState : to = commandJob[q].to /\ to # "absent"
      BY <1>4, <2>4 DEF CommandState
    <3>4. state'[c] = to
      BY <1>1, <2>2, <2>3, <3>2, <3>3 DEF SeenState
    <3>5. log' = [log EXCEPT ![c] = Logged(c, to)]
      BY <2>4, <3>3 DEF LogState
    <3>6. log'[c] = Append(log[c], to) /\ log[c] \in Seq(CommandState)
      BY <3>5, LoggedMore DEF CommandsInv, CommandsTypeOK
    <3>7. log[c] = <<>> => to = "created"
      <4>1. log[c] = <<>> => state[c] = "absent"
        BY <2>1 DEF EndsWith
      <4>2. state[c] = "absent" => \E p \in CommandRequests : MovesCommand(p, w, c) /\ commandJob[p].to = "created"
        BY <2>1, <3>2 DEF CommandsInv, CommandRows, HoldersMoveRows
      <4> QED
        BY <2>3, <3>3, <4>1, <4>2
    <3>8. log'[c] # <<>> /\ log'[c][Len(log'[c])] = to /\ log'[c][1] = "created"
      BY <2>1, <3>6, <3>7, LongerLog
    <3> QED
      BY <3>3, <3>4, <3>8 DEF EndsWith
  <2>5. CASE ~(q \in CommandRequests /\ c = commandJob[q].command)
    <3>1. log'[c] = log[c]
      BY <1>4, <2>5 DEF LogState, CommandsInv, CommandsTypeOK
    <3>2. uncommitted[c].by # w
      <4>1. ~\E p \in CommandRequests : MovesCommand(p, w, c)
        BY <2>3, <2>5 DEF MovesCommand, ServesCommand
      <4> QED
        BY <2>2, <4>1
    <3>3. state'[c] = state[c]
      BY <1>1, <3>2 DEF SeenState
    <3> QED
      BY <2>1, <3>1, <3>3 DEF EndsWith
  <2> QED
    BY <2>4, <2>5
<1> QED
  BY <1>7, <1>8, <1>9, <1>10 DEF CommandRows

\* What the session of w holds is lost, and the session with it, or all its handlers.
LEMMA LoseRows ==
    ASSUME CommandsInv, NEW w \in CommandWorkers, SessionFails(w) \/ RestartWorker(w)
    PROVE  CommandRows'
<1>1. /\ \A c \in Commands : uncommitted'[c] = IF uncommitted[c].by = w THEN Saved ELSE uncommitted[c]
      /\ state' = state /\ log' = log /\ cutCommands' = cutCommands /\ w # NoOne
      /\ \A v : v # w => (v \in failing' <=> v \in failing)
  BY CommandsAssumption DEF SessionFails, RestartWorker, LoseAll, Close, OpenOf
<1>2. ASSUME NEW r \in CommandRequests, NEW v, NEW c, ServesCommand(r, v, c)'
      PROVE  v # w /\ commandJob'[r] = commandJob[r] /\ v \notin failing
  <2>1. CASE SessionFails(w)
    BY <1>1, <1>2, <2>1 DEF SessionFails, ServesCommand
  <2>2. CASE RestartWorker(w)
    <3>1. LiveRequest(r)' /\ commandJob'[r].worker = v
      BY <1>2 DEF ServesCommand
    <3>2. ~(LiveRequest(r) /\ commandJob[r].worker = w)
      BY <2>2, <3>1, DeathEnds DEF LiveRequest
    <3>3. commandJob'[r] = commandJob[r]
      BY <2>2, <3>2, DeathEnds
    <3>4. v # w
      BY <3>1, <3>2, <3>3 DEF LiveRequest
    <3> QED
      BY <1>1, <1>2, <3>3, <3>4 DEF ServesCommand
  <2> QED
    BY <2>1, <2>2
<1>3. ASSUME NEW r \in CommandRequests, NEW v, NEW c, ServesCommand(r, v, c)'
      PROVE  v # w /\ ServesCommand(r, v, c) /\ (HasSeen(r, v, c)' => HasSeen(r, v, c))
             /\ (MovesCommand(r, v, c)' => MovesCommand(r, v, c))
  BY <1>2, <1>3 DEF ServesCommand, HasSeen, MovesCommand, LiveRequest
<1>4. ASSUME NEW r \in CommandRequests, NEW v, NEW c, v # w, MovesCommand(r, v, c)
      PROVE  MovesCommand(r, v, c)' /\ commandJob'[r] = commandJob[r]
  <2>1. commandJob'[r] = commandJob[r]
    <3>1. CASE SessionFails(w)
      BY <3>1 DEF SessionFails
    <3>2. CASE RestartWorker(w)
      BY <1>4, <3>2, DeathEnds DEF MovesCommand, ServesCommand
    <3> QED
      BY <3>1, <3>2
  <2> QED
    BY <1>1, <1>4, <2>1 DEF MovesCommand, ServesCommand, LiveRequest
<1>5. UncommittedIsSound'
  <2>1. \A c \in Commands : uncommitted'[c].by # w
    BY <1>1 DEF Saved
  <2>2. NoOne \notin failing'
    BY CommandsAssumption DEF SessionFails, RestartWorker, CommandsInv, CommandsTypeOK
  <2> QED
    BY <1>1, <2>1, <2>2 DEF CommandsInv, CommandRows, UncommittedIsSound, Saved
<1>6. HoldersMoveRows'
  <2> SUFFICES ASSUME NEW c \in Commands \ cutCommands, NEW v \in CommandWorkers
               PROVE  /\ \A r \in CommandRequests : MovesCommand(r, v, c)' => uncommitted'[c].by = v
                      /\ uncommitted'[c].by = v =>
                            \E p \in CommandRequests : MovesCommand(p, v, c)' /\ commandJob'[p].to = uncommitted'[c].state
                      /\ uncommitted'[c].by = v /\ state'[c] = "absent" =>
                            \E p \in CommandRequests : MovesCommand(p, v, c)' /\ commandJob'[p].to = "created"
    BY <1>1 DEF HoldersMoveRows
  <2>1. /\ \A r \in CommandRequests : MovesCommand(r, v, c) => uncommitted[c].by = v
        /\ uncommitted[c].by = v =>
              \E p \in CommandRequests : MovesCommand(p, v, c) /\ commandJob[p].to = uncommitted[c].state
        /\ uncommitted[c].by = v /\ state[c] = "absent" =>
              \E p \in CommandRequests : MovesCommand(p, v, c) /\ commandJob[p].to = "created"
    BY DEF CommandsInv, CommandRows, HoldersMoveRows
  <2>2. ASSUME NEW r \in CommandRequests, MovesCommand(r, v, c)' PROVE MovesCommand(r, v, c) /\ v # w
    <3>1. ServesCommand(r, v, c)'
      BY <2>2 DEF MovesCommand
    <3> QED
      BY <1>3, <2>2, <3>1
  <2>3. CASE v = w
    <3>1. uncommitted'[c].by # v
      BY <1>1, <2>3 DEF Saved
    <3> QED
      BY <2>2, <2>3, <3>1
  <2>4. CASE v # w /\ uncommitted[c].by = w
    <3>1. uncommitted'[c].by = NoOne /\ v # NoOne
      BY <1>1, <2>4, CommandsAssumption DEF Saved
    <3> QED
      BY <2>1, <2>2, <2>4, <3>1
  <2>5. CASE v # w /\ uncommitted[c].by # w
    <3>1. uncommitted'[c] = uncommitted[c]
      BY <1>1, <2>5
    <3>2. ASSUME NEW p \in CommandRequests, MovesCommand(p, v, c)
          PROVE  MovesCommand(p, v, c)' /\ commandJob'[p] = commandJob[p]
      BY <1>4, <2>5, <3>2
    <3> QED
      BY <1>1, <2>1, <2>2, <3>1, <3>2
  <2> QED
    BY <2>3, <2>4, <2>5
<1>7. SeenCommandsExist'
  <2> SUFFICES ASSUME NEW c \in Commands, NEW v \in CommandWorkers, NEW r \in CommandRequests, HasSeen(r, v, c)'
               PROVE  SeenState(v, c)' # "absent"
    BY DEF SeenCommandsExist
  <2>1. ServesCommand(r, v, c)'
    BY DEF HasSeen
  <2>2. HasSeen(r, v, c) /\ v # w
    BY <1>3, <2>1
  <2>3. SeenState(v, c) # "absent"
    BY <2>2 DEF CommandsInv, CommandRows, SeenCommandsExist
  <2>4. SeenState(v, c)' = SeenState(v, c)
    BY <1>1, <2>2, CommandsAssumption DEF SeenState, Saved
  <2> QED
    BY <2>3, <2>4
<1>8. LogTellsTheState'
  BY <1>1 DEF CommandsInv, CommandRows, LogTellsTheState, EndsWith
<1> QED
  BY <1>5, <1>6, <1>7, <1>8 DEF CommandRows


\* The steps that leave the tables alone.
LEMMA QuietCommandStep ==
    ASSUME CommandsInv, NEW q \in CommandRequests, Check(q) \/ Enqueue(q) \/ Fail(q)
    PROVE  QuietCommands
<1>0. PICK d \in Commands, v \in CommandWorkers : d = commandJob[q].command /\ v = commandJob[q].worker
  BY CommandMoves DEF CommandStep
<1>1. /\ UNCHANGED <<state, uncommitted, failing, log>> /\ cutCommands \subseteq cutCommands'
      /\ \A r \in CommandRequests : r # q => commandJob'[r] = commandJob[r]
      /\ LiveRequest(q)
  BY CommandMoves DEF CommandStep, Check, Enqueue, Fail, commandTable, rowOfCommand
<1>2. /\ commandJob'[q].command = d /\ commandJob'[q].worker = v /\ commandJob'[q].pc # "log"
      /\ LiveRequest(q)' => SeenState(v, d) # "absent"
  <2>1. CASE Check(q)
    <3>1. commandJob'[q] = [pc |-> IF v \notin failing /\ MayMove(SeenState(v, d), "queued") THEN "write" ELSE "refused",
                            command |-> d, worker |-> v, seen |-> SeenState(v, d), to |-> "queued"]
      BY <1>0, <2>1 DEF Check, Read, CommandsInv, CommandsTypeOK
    <3>2. commandJob'[q].pc = "write" => SeenState(v, d) # "absent"
      BY <3>1 DEF MayMove, LegalMoves
    <3>3. commandJob'[q].pc \in {"write", "refused"} /\ commandJob'[q].command = d /\ commandJob'[q].worker = v
      BY <3>1
    <3> QED
      BY <3>2, <3>3 DEF LiveRequest
  <2>2. CASE Enqueue(q) \/ Fail(q)
    <3>1. PICK pc \in {"done", "failed"} : commandJob' = [commandJob EXCEPT ![q].pc = pc]
      BY <2>2 DEF Enqueue, Fail
    <3>2. commandJob'[q].pc = pc /\ commandJob'[q].command = d /\ commandJob'[q].worker = v
      BY <1>0, <3>1 DEF CommandsInv, CommandsTypeOK, CommandJobType
    <3> QED
      BY <3>2 DEF LiveRequest
  <2> QED
    BY <2>1, <2>2
<1>3. ASSUME NEW c \in Commands \ cutCommands', NEW w \in CommandWorkers, NEW r \in CommandRequests
      PROVE  /\ MovesCommand(r, w, c)' => MovesCommand(r, w, c)
             /\ MovesCommand(r, w, c) => MovesCommand(r, w, c)' /\ commandJob'[r].to = commandJob[r].to
  <2>1. CASE r # q
    BY <1>1, <2>1, SameHandler
  <2>2. CASE r = q
    <3>1. ~MovesCommand(q, w, c)'
      BY <1>2 DEF MovesCommand
    <3>2. ~MovesCommand(q, w, c)
      <4>1. CASE Check(q) \/ Enqueue(q)
        BY <4>1 DEF Check, Enqueue, MayEnqueue, Reaches, MovesCommand
      <4>2. CASE Fail(q)
        BY <1>3, <4>2 DEF Fail, MovesCommand, ServesCommand, Reaches
      <4> QED
        BY <4>1, <4>2
    <3> QED
      BY <2>2, <3>1, <3>2
  <2> QED
    BY <2>1, <2>2
<1>4. ASSUME NEW c \in Commands, NEW w \in CommandWorkers, NEW r \in CommandRequests, HasSeen(r, w, c)'
      PROVE  SeenState(w, c) # "absent"
  <2>1. CASE r # q
    <3>1. HasSeen(r, w, c)
      BY <1>1, <1>4, <2>1, SameHandler
    <3> QED
      BY <3>1 DEF CommandsInv, CommandRows, SeenCommandsExist
  <2>2. CASE r = q
    BY <1>2, <1>4, <2>2 DEF HasSeen, ServesCommand
  <2> QED
    BY <2>1, <2>2
<1> QED
  BY <1>1, <1>3, <1>4 DEF QuietCommands

LEMMA QuietPoll == ASSUME CommandsInv, NEW v \in CommandWorkers, Poll(v) PROVE QuietCommands
<1>1. UNCHANGED <<state, uncommitted, failing, log, cutCommands, commandJob>>
  BY DEF Poll, commandTable, rowOfCommand
<1>2. ASSUME NEW c, NEW w, NEW r
      PROVE  /\ MovesCommand(r, w, c)' <=> MovesCommand(r, w, c)
             /\ HasSeen(r, w, c)' <=> HasSeen(r, w, c)
  BY <1>1, SameHandler
<1> QED
  BY <1>1, <1>2 DEF QuietCommands, CommandsInv, CommandRows, SeenCommandsExist

LEMMA QuietArrival ==
    ASSUME CommandsInv, NEW q \in CommandRequests, NEW d \in Commands, NEW v \in CommandWorkers,
           CommandArrival(q, d, v)
    PROVE  QuietCommands
<1>1. UNCHANGED <<state, uncommitted, failing, log, cutCommands>>
  BY CommandArrives DEF commandTable, rowOfCommand
<1>2. \A r \in CommandRequests : r # q => commandJob'[r] = commandJob[r]
  BY CommandArrives
<1>3. PICK p \in {"write", "refused"}, to \in {"created", "authorized", "cancelled"} : Arrived(q, d, v, p, to)
  BY CommandArrives
<1>4. /\ commandJob[q].pc = "idle" /\ commandJob'[q].pc # "log"
      /\ commandJob'[q].command = d /\ commandJob'[q].worker = v /\ commandJob'[q].to = to
      /\ LiveRequest(q)' /\ to # "created" => SeenState(v, d) # "absent"
  BY <1>3 DEF Arrived, LiveRequest
<1>5. ASSUME NEW c \in Commands, NEW w \in CommandWorkers, NEW r \in CommandRequests
      PROVE  /\ MovesCommand(r, w, c)' <=> MovesCommand(r, w, c)
             /\ MovesCommand(r, w, c) => commandJob'[r].to = commandJob[r].to
             /\ HasSeen(r, w, c)' => SeenState(w, c) # "absent"
  <2>1. CASE r # q
    <3>1. /\ MovesCommand(r, w, c)' <=> MovesCommand(r, w, c)
          /\ HasSeen(r, w, c)' <=> HasSeen(r, w, c)
      BY <1>1, <1>2, <2>1, SameHandler
    <3>2. HasSeen(r, w, c) => SeenState(w, c) # "absent"
      BY DEF CommandsInv, CommandRows, SeenCommandsExist
    <3> QED
      BY <1>2, <2>1, <3>1, <3>2
  <2>2. CASE r = q
    <3>1. ~MovesCommand(q, w, c) /\ ~MovesCommand(q, w, c)'
      BY <1>4 DEF MovesCommand
    <3>2. HasSeen(q, w, c)' => SeenState(w, c) # "absent"
      BY <1>4 DEF HasSeen, ServesCommand
    <3> QED
      BY <2>2, <3>1, <3>2
  <2> QED
    BY <2>1, <2>2
<1> QED
  BY <1>1, <1>5 DEF QuietCommands

\* The rows of any step.
LEMMA StepKeepsRows == ASSUME CommandsInv, CommandsNext PROVE CommandRows'
<1>1. ASSUME NEW q \in CommandRequests, NEW c \in Commands, NEW w \in CommandWorkers, CommandArrival(q, c, w)
      PROVE  CommandRows'
  <2>1. QuietCommands
    BY <1>1, QuietArrival
  <2> QED
    BY <2>1, QuietRows
<1>2. ASSUME NEW q \in CommandRequests, Check(q) \/ Enqueue(q) \/ Fail(q) PROVE CommandRows'
  <2>1. QuietCommands
    BY <1>2, QuietCommandStep
  <2> QED
    BY <2>1, QuietRows
<1>3. ASSUME NEW q \in CommandRequests, LogState(q) PROVE CommandRows'
  <2>0. CommandStep(q)
    BY <1>3 DEF CommandStep
  <2>1. PICK w \in CommandWorkers : w = commandJob[q].worker
    BY <2>0, CommandMoves
  <2>2. \A r \in CommandRequests : r # q => commandJob'[r] = commandJob[r]
    BY <2>0, CommandMoves
  <2>3. SaveAll(w, q) /\ w \notin failing /\ UNCHANGED failing
    BY <1>3, <2>1 DEF LogState, Reaches
  <2> QED
    BY <1>3, <2>1, <2>2, <2>3, SaveRows
<1>4. ASSUME NEW w \in CommandWorkers, SessionCommits(w) PROVE CommandRows'
  <2>1. NoOne \notin CommandRequests
    BY CommandsAssumption
  <2>2. w \notin failing
    BY <1>4 DEF SessionCommits, OpenOf, CommandsInv, CommandRows, UncommittedIsSound
  <2>3. SaveAll(w, NoOne) /\ UNCHANGED <<failing, log, commandJob>>
    BY <1>4 DEF SessionCommits
  <2> QED
    BY <2>1, <2>2, <2>3, SaveRows
<1>5. ASSUME NEW w \in CommandWorkers, SessionFails(w) \/ RestartWorker(w) PROVE CommandRows'
  BY <1>5, LoseRows
<1>6. ASSUME NEW w \in CommandWorkers, Poll(w) PROVE CommandRows'
  <2>1. QuietCommands
    BY <1>6, QuietPoll
  <2> QED
    BY <2>1, QuietRows
<1>7. ASSUME NEW q \in CommandRequests, WriteState(q) PROVE CommandRows'
  BY <1>7, WriteRows
<1> QED
  BY <1>1, <1>2, <1>3, <1>4, <1>5, <1>6, <1>7 DEF CommandsNext, CommandArrival


\* What is true of the handlers stays true when one arrives, and when a session acts.
LEMMA ArrivalJobs ==
    ASSUME CommandsInv, NEW q \in CommandRequests, NEW d \in Commands, NEW v \in CommandWorkers,
           CommandArrival(q, d, v)
    PROVE  CommandsTypeOK' /\ CommandJobsInv'
<1>1. /\ UNCHANGED <<log, enqueued>>
      /\ \A r \in CommandRequests : r # q => commandJob'[r] = commandJob[r]
  BY CommandArrives DEF commandTable
<1>2. PICK p \in {"write", "refused"}, to \in {"created", "authorized", "cancelled"} : Arrived(q, d, v, p, to)
  BY CommandArrives
<1>3. /\ commandJob[q].pc = "idle" /\ commandJob'[q].command = d /\ commandJob'[q].worker = v
      /\ commandJob'[q].pc = p /\ commandJob'[q].to = to
      /\ p = "write" => <<commandJob'[q].seen, to>> \in LegalMoves \cup {<<"absent", "created">>}
  BY <1>2 DEF Arrived
<1>4. CommandsTypeOK'
  <2>1. disturbedCommands' \subseteq Commands
    BY <1>2 DEF Arrived, CommandsInv, CommandsTypeOK
  <2> QED
    BY <2>1, CommandArrives DEF CommandsInv, CommandsTypeOK, commandTable, rowOfCommand
<1>5. CommandJobsAreSound'
  <2>1. p \in CommandPlaces(to) \/ p = "refused"
    BY DEF CommandPlaces
  <2>2. /\ commandJob'[q].pc # "idle" /\ d \in Commands /\ v \in CommandWorkers
        /\ LiveRequest(q)' => p = "write"
    BY <1>3 DEF LiveRequest
  <2> QED
    BY <1>1, <1>3, <2>1, <2>2 DEF LiveRequest, CommandsInv, CommandJobsInv, CommandJobsAreSound
<1>6. EntriesPrecede'
  BY <1>1, <1>3 DEF LiveRequest, Went, CommandsInv, CommandJobsInv, EntriesPrecede
<1>7. OneCreator'
  <2>1. ASSUME NEW c \in Commands, NEW r \in CommandRequests, NEW x \in CommandRequests,
               Creates(r, c)', Creates(x, c)'
        PROVE  r = x
    <3>1. \A y \in CommandRequests : y # q /\ Creates(y, c)' => Creates(y, c)
      BY <1>1 DEF Creates
    <3>2. Creates(q, c)' => \A y \in CommandRequests : ~Creates(y, c)
      <4>1. Creates(q, c)' => c = d /\ to = "created"
        BY <1>3 DEF Creates
      <4>2. to = "created" => NewCommand(d)
        BY <1>2 DEF Arrived
      <4> QED
        BY <4>1, <4>2 DEF NewCommand, Creates
    <3>3. \A y, z \in CommandRequests : Creates(y, c) /\ Creates(z, c) => y = z
      BY DEF CommandsInv, CommandJobsInv, OneCreator
    <3>4. CASE r = q \/ x = q
      BY <2>1, <3>1, <3>2, <3>4
    <3>5. CASE r # q /\ x # q
      BY <2>1, <3>1, <3>3, <3>5
    <3> QED
      BY <3>4, <3>5
  <2>2. ASSUME NEW c \in Commands, NEW w \in CommandWorkers, c \in enqueued'[w]
        PROVE  /\ Went(c, "queued")'
               /\ \E r \in CommandRequests : Creates(r, c)' /\ commandJob'[r].worker = w /\ commandJob'[r].pc = "done"
    <3>1. c \in enqueued[w]
      BY <1>1, <2>2
    <3>2. PICK r \in CommandRequests : Creates(r, c) /\ commandJob[r].worker = w /\ commandJob[r].pc = "done"
      BY <3>1 DEF CommandsInv, CommandJobsInv, OneCreator
    <3>3. r # q /\ commandJob'[r] = commandJob[r]
      BY <1>1, <1>3, <3>2
    <3>4. Went(c, "queued")'
      BY <1>1, <3>1 DEF Went, CommandsInv, CommandJobsInv, OneCreator
    <3> QED
      BY <3>2, <3>3, <3>4 DEF Creates
  <2> QED
    BY <2>1, <2>2 DEF OneCreator
<1> QED
  BY <1>4, <1>5, <1>6, <1>7 DEF CommandJobsInv

LEMMA SessionJobs ==
    ASSUME CommandsInv, NEW w \in CommandWorkers, SessionStep(w)
    PROVE  CommandJobsInv'
<1>1. /\ log' = log /\ \A v \in CommandWorkers : enqueued'[v] \subseteq enqueued[v]
      /\ \A q \in CommandRequests :
            /\ commandJob'[q].command = commandJob[q].command /\ commandJob'[q].worker = commandJob[q].worker
            /\ commandJob'[q].to = commandJob[q].to
            /\ commandJob'[q] = commandJob[q] \/ (LiveRequest(q) /\ commandJob'[q].pc = "failed")
  <2>1. CASE RestartWorker(w)
    <3>1. log' = log /\ \A v \in CommandWorkers : enqueued'[v] \subseteq enqueued[v]
      BY <2>1 DEF RestartWorker, LoseAll, CommandsInv, CommandsTypeOK
    <3>2. ASSUME NEW q \in CommandRequests
          PROVE  /\ commandJob'[q].command = commandJob[q].command /\ commandJob'[q].worker = commandJob[q].worker
                 /\ commandJob'[q].to = commandJob[q].to
                 /\ commandJob'[q] = commandJob[q] \/ (LiveRequest(q) /\ commandJob'[q].pc = "failed")
      BY <2>1, DeathEnds
    <3> QED
      BY <3>1, <3>2
  <2>2. CASE ~RestartWorker(w)
    <3>1. log' = log /\ enqueued' = enqueued /\ commandJob' = commandJob
      BY <2>2 DEF SessionStep, SessionCommits, SessionFails, LoseAll, Poll, commandTable
    <3> QED
      BY <3>1
  <2> QED
    BY <2>1, <2>2
<1>2. \A q \in CommandRequests : LiveRequest(q)' => commandJob'[q] = commandJob[q] /\ LiveRequest(q)
  BY <1>1 DEF LiveRequest
<1>3. CommandJobsAreSound'
  <2>1. \A q \in CommandRequests : commandJob'[q].pc = "idle" => commandJob'[q] = commandJob[q]
    BY <1>1
  <2> QED
    BY <1>2, <2>1 DEF CommandsInv, CommandJobsInv, CommandJobsAreSound
<1>4. EntriesPrecede'
  BY <1>1, <1>2 DEF CommandsInv, CommandJobsInv, EntriesPrecede, Went
<1>5. OneCreator'
  <2>1. \A c, r : r \in CommandRequests => (Creates(r, c)' <=> Creates(r, c))
    BY <1>1 DEF Creates
  <2>2. ASSUME NEW c \in Commands, NEW v \in CommandWorkers, c \in enqueued'[v]
        PROVE  /\ Went(c, "queued")'
               /\ \E r \in CommandRequests : Creates(r, c)' /\ commandJob'[r].worker = v /\ commandJob'[r].pc = "done"
    <3>1. c \in enqueued[v]
      BY <1>1, <2>2
    <3>2. PICK r \in CommandRequests : Creates(r, c) /\ commandJob[r].worker = v /\ commandJob[r].pc = "done"
      BY <3>1 DEF CommandsInv, CommandJobsInv, OneCreator
    <3>3. commandJob'[r] = commandJob[r]
      BY <1>1, <3>2 DEF LiveRequest
    <3>4. Went(c, "queued")'
      BY <1>1, <3>1 DEF Went, CommandsInv, CommandJobsInv, OneCreator
    <3> QED
      BY <2>1, <3>2, <3>3, <3>4
  <2>3. \A c \in Commands : \A y, z \in CommandRequests : Creates(y, c)' /\ Creates(z, c)' => y = z
    BY <2>1 DEF CommandsInv, CommandJobsInv, OneCreator
  <2> QED
    BY <2>2, <2>3 DEF OneCreator
<1> QED
  BY <1>3, <1>4, <1>5 DEF CommandJobsInv

\* A request to authorize that was not refused stays one.
LEMMA AuthorizingStays ==
    ASSUME CommandsInv, CommandsNext, NEW q \in CommandRequests, NEW c \in Commands, Authorizing(q, c)
    PROVE  Authorizing(q, c)'
<1>1. ASSUME NEW r \in CommandRequests, CommandStep(r) PROVE Authorizing(q, c)'
  <2>1. CASE r = q
    <3>1. Onward(q, commandJob[q].command, commandJob[q].worker, commandJob[q].to, commandJob[q].pc)
      BY <1>1, <2>1, CommandMoves
    <3> QED
      BY <3>1 DEF Onward, Authorizing
  <2>2. CASE r # q
    BY <1>1, <2>2, CommandMoves DEF Authorizing
  <2> QED
    BY <2>1, <2>2
<1>2. ASSUME NEW r \in CommandRequests, NEW d \in Commands, NEW v \in CommandWorkers, CommandArrival(r, d, v)
      PROVE  Authorizing(q, c)'
  <2>1. commandJob[r].command = NoOne
    BY <1>2, CommandArrives DEF Arrived
  <2>2. r # q
    BY <2>1, CommandsAssumption DEF Authorizing
  <2> QED
    BY <1>2, <2>2, CommandArrives DEF Authorizing
<1>3. ASSUME NEW w \in CommandWorkers, SessionStep(w) PROVE Authorizing(q, c)'
  <2>1. CASE RestartWorker(w)
    BY <2>1, DeathEnds DEF Authorizing
  <2>2. CASE ~RestartWorker(w)
    BY <1>3, <2>2 DEF SessionStep, SessionCommits, SessionFails, Poll, Authorizing
  <2> QED
    BY <2>1, <2>2
<1> QED
  BY <1>1, <1>2, <1>3 DEF CommandsNext, CommandStep, CommandArrival, SessionStep


\* What a step does to a row: it stays, its handler writes it, or it is committed or lost.
LEMMA RowMoves ==
    ASSUME CommandsInv, CommandsNext, NEW c \in Commands
    PROVE  /\ \/ uncommitted'[c] = uncommitted[c]
              \/ uncommitted'[c] = Saved
              \/ \E q \in CommandRequests : /\ WriteState(q) /\ commandJob[q].command = c
                                            /\ uncommitted'[c].state = commandJob[q].to
           /\ \/ state'[c] = state[c]
              \/ \E w \in CommandWorkers : /\ uncommitted[c].by = w /\ state'[c] = uncommitted[c].state
                                           /\ SessionCommits(w) \/ \E q \in CommandRequests : LogState(q) /\ commandJob[q].worker = w
<1>1. ASSUME NEW w \in CommandWorkers, NEW q, SaveAll(w, q)
      PROVE  /\ uncommitted'[c] = uncommitted[c] \/ uncommitted'[c] = Saved
             /\ state'[c] = state[c] \/ (uncommitted[c].by = w /\ state'[c] = uncommitted[c].state)
  BY <1>1 DEF SaveAll, Close, SeenState
<1>2. ASSUME NEW q \in CommandRequests, LogState(q)
      PROVE  /\ uncommitted'[c] = uncommitted[c] \/ uncommitted'[c] = Saved
             /\ \/ state'[c] = state[c]
                \/ \E w \in CommandWorkers : uncommitted[c].by = w /\ state'[c] = uncommitted[c].state
                                             /\ commandJob[q].worker = w
  <2>1. PICK w \in CommandWorkers : w = commandJob[q].worker
    BY <1>2, CommandMoves DEF CommandStep
  <2>2. SaveAll(w, q)
    BY <1>2, <2>1 DEF LogState
  <2> QED
    BY <1>1, <2>1, <2>2
<1>3. ASSUME NEW q \in CommandRequests, WriteState(q)
      PROVE  /\ uncommitted'[c] = uncommitted[c] \/ (commandJob[q].command = c /\ uncommitted'[c].state = commandJob[q].to)
             /\ state'[c] = state[c]
  BY <1>3 DEF WriteState, CommandsInv, CommandsTypeOK
<1>4. ASSUME NEW w \in CommandWorkers, SessionCommits(w)
      PROVE  /\ uncommitted'[c] = uncommitted[c] \/ uncommitted'[c] = Saved
             /\ state'[c] = state[c] \/ (uncommitted[c].by = w /\ state'[c] = uncommitted[c].state)
  BY <1>1, <1>4 DEF SessionCommits
<1>5. ASSUME NEW w \in CommandWorkers, SessionFails(w) \/ RestartWorker(w)
      PROVE  /\ uncommitted'[c] = uncommitted[c] \/ uncommitted'[c] = Saved
             /\ state'[c] = state[c]
  BY <1>5 DEF SessionFails, RestartWorker, LoseAll, Close
<1>6. ASSUME NEW w \in CommandWorkers, Poll(w) PROVE UNCHANGED <<uncommitted, state>>
  BY <1>6 DEF Poll, commandTable, rowOfCommand
<1>7. ASSUME NEW q \in CommandRequests, Check(q) \/ Enqueue(q) \/ Fail(q) PROVE UNCHANGED <<uncommitted, state>>
  BY <1>7 DEF Check, Enqueue, Fail, commandTable, rowOfCommand
<1>8. ASSUME NEW q \in CommandRequests, NEW d \in Commands, NEW w \in CommandWorkers, CommandArrival(q, d, w)
      PROVE  UNCHANGED <<uncommitted, state>>
  BY <1>8, CommandArrives DEF commandTable, rowOfCommand
<1> QED
  BY <1>2, <1>3, <1>4, <1>5, <1>6, <1>7, <1>8 DEF CommandsNext, CommandArrival

LEMMA LogsGrowOnly ==
    ASSUME CommandsInv, CommandsNext, NEW c \in Commands, NEW y \in CommandState, Went(c, y)
    PROVE  Went(c, y)'
<1>1. ASSUME NEW q \in CommandRequests, NEW d \in Commands, NEW w \in CommandWorkers, CommandArrival(q, d, w)
      PROVE  UNCHANGED log
  BY <1>1, CommandArrives DEF commandTable
<1>2. \/ \E q \in CommandRequests : CommandStep(q)
      \/ \E w \in CommandWorkers : SessionStep(w)
      \/ UNCHANGED log
  BY <1>1 DEF CommandsNext, CommandStep, CommandArrival, SessionStep
<1> QED
  BY <1>2, LogsGrow

LEMMA CutGrows == ASSUME CommandsNext PROVE cutCommands \subseteq cutCommands' /\ withdrawn \subseteq withdrawn'
<1>1. ASSUME NEW q \in CommandRequests, CommandStep(q)
      PROVE  cutCommands \subseteq cutCommands' /\ withdrawn \subseteq withdrawn'
  BY <1>1 DEF CommandStep, WriteState, LogState, SaveAll, Check, Enqueue, Fail, commandTable, rowOfCommand
<1>2. ASSUME NEW w \in CommandWorkers, SessionStep(w)
      PROVE  cutCommands \subseteq cutCommands' /\ withdrawn \subseteq withdrawn'
  BY <1>2 DEF SessionStep, SessionCommits, SessionFails, RestartWorker, SaveAll, LoseAll, Poll, commandTable, rowOfCommand
<1>3. ASSUME NEW q \in CommandRequests, NEW d \in Commands, NEW w \in CommandWorkers, CommandArrival(q, d, w)
      PROVE  cutCommands \subseteq cutCommands' /\ withdrawn \subseteq withdrawn'
  BY <1>3 DEF CommandArrival, CreateCommand, Authorize, Cancel, Ask, commandTable, rowOfCommand
<1> QED
  BY <1>1, <1>2, <1>3 DEF CommandsNext, CommandStep, CommandArrival, SessionStep

\* A deliverable state was written by a request to authorize, and its entry comes first or
\* with its COMMIT.
LEMMA StepKeepsAuthorized == ASSUME CommandsInv, CommandsNext PROVE DueIsAuthorized'
<1> SUFFICES ASSUME NEW c \in Commands
             PROVE  /\ state'[c] \in Deliverable \/ uncommitted'[c].state \in Deliverable =>
                          \E q \in CommandRequests : Authorizing(q, c)'
                    /\ state'[c] \in Deliverable /\ c \notin cutCommands' => Went(c, "authorized")'
  BY DEF DueIsAuthorized, Deliverable
<1>1. state[c] \in Deliverable \/ uncommitted[c].state \in Deliverable =>
          \E q \in CommandRequests : Authorizing(q, c)'
  BY AuthorizingStays DEF CommandsInv, DueIsAuthorized
<1>2. "absent" \notin Deliverable /\ "authorized" \in CommandState
  BY DEF Deliverable, CommandState
<1>3. ASSUME NEW q \in CommandRequests, WriteState(q), commandJob[q].command = c, commandJob[q].to \in Deliverable
      PROVE  Authorizing(q, c)'
  <2>1. Authorizing(q, c)
    BY <1>3 DEF Authorizing, Deliverable, WriteState, Reaches
  <2> QED
    BY <2>1, AuthorizingStays
<1>4. state'[c] \in Deliverable => state[c] \in Deliverable \/ uncommitted[c].state \in Deliverable
  BY RowMoves
<1>5. uncommitted'[c].state \in Deliverable =>
        \/ uncommitted[c].state \in Deliverable
        \/ \E q \in CommandRequests : WriteState(q) /\ commandJob[q].command = c /\ commandJob[q].to \in Deliverable
  BY <1>2, RowMoves DEF Saved
<1>6. ASSUME state'[c] \in Deliverable, c \notin cutCommands' PROVE Went(c, "authorized")'
  <2>1. c \notin cutCommands
    BY <1>6, CutGrows
  <2>2. CASE state'[c] = state[c]
    <3>1. Went(c, "authorized")
      BY <1>6, <2>1, <2>2 DEF CommandsInv, DueIsAuthorized
    <3> QED
      BY <1>2, <3>1, LogsGrowOnly
  <2>3. CASE state'[c] # state[c]
    <3>1. PICK w \in CommandWorkers :
              /\ uncommitted[c].by = w /\ state'[c] = uncommitted[c].state
              /\ SessionCommits(w) \/ \E q \in CommandRequests : LogState(q) /\ commandJob[q].worker = w
      BY <2>3, RowMoves
    <3>2. PICK p \in CommandRequests : MovesCommand(p, w, c) /\ commandJob[p].to = uncommitted[c].state
      BY <2>1, <3>1 DEF CommandsInv, CommandRows, HoldersMoveRows
    <3>3. commandJob[p].command = c /\ commandJob[p].to \in Deliverable /\ LiveRequest(p)
          /\ commandJob[p].pc = "log" /\ commandJob[p].worker = w
      BY <1>6, <3>1, <3>2 DEF MovesCommand, ServesCommand
    <3>4. ASSUME NEW q, SaveAll(w, q) PROVE q = p
      BY <1>6, <3>3, <3>4 DEF SaveAll, CutShort
    <3>5. ~SessionCommits(w)
      BY <3>4, CommandsAssumption DEF SessionCommits
    <3>6. LogState(p)
      BY <3>1, <3>4, <3>5 DEF LogState
    <3>7. CASE commandJob[p].to = "ready"
      <4>1. Went(c, "authorized")
        BY <3>3, <3>7 DEF CommandsInv, CommandJobsInv, EntriesPrecede
      <4> QED
        BY <1>2, <4>1, LogsGrowOnly
    <3>8. CASE commandJob[p].to = "authorized"
      <4>1. log' = [log EXCEPT ![c] = Logged(c, "authorized")]
        BY <3>3, <3>6, <3>8 DEF LogState
      <4> QED
        BY <1>2, <4>1, LoggedMore DEF CommandsInv
    <3> QED
      BY <3>3, <3>7, <3>8 DEF Deliverable
  <2> QED
    BY <2>2, <2>3
<1> QED
  BY <1>1, <1>3, <1>4, <1>5, <1>6


\* A command that was handed out keeps what was to be said of it, and a poll finds it said.
LEMMA StepKeepsHanded == ASSUME CommandsInv, CommandsNext PROVE NoneHandedUnauthorized'
<1> SUFFICES ASSUME NEW c \in handed'
             PROVE  /\ \E q \in CommandRequests : Authorizing(q, c)'
                    /\ \/ Went(c, "authorized")'
                       \/ c \in cutCommands' \cup withdrawn'
                       \/ \E q \in CommandRequests : Authorizing(q, c)' /\ Reaches(q, "log")'
  BY DEF NoneHandedUnauthorized
<1>0. handed \subseteq Commands /\ "authorized" \in CommandState
  BY DEF CommandsInv, CommandsTypeOK, CommandState
<1>1. cutCommands \subseteq cutCommands' /\ withdrawn \subseteq withdrawn'
  BY CutGrows
\* A handler between its statements has written the entry in the end, or its move was cut or lost.
<1>2. ASSUME NEW q \in CommandRequests, c \in Commands, Authorizing(q, c), Reaches(q, "log")
      PROVE  \/ Went(c, "authorized")'
             \/ c \in cutCommands' \cup withdrawn'
             \/ Authorizing(q, c)' /\ Reaches(q, "log")'
  <2>0. /\ Authorizing(q, c)' /\ commandJob[q].pc = "log" /\ commandJob[q].worker \notin failing
        /\ commandJob[q].command = c /\ commandJob[q].to \in {"authorized", "ready"} /\ LiveRequest(q)
    BY <1>2, AuthorizingStays DEF Reaches, Authorizing, LiveRequest
  <2>1. CASE LogState(q)
    <3>1. CASE commandJob[q].to = "authorized"
      <4>1. log' = [log EXCEPT ![c] = Logged(c, "authorized")]
        BY <2>0, <2>1, <3>1 DEF LogState
      <4> QED
        BY <1>0, <1>2, <4>1, LoggedMore DEF CommandsInv
    <3>2. CASE commandJob[q].to = "ready"
      <4>1. Went(c, "authorized")
        BY <1>2, <2>0, <3>2 DEF CommandsInv, CommandJobsInv, EntriesPrecede
      <4> QED
        BY <1>0, <1>2, <4>1, LogsGrowOnly
    <3> QED
      BY <2>0, <3>1, <3>2
  <2>2. CASE Fail(q)
    BY <2>0, <1>2, <2>2 DEF Fail
  <2>3. CASE \E w \in CommandWorkers : (SessionFails(w) \/ RestartWorker(w)) /\ commandJob[q].worker = w
    <3>1. PICK w \in CommandWorkers : /\ SessionFails(w) \/ RestartWorker(w)
                                      /\ commandJob[q].worker = w
      BY <2>3
    <3>2. MovesCommand(q, w, c) /\ withdrawn' = withdrawn \cup OpenOf(w)
      BY <2>0, <3>1 DEF MovesCommand, ServesCommand, SessionFails, RestartWorker, LoseAll
    <3>3. c \in cutCommands \/ uncommitted[c].by = w
      BY <1>2, <3>2 DEF CommandsInv, CommandRows, HoldersMoveRows
    <3> QED
      BY <1>1, <1>2, <3>2, <3>3 DEF OpenOf
  <2>4. CASE /\ commandJob'[q] = commandJob[q]
             /\ commandJob[q].worker \in failing' => commandJob[q].worker \in failing
    BY <1>2, <2>0, <2>4 DEF Reaches
  <2>5. \/ LogState(q) \/ Fail(q)
        \/ \E w \in CommandWorkers : (SessionFails(w) \/ RestartWorker(w)) /\ commandJob[q].worker = w
        \/ /\ commandJob'[q] = commandJob[q]
           /\ commandJob[q].worker \in failing' => commandJob[q].worker \in failing
    <3>1. ASSUME NEW r \in CommandRequests, CommandStep(r), ~LogState(q), ~Fail(q)
          PROVE  commandJob'[q] = commandJob[q] /\ failing' = failing
      <4>1. r # q
        BY <2>0, <3>1 DEF CommandStep, WriteState, Check, Enqueue, MayEnqueue, Reaches
      <4>2. failing' = failing
        BY <3>1 DEF CommandStep, WriteState, LogState, Check, Enqueue, Fail, commandTable
      <4> QED
        BY <3>1, <4>1, <4>2, CommandMoves
    <3>2. ASSUME NEW r \in CommandRequests, NEW d \in Commands, NEW v \in CommandWorkers, CommandArrival(r, d, v)
          PROVE  commandJob'[q] = commandJob[q] /\ failing' = failing
      <4>1. r # q
        BY <2>0, <3>2, CommandArrives DEF Arrived
      <4> QED
        BY <3>2, <4>1, CommandArrives DEF commandTable
    <3>3. ASSUME NEW w \in CommandWorkers, SessionStep(w), ~(commandJob[q].worker = w /\ (SessionFails(w) \/ RestartWorker(w)))
          PROVE  /\ commandJob'[q] = commandJob[q]
                 /\ commandJob[q].worker \in failing' => commandJob[q].worker \in failing
      <4>1. CASE SessionCommits(w) \/ Poll(w)
        BY <4>1 DEF SessionCommits, Poll, commandTable
      <4>2. CASE SessionFails(w)
        BY <3>3, <4>2 DEF SessionFails
      <4>3. CASE RestartWorker(w)
        <5>1. commandJob'[q] = commandJob[q]
          BY <3>3, <4>3, DeathEnds
        <5>2. failing' = failing \ {w}
          BY <4>3 DEF RestartWorker
        <5> QED
          BY <5>1, <5>2
      <4> QED
        BY <3>3, <4>1, <4>2, <4>3 DEF SessionStep
    <3> QED
      BY <3>1, <3>2, <3>3 DEF CommandsNext, CommandStep, CommandArrival, SessionStep
  <2> QED
    BY <2>1, <2>2, <2>3, <2>4, <2>5
<1>3. CASE c \in handed
  <2>0. c \in Commands
    BY <1>0, <1>3
  <2>1. /\ \E q \in CommandRequests : Authorizing(q, c)
        /\ \/ Went(c, "authorized")
           \/ c \in cutCommands \cup withdrawn
           \/ \E q \in CommandRequests : Authorizing(q, c) /\ Reaches(q, "log")
    BY <1>3 DEF CommandsInv, NoneHandedUnauthorized
  <2>2. \E q \in CommandRequests : Authorizing(q, c)'
    BY <2>0, <2>1, AuthorizingStays
  <2>3. CASE Went(c, "authorized")
    <3>1. Went(c, "authorized")'
      BY <1>0, <2>0, <2>3, LogsGrowOnly
    <3> QED
      BY <2>2, <3>1
  <2>4. CASE c \in cutCommands \cup withdrawn
    BY <1>1, <2>2, <2>4
  <2>5. CASE \E q \in CommandRequests : Authorizing(q, c) /\ Reaches(q, "log")
    BY <1>2, <2>0, <2>2, <2>5
  <2> QED
    BY <2>1, <2>3, <2>4, <2>5
<1>4. CASE c \notin handed
  <2>1. PICK w \in CommandWorkers : Poll(w)
    <3>1. ASSUME NEW q \in CommandRequests, CommandStep(q) PROVE handed' = handed
      BY <3>1 DEF CommandStep, WriteState, LogState, Check, Enqueue, Fail
    <3>2. ASSUME NEW r \in CommandRequests, NEW d \in Commands, NEW v \in CommandWorkers, CommandArrival(r, d, v)
          PROVE  handed' = handed
      BY <3>2, CommandArrives
    <3>3. ASSUME NEW w \in CommandWorkers, SessionStep(w), ~Poll(w) PROVE handed' = handed
      BY <3>3 DEF SessionStep, SessionCommits, SessionFails, RestartWorker
    <3> QED
      BY <1>4, <3>1, <3>2, <3>3 DEF CommandsNext, CommandStep, CommandArrival, SessionStep
  <2>2. /\ c \in Commands /\ Due(w, c) /\ w \notin failing
        /\ UNCHANGED <<state, uncommitted, cutCommands, withdrawn, log, failing, commandJob>>
    BY <1>4, <2>1 DEF Poll, commandTable, rowOfCommand
  <2>3. \A q \in CommandRequests : /\ Authorizing(q, c)' <=> Authorizing(q, c)
                                   /\ Reaches(q, "log")' <=> Reaches(q, "log")
    BY <2>2 DEF Authorizing, Reaches
  <2>4. Went(c, "authorized")' <=> Went(c, "authorized")
    BY <2>2 DEF Went
  <2>5. \E q \in CommandRequests : Authorizing(q, c)
    BY <2>2 DEF Due, SeenState, CommandsInv, DueIsAuthorized
  <2>9. \E q \in CommandRequests : Authorizing(q, c)'
    BY <2>3, <2>5
  <2>6. CASE c \in cutCommands
    BY <2>2, <2>6, <2>9
  <2>7. CASE c \notin cutCommands /\ uncommitted[c].by = w
    <3>1. PICK p \in CommandRequests : MovesCommand(p, w, c) /\ commandJob[p].to = uncommitted[c].state
      BY <2>2, <2>7 DEF CommandsInv, CommandRows, HoldersMoveRows
    <3>2. commandJob[p].to \in Deliverable
      BY <2>2, <2>7, <3>1 DEF Due, SeenState
    <3>3. Authorizing(p, c) /\ Reaches(p, "log")
      BY <3>1, <3>2 DEF MovesCommand, ServesCommand, Authorizing, Reaches, Deliverable
    <3> QED
      BY <2>3, <2>5, <3>3
  <2>8. CASE c \notin cutCommands /\ uncommitted[c].by # w
    <3>1. Went(c, "authorized")
      BY <2>2, <2>8 DEF Due, SeenState, CommandsInv, DueIsAuthorized
    <3> QED
      BY <2>4, <2>9, <3>1
  <2> QED
    BY <2>6, <2>7, <2>8
<1> QED
  BY <1>3, <1>4

LEMMA NextCommands == CommandsInv /\ [CommandsNext]_commandVars => CommandsInv'
<1> SUFFICES ASSUME CommandsInv, [CommandsNext]_commandVars PROVE CommandsInv'
  OBVIOUS
<1>1. CASE UNCHANGED commandVars
  BY <1>1 DEF commandVars, commandTable, rowOfCommand, CommandsInv, CommandsTypeOK, CommandJobsInv, CommandJobsAreSound,
              EntriesPrecede, OneCreator, Creates, CommandRows, UncommittedIsSound, HoldersMoveRows, SeenCommandsExist,
              LogTellsTheState, EndsWith, DueIsAuthorized, NoneHandedUnauthorized, HasSeen, MovesCommand, ServesCommand,
              LiveRequest, SeenState, Went, Authorizing, Reaches
<1>2. CASE CommandsNext
  <2>1. ASSUME NEW q \in CommandRequests, CommandStep(q) PROVE CommandsTypeOK' /\ CommandJobsInv'
    BY <2>1, StepTypesCommands, StepJobsCommands
  <2>2. ASSUME NEW q \in CommandRequests, NEW d \in Commands, NEW v \in CommandWorkers, CommandArrival(q, d, v)
        PROVE  CommandsTypeOK' /\ CommandJobsInv'
    BY <2>2, ArrivalJobs
  <2>3. ASSUME NEW w \in CommandWorkers, SessionStep(w) PROVE CommandsTypeOK' /\ CommandJobsInv'
    BY <2>3, SessionStepTypes, SessionJobs
  <2>4. CommandsTypeOK' /\ CommandJobsInv'
    BY <1>2, <2>1, <2>2, <2>3 DEF CommandsNext, CommandStep, CommandArrival, SessionStep
  <2>5. CommandRows' /\ DueIsAuthorized' /\ NoneHandedUnauthorized'
    BY <1>2, StepKeepsRows, StepKeepsAuthorized, StepKeepsHanded
  <2> QED
    BY <2>4, <2>5 DEF CommandsInv
<1> QED
  BY <1>1, <1>2

LEMMA CommandsInvariance == CommandsSpec => []CommandsInv
BY InitCommands, NextCommands, PTL DEF CommandsSpec

\* Every variable of the commands keeps its type.
THEOREM CommandsTypeCorrect == CommandsSpec => []CommandsTypeOK
BY CommandsInvariance, PTL DEF CommandsInv

\* Unless a transition was cut in two, the log of a command ends with the state of its row,
\* whatever crossed on it and whatever its workers' sessions served, lost or refused.
THEOREM LogsTellTheState == CommandsSpec => []LogTellsTheState
BY CommandsInvariance, PTL DEF CommandsInv, CommandRows

\* No agent is ever given a command that nobody authorized, or whose authorization is not in
\* the log, on its way there, cut in two or lost.
THEOREM AuthorizationFirst == CommandsSpec => []NoneHandedUnauthorized
BY CommandsInvariance, PTL DEF CommandsInv

\* A command is in the queue of one worker at most.
THEOREM CommandsQueueOnce == CommandsSpec => []EnqueuedOnce
<1>1. CommandsInv => EnqueuedOnce
  <2> SUFFICES ASSUME CommandsInv, NEW v \in CommandWorkers, NEW w \in CommandWorkers, NEW c \in enqueued[v]
               PROVE  Went(c, "queued") /\ (c \in enqueued[w] => v = w)
    BY DEF EnqueuedOnce
  <2>1. c \in Commands
    BY DEF CommandsInv, CommandsTypeOK
  <2>2. Went(c, "queued") /\ \E q \in CommandRequests : Creates(q, c) /\ commandJob[q].worker = v
    BY <2>1 DEF CommandsInv, CommandJobsInv, OneCreator
  <2>3. c \in enqueued[w] => \E q \in CommandRequests : Creates(q, c) /\ commandJob[q].worker = w
    BY <2>1 DEF CommandsInv, CommandJobsInv, OneCreator
  <2>4. \A p, q \in CommandRequests : Creates(p, c) /\ Creates(q, c) => p = q
    BY <2>1 DEF CommandsInv, CommandJobsInv, OneCreator
  <2> QED
    BY <2>2, <2>3, <2>4
<1> QED
  BY <1>1, CommandsInvariance, PTL

\* The three facts about a command, its log, the agent and the queues, together.
THEOREM CommandsSound == CommandsSpec => []CommandsAreSound
BY LogsTellTheState, AuthorizationFirst, CommandsQueueOnce, PTL DEF CommandsAreSound

\* The row of a command, the last time it was written, leaves its lifecycle only under a
\* handler that had read another state than the one it overwrites, or when the session that
\* wrote it ends without a COMMIT.
THEOREM CommandsBreakOnlyByRace == CommandsSpec => OnlyStaleWritesBreakCommands
<1>1. ASSUME CommandsInv, [CommandsNext]_commandVars PROVE [OnlyStaleCommandWritesStep]_commandVars
  <2> SUFFICES ASSUME CommandsNext, NEW c \in Commands
               PROVE  \/ LatestState(c)' = LatestState(c)
                      \/ LatestState(c) = "absent" /\ LatestState(c)' = "created"
                      \/ <<LatestState(c), LatestState(c)'>> \in LegalMoves
                      \/ \E q \in CommandRequests :
                            /\ commandJob[q].pc = "write" /\ commandJob'[q].pc = "log"
                            /\ commandJob[q].command = c /\ commandJob[q].seen # LatestState(c)
                      \/ uncommitted[c].by # NoOne /\ LatestState(c)' = state[c] /\ state'[c] = state[c]
    BY <1>1 DEF OnlyStaleCommandWritesStep
  <2>1. ASSUME NEW q \in CommandRequests, WriteState(q), commandJob[q].command = c
        PROVE  \/ LatestState(c) = "absent" /\ LatestState(c)' = "created"
               \/ <<LatestState(c), LatestState(c)'>> \in LegalMoves
               \/ /\ commandJob[q].pc = "write" /\ commandJob'[q].pc = "log"
                  /\ commandJob[q].command = c /\ commandJob[q].seen # LatestState(c)
    <3>1. PICK v \in CommandWorkers, to \in CommandState, seen \in CommandState \cup {"absent"} :
              v = commandJob[q].worker /\ to = commandJob[q].to /\ seen = commandJob[q].seen
      BY <1>1, <2>1, CommandMoves DEF CommandStep, CommandJobType
    <3>2. <<seen, to>> \in LegalMoves \cup {<<"absent", "created">>}
      BY <1>1, <2>1, <3>1 DEF WriteState, Reaches, LiveRequest, CommandsInv, CommandJobsInv, CommandJobsAreSound
    <3>3. LatestState(c)' = to
      BY <1>1, <2>1, <3>1, CommandsAssumption DEF WriteState, LatestState, CommandsInv, CommandsTypeOK
    <3>4. commandJob[q].pc = "write" /\ commandJob'[q].pc = "log"
      BY <1>1, <2>1 DEF WriteState, Reaches, CommandsInv, CommandsTypeOK, CommandJobType
    <3> QED
      BY <2>1, <3>1, <3>2, <3>3, <3>4
  <2>2. ASSUME NEW w \in CommandWorkers, NEW q, SaveAll(w, q) PROVE LatestState(c)' = LatestState(c)
    BY <2>2, CommandsAssumption DEF SaveAll, Close, OpenOf, SeenState, LatestState, Saved
  <2>3. ASSUME NEW w \in CommandWorkers, LoseAll(w)
        PROVE  \/ LatestState(c)' = LatestState(c)
               \/ uncommitted[c].by # NoOne /\ LatestState(c)' = state[c] /\ state'[c] = state[c]
    BY <2>3, CommandsAssumption DEF LoseAll, Close, OpenOf, LatestState, Saved
  <2>4. ASSUME UNCHANGED <<state, uncommitted>> PROVE LatestState(c)' = LatestState(c)
    BY <2>4 DEF LatestState
  <2>5. ASSUME NEW q \in CommandRequests, WriteState(q), commandJob[q].command # c
        PROVE  LatestState(c)' = LatestState(c)
    BY <1>1, <2>5 DEF WriteState, LatestState, CommandsInv, CommandsTypeOK
  <2>6. ASSUME NEW q \in CommandRequests, LogState(q) PROVE LatestState(c)' = LatestState(c)
    <3>1. PICK w \in CommandWorkers : w = commandJob[q].worker
      BY <1>1, <2>6, CommandMoves DEF CommandStep
    <3>2. SaveAll(w, q)
      BY <2>6, <3>1 DEF LogState
    <3> QED
      BY <2>2, <3>2
  <2>7. ASSUME NEW q \in CommandRequests, Check(q) \/ Enqueue(q) \/ Fail(q) PROVE UNCHANGED <<state, uncommitted>>
    BY <2>7 DEF Check, Enqueue, Fail, commandTable, rowOfCommand
  <2>8. ASSUME NEW r \in CommandRequests, NEW d \in Commands, NEW v \in CommandWorkers, CommandArrival(r, d, v)
        PROVE  UNCHANGED <<state, uncommitted>>
    BY <1>1, <2>8, CommandArrives DEF commandTable, rowOfCommand
  <2>9. ASSUME NEW w \in CommandWorkers, SessionCommits(w) PROVE LatestState(c)' = LatestState(c)
    BY <2>2, <2>9 DEF SessionCommits
  <2>10. ASSUME NEW w \in CommandWorkers, SessionFails(w) \/ RestartWorker(w) PROVE LoseAll(w)
    BY <2>10 DEF SessionFails, RestartWorker
  <2>11. ASSUME NEW w \in CommandWorkers, Poll(w) PROVE UNCHANGED <<state, uncommitted>>
    BY <2>11 DEF Poll, commandTable, rowOfCommand
  <2> QED
    BY <2>1, <2>3, <2>4, <2>5, <2>6, <2>7, <2>8, <2>9, <2>10, <2>11 DEF CommandsNext, CommandArrival
<1> QED
  BY <1>1, CommandsInvariance, PTL DEF CommandsSpec, OnlyStaleWritesBreakCommands
-----------------------------------------------------------------------------
(* A command whose requests came one at a time.                            *)

LegalPath(s) == \A i \in 1 .. Len(s) - 1 : <<s[i], s[i + 1]>> \in LegalMoves
AtRest(c) ==
    /\ uncommitted[c].by = NoOne /\ state[c] \in {"absent", "queued", "ready", "cancelled"}
    /\ EndsWith(c, state[c])

\* Where the one handler at work on a command has got it, as the session of its worker sees it.
MidMove(pc, to, w, c) ==
    /\ pc # "log" => uncommitted[c].by = NoOne /\ EndsWith(c, state[c])
    /\ pc = "check" => state[c] = "created"
    /\ pc = "enqueue" => state[c] = "queued"
    /\ pc = "write" => <<state[c], to>> \in LegalMoves \cup {<<"absent", "created">>}
    /\ pc = "log" => /\ uncommitted[c].by \in {NoOne, w} /\ SeenState(w, c) = to
                     /\ LegalPath(Append(log[c], to))

WorksOn(q, c) == LiveRequest(q) /\ commandJob[q].command = c
CommandAlone(q, c) == \A p \in CommandRequests : WorksOn(p, c) => p = q
OnItsWay(q, c) ==
    \A w \in CommandWorkers : \A pc, to :
        /\ commandJob[q].worker = w /\ commandJob[q].pc = pc /\ commandJob[q].to = to
        /\ w \notin failing \/ pc = "enqueue"
        => MidMove(pc, to, w, c)
CommandsOrderly(c) ==
    c \notin disturbedCommands =>
        /\ LegalPath(log[c])
        /\ ~CommandCrossing(c) => AtRest(c)
        /\ \A q \in CommandRequests : WorksOn(q, c) => CommandAlone(q, c) /\ OnItsWay(q, c)

\* What there is of a command, its creation has begun.
Known(c) == state[c] # "absent" \/ uncommitted[c].by # NoOne \/ CommandCrossing(c)
KnownAreCreated == \A c \in Commands : Known(c) => \E q \in CommandRequests : Creates(q, c)

CommandOrderInv == KnownAreCreated /\ \A c \in Commands : CommandsOrderly(c)

\* What moves is not the command, as the one at work on it sees it.
Untouched(c) ==
    /\ log'[c] = log[c]
    /\ uncommitted[c].by = NoOne => uncommitted'[c].by = NoOne /\ state'[c] = state[c]
    /\ \A v \in CommandWorkers :
          uncommitted[c].by \in {NoOne, v} /\ v \notin failing' /\ (\E q \in CommandRequests : WorksOn(q, c) /\ commandJob[q].worker = v) =>
              uncommitted'[c].by \in {NoOne, v} /\ SeenState(v, c)' = SeenState(v, c) /\ v \notin failing

LEMMA UntouchedMidMove ==
    ASSUME NEW c \in Commands, NEW w \in CommandWorkers, NEW pc, NEW to, Untouched(c), MidMove(pc, to, w, c),
           pc = "log" => w \notin failing' /\ \E q \in CommandRequests : WorksOn(q, c) /\ commandJob[q].worker = w
    PROVE  MidMove(pc, to, w, c)'
<1>1. CASE pc = "log"
  <2>1. /\ uncommitted'[c].by \in {NoOne, w} /\ SeenState(w, c)' = SeenState(w, c) /\ log'[c] = log[c]
        /\ SeenState(w, c) = to /\ LegalPath(Append(log[c], to))
    BY <1>1 DEF Untouched, MidMove
  <2>2. LegalPath(Append(log'[c], to))
    BY <2>1
  <2> QED
    BY <1>1, <2>1, <2>2 DEF MidMove, LegalPath
<1>2. CASE pc # "log"
  BY <1>2 DEF Untouched, MidMove, EndsWith
<1> QED
  BY <1>1, <1>2

\* Nothing of the command moves.
LEMMA ElsewhereCommands ==
    ASSUME NEW c \in Commands, CommandsOrderly(c), Untouched(c),
           c \in disturbedCommands => c \in disturbedCommands',
           \A q \in CommandRequests : WorksOn(q, c)' <=> WorksOn(q, c),
           \A q \in CommandRequests : WorksOn(q, c) => commandJob'[q] = commandJob[q],
           \A v \in CommandWorkers : v \notin failing' => v \notin failing \/ ~\E q \in CommandRequests : WorksOn(q, c) /\ commandJob[q].worker = v
    PROVE  CommandsOrderly(c)'
<1> SUFFICES ASSUME c \notin disturbedCommands'
             PROVE  /\ LegalPath(log[c])' /\ (~CommandCrossing(c)' => AtRest(c)')
                    /\ \A q \in CommandRequests : WorksOn(q, c)' => CommandAlone(q, c)' /\ OnItsWay(q, c)'
  BY DEF CommandsOrderly
<1>1. CommandCrossing(c)' <=> CommandCrossing(c)
  BY DEF CommandCrossing, WorksOn
<1>2. LegalPath(log[c]) /\ (~CommandCrossing(c) => AtRest(c))
  BY DEF CommandsOrderly
<1>3. LegalPath(log[c])'
  BY <1>2 DEF LegalPath, Untouched
<1>4. AtRest(c) => AtRest(c)'
  BY DEF AtRest, Untouched, EndsWith
<1>5. ASSUME NEW q \in CommandRequests, WorksOn(q, c)' PROVE CommandAlone(q, c)' /\ OnItsWay(q, c)'
  <2>1. CommandAlone(q, c) /\ OnItsWay(q, c) /\ WorksOn(q, c) /\ commandJob'[q] = commandJob[q]
    BY <1>5 DEF CommandsOrderly
  <2>2. CommandAlone(q, c)'
    BY <2>1 DEF CommandAlone
  <2>3. OnItsWay(q, c)'
    <3> SUFFICES ASSUME NEW w \in CommandWorkers, NEW pc, NEW to,
                        commandJob'[q].worker = w, commandJob'[q].pc = pc, commandJob'[q].to = to,
                        w \notin failing' \/ pc = "enqueue"
                 PROVE  MidMove(pc, to, w, c)'
      BY DEF OnItsWay
    <3>1. commandJob[q].worker = w /\ commandJob[q].pc = pc /\ commandJob[q].to = to
      BY <2>1
    <3>2. w \notin failing \/ pc = "enqueue"
      BY <2>1, <3>1
    <3>3. MidMove(pc, to, w, c)
      BY <2>1, <3>1, <3>2 DEF OnItsWay
    <3> QED
      BY <2>1, <3>1, <3>3, UntouchedMidMove
  <2> QED
    BY <2>2, <2>3
<1> QED
  BY <1>1, <1>2, <1>3, <1>4, <1>5

\* One handler moves, the only one at work on the command then.
LEMMA OneCommandMoves ==
    ASSUME NEW c \in Commands, NEW q \in CommandRequests, LegalPath(log[c])',
           \A p \in CommandRequests : p # q => ~WorksOn(p, c)',
           WorksOn(q, c)' => OnItsWay(q, c)',
           ~WorksOn(q, c)' => AtRest(c)'
    PROVE  CommandsOrderly(c)'
<1>1. CommandCrossing(c)' <=> WorksOn(q, c)'
  BY DEF CommandCrossing, WorksOn
<1>2. CommandAlone(q, c)'
  BY DEF CommandAlone
<1>3. \A p \in CommandRequests : WorksOn(p, c)' => p = q
  OBVIOUS
<1> QED
  BY <1>1, <1>2, <1>3 DEF CommandsOrderly

LEMMA PathGrows ==
    ASSUME NEW s \in Seq(CommandState), LegalPath(s), NEW x \in CommandState,
           s # <<>> => <<s[Len(s)], x>> \in LegalMoves
    PROVE  LegalPath(Append(s, x))
<1>1. PICK t : t = Append(s, x)
  OBVIOUS
<1>2. /\ Len(t) = Len(s) + 1 /\ Len(s) \in Nat /\ t[Len(s) + 1] = x
      /\ \A i \in 1 .. Len(s) : t[i] = s[i]
  BY <1>1
<1>3. ASSUME NEW i \in 1 .. Len(t) - 1 PROVE <<t[i], t[i + 1]>> \in LegalMoves
  <2>1. i \in 1 .. Len(s)
    BY <1>2
  <2>2. CASE i < Len(s)
    <3>1. i \in 1 .. Len(s) - 1 /\ i + 1 \in 1 .. Len(s)
      BY <1>2, <2>1, <2>2
    <3> QED
      BY <1>2, <2>1, <3>1 DEF LegalPath
  <2>3. CASE i = Len(s)
    <3>1. s # <<>>
      BY <2>1, <2>3
    <3> QED
      BY <1>2, <2>1, <2>3, <3>1
  <2> QED
    BY <1>2, <2>1, <2>2, <2>3
<1> QED
  BY <1>1, <1>3 DEF LegalPath

LEMMA InitCommandOrder == CommandsInit => CommandOrderInv
<1> SUFFICES ASSUME CommandsInit, NEW c \in Commands
             PROVE  CommandsOrderly(c) /\ (Known(c) => \E q \in CommandRequests : Creates(q, c))
  BY DEF CommandOrderInv, KnownAreCreated
<1>1. \A q \in CommandRequests : ~WorksOn(q, c)
  BY DEF CommandsInit, WorksOn, LiveRequest, NoCommandJob
<1>2. AtRest(c) /\ LegalPath(log[c]) /\ ~Known(c)
  <2>1. ~CommandCrossing(c)
    BY <1>1 DEF CommandCrossing, WorksOn
  <2>2. uncommitted[c] = Saved /\ state[c] = "absent" /\ log[c] = <<>>
    BY DEF CommandsInit
  <2> QED
    BY <2>1, <2>2 DEF AtRest, LegalPath, EndsWith, Known, Saved
<1> QED
  BY <1>1, <1>2 DEF CommandsOrderly

\* What is known stays known as created.
LEMMA KnownStays == ASSUME CommandsInv, KnownAreCreated, CommandsNext PROVE KnownAreCreated'
<1> SUFFICES ASSUME NEW c \in Commands, Known(c)' PROVE \E q \in CommandRequests : Creates(q, c)'
  BY DEF KnownAreCreated
<1>1. ASSUME NEW q \in CommandRequests, Creates(q, c) PROVE Creates(q, c)'
  <2>1. ASSUME NEW r \in CommandRequests, CommandStep(r) PROVE Creates(q, c)'
    <3>1. CASE r = q
      <4>1. Onward(q, commandJob[q].command, commandJob[q].worker, commandJob[q].to, commandJob[q].pc)
        BY <2>1, <3>1, CommandMoves
      <4> QED
        BY <1>1, <4>1 DEF Onward, Creates
    <3>2. CASE r # q
      BY <1>1, <2>1, <3>2, CommandMoves DEF Creates
    <3> QED
      BY <3>1, <3>2
  <2>2. ASSUME NEW r \in CommandRequests, NEW d \in Commands, NEW v \in CommandWorkers, CommandArrival(r, d, v)
        PROVE  Creates(q, c)'
    <3>1. r # q
      <4>1. commandJob[r].command = NoOne
        BY <2>2, CommandArrives DEF Arrived
      <4> QED
        BY <1>1, <4>1, CommandsAssumption DEF Creates
    <3> QED
      BY <1>1, <2>2, <3>1, CommandArrives DEF Creates
  <2>3. ASSUME NEW w \in CommandWorkers, SessionStep(w) PROVE Creates(q, c)'
    <3>1. CASE RestartWorker(w)
      BY <1>1, <3>1, DeathEnds DEF Creates
    <3>2. CASE ~RestartWorker(w)
      BY <1>1, <2>3, <3>2 DEF SessionStep, SessionCommits, SessionFails, Poll, Creates
    <3> QED
      BY <3>1, <3>2
  <2> QED
    BY <2>1, <2>2, <2>3 DEF CommandsNext, CommandStep, CommandArrival, SessionStep
<1>2. Known(c) => \E q \in CommandRequests : Creates(q, c)'
  BY <1>1 DEF KnownAreCreated
<1>3. ASSUME NEW q \in CommandRequests, WorksOn(q, c)', ~WorksOn(q, c), ~Known(c) PROVE Creates(q, c)'
  <2>1. ASSUME NEW r \in CommandRequests, CommandStep(r) PROVE FALSE
    <3>1. CASE r = q
      <4>1. Onward(q, commandJob[q].command, commandJob[q].worker, commandJob[q].to, commandJob[q].pc) /\ LiveRequest(q)
        BY <2>1, <3>1, CommandMoves
      <4> QED
        BY <1>3, <4>1 DEF Onward, WorksOn
    <3>2. CASE r # q
      BY <1>3, <2>1, <3>2, CommandMoves DEF WorksOn, LiveRequest
    <3> QED
      BY <3>1, <3>2
  <2>2. ASSUME NEW r \in CommandRequests, NEW d \in Commands, NEW v \in CommandWorkers, CommandArrival(r, d, v)
        PROVE  Creates(q, c)'
    <3>1. r = q
      BY <1>3, <2>2, CommandArrives DEF WorksOn, LiveRequest
    <3>2. PICK p \in {"write", "refused"}, to \in {"created", "authorized", "cancelled"} : Arrived(q, d, v, p, to)
      BY <2>2, <3>1, CommandArrives
    <3>3. d = c /\ p = "write" /\ commandJob'[q].to = to /\ commandJob'[q].command = c
      BY <1>3, <3>2 DEF Arrived, WorksOn, LiveRequest
    <3>4. to = "created"
      <4>1. to # "created" => SeenState(v, c) # "absent"
        BY <3>2, <3>3 DEF Arrived
      <4>2. SeenState(v, c) = "absent"
        BY <1>3, CommandsAssumption DEF Known, SeenState
      <4> QED
        BY <4>1, <4>2
    <3> QED
      BY <3>3, <3>4 DEF Creates
  <2>3. ASSUME NEW w \in CommandWorkers, SessionStep(w) PROVE FALSE
    <3>1. CASE RestartWorker(w)
      <4>1. /\ commandJob'[q].command = commandJob[q].command
            /\ IF LiveRequest(q) /\ commandJob[q].worker = w THEN commandJob'[q].pc = "failed"
                                                            ELSE commandJob'[q] = commandJob[q]
        BY <3>1, DeathEnds
      <4> QED
        BY <1>3, <4>1 DEF WorksOn, LiveRequest
    <3>2. CASE ~RestartWorker(w)
      BY <1>3, <2>3, <3>2 DEF SessionStep, SessionCommits, SessionFails, Poll, WorksOn, LiveRequest
    <3> QED
      BY <3>1, <3>2
  <2> QED
    BY <2>1, <2>2, <2>3 DEF CommandsNext, CommandStep, CommandArrival, SessionStep
<1>4. CASE CommandCrossing(c)' /\ ~Known(c)
  <2>1. PICK q \in CommandRequests : WorksOn(q, c)'
    BY <1>4 DEF CommandCrossing, WorksOn
  <2>2. ~WorksOn(q, c)
    BY <1>4 DEF Known, CommandCrossing, WorksOn
  <2> QED
    BY <1>3, <1>4, <2>1, <2>2
<1>5. CASE ~CommandCrossing(c)' /\ ~Known(c)
  <2>1. state[c] = "absent" /\ uncommitted[c].by = NoOne
    BY <1>5 DEF Known
  <2>2. ~\E q \in CommandRequests : WriteState(q) /\ commandJob[q].command = c
    BY <1>5 DEF Known, CommandCrossing, WriteState, Reaches, LiveRequest
  <2>3. uncommitted'[c].by = NoOne
    BY <2>1, <2>2, RowMoves DEF Saved
  <2>4. state'[c] = "absent"
    BY <2>1, RowMoves, CommandsAssumption
  <2> QED
    BY <1>5, <2>3, <2>4 DEF Known
<1> QED
  BY <1>2, <1>4, <1>5


\* A COMMIT and a loss move nothing of a command, as a handler that goes on sees it.
LEMMA SaveUntouched ==
    ASSUME CommandsInv, NEW w \in CommandWorkers, NEW q, SaveAll(w, q), failing' = failing,
           NEW c \in Commands, log'[c] = log[c]
    PROVE  Untouched(c)
<1>1. /\ state'[c] = SeenState(w, c) /\ w # NoOne
      /\ uncommitted'[c] = IF uncommitted[c].by = w THEN Saved ELSE uncommitted[c]
  BY CommandsAssumption DEF SaveAll, Close, OpenOf
<1>2. uncommitted[c].by = NoOne => uncommitted'[c].by = NoOne /\ state'[c] = state[c]
  BY <1>1 DEF SeenState
<1>3. ASSUME NEW v \in CommandWorkers, uncommitted[c].by \in {NoOne, v}
      PROVE  uncommitted'[c].by \in {NoOne, v} /\ SeenState(v, c)' = SeenState(v, c)
  <2>1. v # NoOne
    BY CommandsAssumption
  <2>2. CASE uncommitted[c].by = w
    BY <1>1, <1>3, <2>1, <2>2 DEF SeenState, Saved
  <2>3. CASE uncommitted[c].by # w
    BY <1>1, <1>3, <2>3 DEF SeenState
  <2> QED
    BY <2>2, <2>3
<1> QED
  BY <1>2, <1>3 DEF Untouched

LEMMA LossUntouched ==
    ASSUME CommandsInv, NEW w \in CommandWorkers, SessionFails(w) \/ RestartWorker(w), NEW c \in Commands,
           RestartWorker(w) => \A q \in CommandRequests : WorksOn(q, c) => commandJob[q].worker # w
    PROVE  Untouched(c)
<1>1. /\ state' = state /\ log' = log /\ w # NoOne
      /\ uncommitted'[c] = IF uncommitted[c].by = w THEN Saved ELSE uncommitted[c]
  BY CommandsAssumption DEF SessionFails, RestartWorker, LoseAll, Close, OpenOf
<1>2. ASSUME NEW v \in CommandWorkers, v \notin failing', NEW q \in CommandRequests, WorksOn(q, c), commandJob[q].worker = v
      PROVE  v # w /\ v \notin failing
  BY <1>2 DEF SessionFails, RestartWorker
<1>3. ASSUME NEW v \in CommandWorkers, uncommitted[c].by \in {NoOne, v}, v # w
      PROVE  uncommitted'[c].by \in {NoOne, v} /\ SeenState(v, c)' = SeenState(v, c)
  BY <1>1, <1>3 DEF SeenState
<1> QED
  BY <1>1, <1>2, <1>3 DEF Untouched

\* What a handler's steps leave of another command.
LEMMA StepElsewhereCommands ==
    ASSUME CommandsInv, NEW q \in CommandRequests, CommandStep(q), NEW c \in Commands, commandJob[q].command # c
    PROVE  Untouched(c)
<1>0. PICK d \in Commands, w \in CommandWorkers : d = commandJob[q].command /\ w = commandJob[q].worker
  BY CommandMoves
<1>1. CASE LogState(q)
  <2>1. SaveAll(w, q) /\ failing' = failing
    BY <1>0, <1>1 DEF LogState
  <2>2. log'[c] = log[c]
    BY <1>1 DEF LogState, CommandsInv, CommandsTypeOK
  <2> QED
    BY <2>1, <2>2, SaveUntouched
<1>2. CASE ~LogState(q)
  <2>1. uncommitted'[c] = uncommitted[c] /\ state' = state /\ log' = log /\ failing' = failing
    BY <1>2 DEF CommandStep, WriteState, Check, Enqueue, Fail, commandTable, rowOfCommand, CommandsInv, CommandsTypeOK
  <2>2. \A v : SeenState(v, c)' = SeenState(v, c)
    BY <2>1 DEF SeenState
  <2> QED
    BY <2>1, <2>2 DEF Untouched
<1> QED
  BY <1>1, <1>2

\* What they do to their own, when nobody else is at work on it.
LEMMA StepHereCommands ==
    ASSUME CommandsInv, NEW q \in CommandRequests, CommandStep(q), NEW c \in Commands, WorksOn(q, c),
           LegalPath(log[c]), OnItsWay(q, c), c \notin disturbedCommands'
    PROVE  /\ LegalPath(log[c])'
           /\ WorksOn(q, c)' => OnItsWay(q, c)'
           /\ ~WorksOn(q, c)' => AtRest(c)'
<1>0. PICK w \in CommandWorkers, j \in CommandJobType :
          w = commandJob[q].worker /\ j = commandJob[q] /\ j.command = c /\ j.worker = w
          /\ j.to \in {"created", "queued", "authorized", "ready", "cancelled"}
  BY CommandMoves DEF WorksOn, CommandPlaces
<1>1. ~Fail(q)
  BY DEF Fail, WorksOn
<1>2. w \notin failing \/ j.pc = "enqueue"
  BY <1>0, <1>1 DEF CommandStep, WriteState, LogState, Check, Enqueue, MayEnqueue, Reaches
<1>3. MidMove(j.pc, j.to, w, c)
  BY <1>0, <1>2 DEF OnItsWay
<1>4. /\ log \in [Commands -> Seq(CommandState)] /\ state \in [Commands -> CommandState \cup {"absent"}]
      /\ uncommitted \in [Commands -> UncommittedType] /\ commandJob \in [CommandRequests -> CommandJobType]
      /\ w # NoOne
  BY CommandsAssumption DEF CommandsInv, CommandsTypeOK
<1>5. commandJob'[q].command = c /\ commandJob'[q].worker = w
  BY <1>0, CommandMoves DEF Onward
\* Two ways to reach the claim.
<1>6. ASSUME LegalPath(log[c])', LiveRequest(q)', NEW pc, NEW to, commandJob'[q].pc = pc, commandJob'[q].to = to,
             MidMove(pc, to, w, c)'
      PROVE  LegalPath(log[c])' /\ WorksOn(q, c)' /\ OnItsWay(q, c)'
  BY <1>5, <1>6 DEF WorksOn, OnItsWay
<1>7. ASSUME LegalPath(log[c])', ~LiveRequest(q)', AtRest(c)'
      PROVE  LegalPath(log[c])' /\ ~WorksOn(q, c)' /\ AtRest(c)'
  BY <1>7 DEF WorksOn
<1>8. CASE WriteState(q)
  <2>1. /\ j.pc = "write" /\ uncommitted[c].by = NoOne /\ EndsWith(c, state[c])
        /\ <<state[c], j.to>> \in LegalMoves \cup {<<"absent", "created">>}
    BY <1>0, <1>3, <1>8 DEF WriteState, Reaches, MidMove
  <2>2. /\ uncommitted'[c] = [by |-> w, state |-> j.to] /\ log' = log
        /\ commandJob'[q].pc = "log" /\ commandJob'[q].to = j.to
    BY <1>0, <1>4, <1>8 DEF WriteState, CommandJobType
  <2>3. LegalPath(Append(log[c], j.to))
    <3>1. log[c] # <<>> => <<log[c][Len(log[c])], j.to>> \in LegalMoves
      BY <2>1 DEF EndsWith
    <3> QED
      BY <1>0, <1>4, <3>1, PathGrows DEF CommandJobType
  <2>4. SeenState(w, c)' = j.to /\ uncommitted'[c].by = w
    BY <2>2 DEF SeenState
  <2>5. LegalPath(log[c])' /\ LegalPath(Append(log'[c], j.to))
    BY <2>2, <2>3 DEF LegalPath
  <2>6. MidMove("log", j.to, w, c)'
    BY <2>4, <2>5 DEF MidMove, LegalPath
  <2> QED
    BY <1>6, <2>2, <2>5, <2>6 DEF LiveRequest
<1>9. CASE LogState(q)
  <2>1. /\ j.pc = "log" /\ uncommitted[c].by \in {NoOne, w} /\ SeenState(w, c) = j.to
        /\ LegalPath(Append(log[c], j.to))
    BY <1>0, <1>3, <1>9 DEF LogState, Reaches, MidMove
  <2>2. SaveAll(w, q) /\ log' = [log EXCEPT ![c] = Logged(c, j.to)] /\ commandJob'[q] = After(j)
    BY <1>0, <1>4, <1>9 DEF LogState
  <2>3. /\ state'[c] = j.to /\ uncommitted'[c].by = NoOne
    BY <1>4, <2>1, <2>2 DEF SaveAll, Close, OpenOf, Saved
  <2>4. log'[c] = Append(log[c], j.to)
    BY <1>4, <2>2 DEF Logged
  <2>5. LegalPath(log[c])'
    BY <2>1, <2>4 DEF LegalPath
  <2>6. EndsWith(c, state[c])'
    <3>1. PICK to \in CommandState : to = j.to /\ to # "absent"
      BY <1>0 DEF CommandState
    <3>2. Append(log[c], to) # <<>> /\ Append(log[c], to)[Len(Append(log[c], to))] = to
      BY <1>4, LongerLog
    <3> QED
      BY <2>3, <2>4, <3>1, <3>2 DEF EndsWith
  <2>7. CASE j.to = "created"
    <3>1. commandJob'[q].pc = "check" /\ commandJob'[q].to = "queued"
      BY <1>0, <2>2, <2>7, AfterJob
    <3>2. MidMove("check", "queued", w, c)'
      BY <2>3, <2>6, <2>7 DEF MidMove
    <3> QED
      BY <1>6, <2>5, <3>1, <3>2 DEF LiveRequest
  <2>8. CASE j.to = "queued"
    <3>1. commandJob'[q].pc = "enqueue" /\ commandJob'[q].to = "queued"
      BY <1>0, <2>2, <2>8, AfterJob
    <3>2. MidMove("enqueue", "queued", w, c)'
      BY <2>3, <2>6, <2>8 DEF MidMove
    <3> QED
      BY <1>6, <2>5, <3>1, <3>2 DEF LiveRequest
  <2>9. CASE j.to = "authorized"
    <3>1. commandJob'[q].pc = "write" /\ commandJob'[q].to = "ready"
      BY <1>0, <2>2, <2>9, AfterJob
    <3>2. MidMove("write", "ready", w, c)'
      BY <2>3, <2>6, <2>9 DEF MidMove, LegalMoves
    <3> QED
      BY <1>6, <2>5, <3>1, <3>2 DEF LiveRequest
  <2>10. CASE j.to \in {"ready", "cancelled"}
    <3>1. commandJob'[q].pc = "done"
      BY <1>0, <2>2, <2>10, AfterJob
    <3>2. AtRest(c)'
      BY <2>3, <2>6, <2>10 DEF AtRest
    <3> QED
      BY <1>7, <2>5, <3>1, <3>2 DEF LiveRequest
  <2> QED
    BY <1>0, <2>7, <2>8, <2>9, <2>10
<1>10. CASE Check(q)
  <2>1. j.pc = "check" /\ uncommitted[c].by = NoOne /\ EndsWith(c, state[c]) /\ state[c] = "created" /\ w \notin failing
    BY <1>0, <1>3, <1>10 DEF Check, Reaches, MidMove
  <2>2. UNCHANGED <<state, uncommitted, log>>
    BY <1>10 DEF Check, commandTable, rowOfCommand
  <2>3. SeenState(w, c) = "created"
    BY <1>4, <2>1 DEF SeenState
  <2>4. commandJob'[q].pc = "write" /\ commandJob'[q].to = "queued"
    BY <1>0, <1>4, <1>10, <2>1, <2>3 DEF Check, Read, MayMove, LegalMoves
  <2>5. MidMove("write", "queued", w, c)'
    BY <2>1, <2>2 DEF MidMove, LegalMoves, EndsWith
  <2>6. LegalPath(log[c])'
    BY <2>2 DEF LegalPath
  <2> QED
    BY <1>6, <2>4, <2>5, <2>6 DEF LiveRequest
<1>11. CASE Enqueue(q)
  <2>1. j.pc = "enqueue" /\ uncommitted[c].by = NoOne /\ EndsWith(c, state[c]) /\ state[c] = "queued"
    BY <1>0, <1>3, <1>11 DEF Enqueue, MayEnqueue, MidMove
  <2>2. UNCHANGED <<state, uncommitted, log>> /\ commandJob'[q].pc = "done"
    BY <1>4, <1>11 DEF Enqueue, commandTable, rowOfCommand, CommandJobType
  <2>3. AtRest(c)' /\ LegalPath(log[c])'
    BY <2>1, <2>2 DEF AtRest, EndsWith, LegalPath
  <2> QED
    BY <1>7, <2>2, <2>3 DEF LiveRequest
<1> QED
  BY <1>1, <1>8, <1>9, <1>10, <1>11 DEF CommandStep


LEMMA StepsKeepCommandOrder ==
    ASSUME CommandsInv, CommandOrderInv, NEW q \in CommandRequests, CommandStep(q), NEW c \in Commands
    PROVE  CommandsOrderly(c)'
<1>1. CommandsOrderly(c) /\ LiveRequest(q)
  BY CommandMoves DEF CommandOrderInv
<1>2. c \in disturbedCommands => c \in disturbedCommands'
  BY DEF CommandStep, WriteState, LogState, Check, Enqueue, Fail
<1>3. failing' = failing
  BY DEF CommandStep, WriteState, LogState, Check, Enqueue, Fail, commandTable
<1>4. /\ \A r \in CommandRequests : r # q => commandJob'[r] = commandJob[r]
      /\ commandJob'[q].command = commandJob[q].command
  BY CommandMoves DEF Onward
<1>5. \A r \in CommandRequests : r # q => (WorksOn(r, c)' <=> WorksOn(r, c))
  BY <1>4 DEF WorksOn, LiveRequest
<1>6. CASE commandJob[q].command # c
  <2>1. Untouched(c)
    BY <1>6, StepElsewhereCommands
  <2>2. ~WorksOn(q, c) /\ ~WorksOn(q, c)'
    BY <1>4, <1>6 DEF WorksOn
  <2>3. /\ \A r \in CommandRequests : WorksOn(r, c)' <=> WorksOn(r, c)
        /\ \A r \in CommandRequests : WorksOn(r, c) => commandJob'[r] = commandJob[r]
    BY <1>4, <1>5, <2>2
  <2> QED
    BY <1>1, <1>2, <1>3, <2>1, <2>3, ElsewhereCommands
<1>7. CASE commandJob[q].command = c /\ c \notin disturbedCommands'
  <2>1. WorksOn(q, c) /\ LegalPath(log[c]) /\ CommandAlone(q, c) /\ OnItsWay(q, c)
    BY <1>1, <1>2, <1>7 DEF CommandsOrderly, WorksOn
  <2>2. \A p \in CommandRequests : p # q => ~WorksOn(p, c)'
    BY <1>5, <2>1 DEF CommandAlone
  <2>3. /\ LegalPath(log[c])'
        /\ WorksOn(q, c)' => OnItsWay(q, c)'
        /\ ~WorksOn(q, c)' => AtRest(c)'
    BY <1>7, <2>1, StepHereCommands
  <2> QED
    BY <2>2, <2>3, OneCommandMoves
<1>8. CASE c \in disturbedCommands'
  BY <1>8 DEF CommandsOrderly
<1> QED
  BY <1>6, <1>7, <1>8

\* A request that arrives where nobody is at work finds the command at rest, and a creation
\* finds nothing of it.
LEMMA ArrivalsKeepCommandOrder ==
    ASSUME CommandsInv, CommandOrderInv, NEW q \in CommandRequests, NEW d \in Commands, NEW v \in CommandWorkers,
           CommandArrival(q, d, v), NEW c \in Commands
    PROVE  CommandsOrderly(c)'
<1>1. UNCHANGED <<state, uncommitted, failing, log>>
  BY CommandArrives DEF commandTable, rowOfCommand
<1>2. PICK p \in {"write", "refused"}, to \in {"created", "authorized", "cancelled"} : Arrived(q, d, v, p, to)
  BY CommandArrives
<1>3. /\ commandJob[q].pc = "idle" /\ commandJob'[q].command = d /\ commandJob'[q].worker = v
      /\ commandJob'[q].pc = p /\ commandJob'[q].to = to
  BY <1>2 DEF Arrived
<1>4. \A r \in CommandRequests : r # q => commandJob'[r] = commandJob[r] /\ (WorksOn(r, c)' <=> WorksOn(r, c))
  BY CommandArrives DEF WorksOn, LiveRequest
<1>5. CommandsOrderly(c) /\ ~WorksOn(q, c) /\ (c \in disturbedCommands => c \in disturbedCommands')
  BY <1>2, <1>3 DEF CommandOrderInv, WorksOn, LiveRequest, Arrived
<1>6. Untouched(c)
  <2>1. \A w : SeenState(w, c)' = SeenState(w, c)
    BY <1>1 DEF SeenState
  <2> QED
    BY <1>1, <2>1 DEF Untouched
<1>7. CASE ~WorksOn(q, c)'
  <2>1. /\ \A r \in CommandRequests : WorksOn(r, c)' <=> WorksOn(r, c)
        /\ \A r \in CommandRequests : WorksOn(r, c) => commandJob'[r] = commandJob[r]
    BY <1>4, <1>5, <1>7
  <2> QED
    BY <1>1, <1>5, <1>6, <2>1, ElsewhereCommands
<1>8. CASE WorksOn(q, c)' /\ c \notin disturbedCommands'
  <2>1. d = c /\ p = "write" /\ c \notin disturbedCommands
    BY <1>3, <1>5, <1>8 DEF WorksOn, LiveRequest
  <2>2. ~CommandCrossing(c)
    <3>1. CASE to = "created"
      <4>1. ~\E r \in CommandRequests : Creates(r, c)
        BY <1>2, <2>1, <3>1 DEF Arrived, NewCommand, Creates
      <4> QED
        BY <4>1 DEF CommandOrderInv, KnownAreCreated, Known
    <3>2. CASE to # "created"
      BY <1>2, <1>8, <2>1, <3>2 DEF Arrived
    <3> QED
      BY <3>1, <3>2
  <2>3. LegalPath(log[c]) /\ AtRest(c)
    BY <1>5, <2>1, <2>2 DEF CommandsOrderly
  <2>4. \A r \in CommandRequests : r # q => ~WorksOn(r, c)'
    BY <1>4, <2>2 DEF CommandCrossing, WorksOn
  <2>5. <<state[c], to>> \in LegalMoves \cup {<<"absent", "created">>}
    <3>1. CASE to = "created"
      <4>1. ~\E r \in CommandRequests : Creates(r, c)
        BY <1>2, <2>1, <3>1 DEF Arrived, NewCommand, Creates
      <4>2. state[c] = "absent"
        BY <4>1 DEF CommandOrderInv, KnownAreCreated, Known
      <4> QED
        BY <3>1, <4>2
    <3>2. CASE to # "created"
      <4>1. <<commandJob'[q].seen, to>> \in LegalMoves /\ commandJob'[q].seen = SeenState(v, c)
        BY <1>2, <2>1, <3>2 DEF Arrived
      <4>2. SeenState(v, c) = state[c]
        BY <2>3, CommandsAssumption DEF SeenState, AtRest
      <4> QED
        BY <4>1, <4>2
    <3> QED
      BY <3>1, <3>2
  <2>6. MidMove("write", to, v, c)'
    BY <1>1, <2>3, <2>5 DEF MidMove, AtRest, EndsWith
  <2>7. OnItsWay(q, c)'
    BY <1>3, <2>1, <2>6 DEF OnItsWay
  <2>8. LegalPath(log[c])'
    BY <1>1, <2>3 DEF LegalPath
  <2> QED
    BY <1>8, <2>4, <2>7, <2>8, OneCommandMoves
<1>9. CASE c \in disturbedCommands'
  BY <1>9 DEF CommandsOrderly
<1> QED
  BY <1>7, <1>8, <1>9

LEMMA SessionsKeepCommandOrder ==
    ASSUME CommandsInv, CommandOrderInv, NEW w \in CommandWorkers, SessionStep(w), NEW c \in Commands
    PROVE  CommandsOrderly(c)'
<1>1. CommandsOrderly(c) /\ (c \in disturbedCommands => c \in disturbedCommands')
  BY DEF CommandOrderInv, SessionStep, SessionCommits, SessionFails, RestartWorker, Poll
<1>2. CASE SessionCommits(w)
  <2>1. Untouched(c) /\ failing' = failing /\ commandJob' = commandJob
    BY <1>2, SaveUntouched DEF SessionCommits
  <2>2. \A r \in CommandRequests : WorksOn(r, c)' <=> WorksOn(r, c)
    BY <2>1 DEF WorksOn, LiveRequest
  <2> QED
    BY <1>1, <2>1, <2>2, ElsewhereCommands
<1>3. CASE SessionFails(w)
  <2>1. Untouched(c)
    BY <1>3, LossUntouched DEF SessionFails, RestartWorker
  <2>2. failing \subseteq failing' /\ commandJob' = commandJob
    BY <1>3 DEF SessionFails
  <2>3. \A r \in CommandRequests : WorksOn(r, c)' <=> WorksOn(r, c)
    BY <2>2 DEF WorksOn, LiveRequest
  <2> QED
    BY <1>1, <2>1, <2>2, <2>3, ElsewhereCommands
<1>4. CASE RestartWorker(w) /\ \E r \in CommandRequests : WorksOn(r, c) /\ commandJob[r].worker = w
  <2>1. c \in disturbedCommands'
    BY <1>4 DEF RestartWorker, WorksOn
  <2> QED
    BY <2>1 DEF CommandsOrderly
<1>5. CASE RestartWorker(w) /\ \A r \in CommandRequests : WorksOn(r, c) => commandJob[r].worker # w
  <2>1. Untouched(c)
    BY <1>5, LossUntouched
  <2>2. ASSUME NEW r \in CommandRequests
        PROVE  /\ WorksOn(r, c)' <=> WorksOn(r, c)
               /\ WorksOn(r, c) => commandJob'[r] = commandJob[r]
    <3>1. /\ commandJob'[r].command = commandJob[r].command
          /\ IF LiveRequest(r) /\ commandJob[r].worker = w THEN commandJob'[r].pc = "failed"
                                                          ELSE commandJob'[r] = commandJob[r]
      BY <1>5, DeathEnds
    <3> QED
      BY <1>5, <3>1 DEF WorksOn, LiveRequest
  <2>3. \A v \in CommandWorkers : v \notin failing' => v \notin failing \/ v = w
    BY <1>5 DEF RestartWorker
  <2>4. \A v \in CommandWorkers : v \notin failing' =>
            v \notin failing \/ ~\E r \in CommandRequests : WorksOn(r, c) /\ commandJob[r].worker = v
    BY <1>5, <2>3
  <2> QED
    BY <1>1, <2>1, <2>2, <2>4, ElsewhereCommands
<1>6. CASE Poll(w)
  <2>1. UNCHANGED <<state, uncommitted, log, failing, commandJob, disturbedCommands>>
    BY <1>6 DEF Poll, commandTable, rowOfCommand
  <2>2. \A v : SeenState(v, c)' = SeenState(v, c)
    BY <2>1 DEF SeenState
  <2>3. Untouched(c) /\ \A r \in CommandRequests : WorksOn(r, c)' <=> WorksOn(r, c)
    BY <2>1, <2>2 DEF Untouched, WorksOn, LiveRequest
  <2> QED
    BY <1>1, <2>1, <2>3, ElsewhereCommands
<1> QED
  BY <1>2, <1>3, <1>4, <1>5, <1>6 DEF SessionStep

LEMMA NextCommandOrder == CommandsInv /\ CommandOrderInv /\ [CommandsNext]_commandVars => CommandOrderInv'
<1> SUFFICES ASSUME CommandsInv, CommandOrderInv, [CommandsNext]_commandVars PROVE CommandOrderInv'
  OBVIOUS
<1>1. CASE UNCHANGED commandVars
  <2>1. UNCHANGED <<state, uncommitted, log, failing, commandJob, disturbedCommands>>
    BY <1>1 DEF commandVars, commandTable, rowOfCommand
  <2>2. \A c, q : /\ WorksOn(q, c)' <=> WorksOn(q, c)
                  /\ Creates(q, c)' <=> Creates(q, c)
    BY <2>1 DEF WorksOn, LiveRequest, Creates
  <2>3. \A c : CommandCrossing(c)' <=> CommandCrossing(c)
    BY <2>1 DEF CommandCrossing, LiveRequest
  <2>4. KnownAreCreated'
    BY <2>1, <2>2, <2>3 DEF CommandOrderInv, KnownAreCreated, Known
  <2>5. ASSUME NEW c \in Commands PROVE CommandsOrderly(c)'
    <3>1. \A v : SeenState(v, c)' = SeenState(v, c)
      BY <2>1 DEF SeenState
    <3>2. Untouched(c)
      BY <2>1, <3>1 DEF Untouched
    <3> QED
      BY <2>1, <2>2, <3>2, ElsewhereCommands DEF CommandOrderInv
  <2> QED
    BY <2>4, <2>5 DEF CommandOrderInv
<1>2. CASE CommandsNext
  <2>1. KnownAreCreated'
    BY <1>2, KnownStays DEF CommandOrderInv
  <2>2. ASSUME NEW c \in Commands PROVE CommandsOrderly(c)'
    BY <1>2, StepsKeepCommandOrder, ArrivalsKeepCommandOrder, SessionsKeepCommandOrder
       DEF CommandsNext, CommandStep, CommandArrival, SessionStep
  <2> QED
    BY <2>1, <2>2 DEF CommandOrderInv
<1> QED
  BY <1>1, <1>2

\* Requests that came one at a time, and none of them cut off, leave a command waiting,
\* ready or cancelled, with a legal path to that state in its log.
THEOREM OrderLeavesSettled == CommandsSpec => []UndisturbedIsSettled
<1>1. CommandOrderInv => UndisturbedIsSettled
  BY DEF CommandOrderInv, CommandsOrderly, UndisturbedIsSettled, LegalPath, AtRest
<1>2. CommandsSpec => []CommandOrderInv
  BY InitCommandOrder, NextCommandOrder, CommandsInvariance, PTL DEF CommandsSpec
<1> QED
  BY <1>1, <1>2, PTL

=============================================================================
