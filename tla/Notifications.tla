--------------------------- MODULE Notifications ---------------------------
(***************************************************************************)
(* The notification engine of the management server:                       *)
(* management_server/src/management_server/notifications.                  *)
(*                                                                         *)
(* Rows and delivery results are in the database, the five queues in the   *)
(* memory of a worker process.  queue_notification() and dispatch() read   *)
(* the row, do their work, and write the row's status; the dispatcher's    *)
(* own loop takes from the queues and writes nothing.                      *)
(*                                                                         *)
(* Payloads are left out, and so are the retry policy and the count of     *)
(* attempts, which nothing reads.  A formatter that is not registered is   *)
(* replaced by the JSON one, so that formatting never fails.               *)
(***************************************************************************)
EXTENDS Naturals, Sequences

CONSTANTS Notes,             \* the notifications that may be created
          Calls,             \* the calls that may be made of the service and the dispatcher
          Destinations,      \* KNOWN_DESTINATIONS
          OddDestinations,   \* others a caller may name
          Levels,            \* the priorities of PRIORITY_LEVELS in use
          CustomAdapters,    \* destinations an adapter may be registered for
          NoNote             \* no notification

ASSUME NotificationsAssumption ==
    /\ NoNote \notin Notes
    /\ "normal" \in Levels
    /\ {"console", "archive", "none"} \subseteq Destinations
    /\ CustomAdapters \subseteq Destinations \cup OddDestinations

VARIABLES
    note,        \* note[n]: the row of notifications, status "absent" before the INSERT
    results,     \* results[n]: the statuses in delivery_results, oldest first
    queues,      \* queues[p]: NotificationQueue._queues
    adapters,    \* AdapterRegistry._adapters, by destination
    call,        \* call[c]: where the call c is
    \* History, read by the properties only:
    taken,       \* the notifications a drain took from a queue
    lost         \* those that were in a queue when the process ended

notificationVars == <<note, results, queues, adapters, call, taken, lost>>

NotificationStatus == {"pending", "queued", "dispatched", "delivered", "failed", "skipped"}
DeliveryResultStatus == {"success", "failed", "retry", "rate_limited", "skipped"}

\* PRIORITY_LEVELS, in the order in which dispatch_all() goes through them.
PriorityLevels == <<"immediate", "high", "normal", "low", "bulk">>

NoRow == [status |-> "absent", destination |-> "none", priority |-> "normal"]
NoCall == [pc |-> "idle", note |-> NoNote, result |-> "success", level |-> 0]

NotificationsInit ==
    /\ note = [n \in Notes |-> NoRow]
    /\ results = [n \in Notes |-> <<>>]
    /\ queues = [p \in Levels |-> <<>>]
    /\ adapters = {"console", "archive", "none"}
    /\ call = [c \in Calls |-> NoCall]
    /\ taken = {} /\ lost = {}

-----------------------------------------------------------------------------
Answered(c, pc) == call' = [call EXCEPT ![c] = [NoCall EXCEPT !.pc = pc]]

\* validate_notification, as far as what create() does not fill in itself.
ValidNote(destination, priority) ==
    destination \in Destinations /\ priority \in {PriorityLevels[i] : i \in 1 .. 5}

\* create_notification, and each round of replay(): validated, then one INSERT.
CreateNote(n, destination, priority) ==
    /\ note[n].status = "absent"
    /\ ValidNote(destination, priority)
    /\ note' = [note EXCEPT ![n] = [status |-> "pending", destination |-> destination,
                                    priority |-> priority]]
    /\ UNCHANGED <<results, queues, adapters, call, taken, lost>>

\* AdapterRegistry.register
RegisterAdapter(d) ==
    /\ d \notin adapters
    /\ adapters' = adapters \cup {d}
    /\ UNCHANGED <<note, results, queues, call, taken, lost>>

\* queue_notification up to the write: the queues have no bound, so that the put does not wait.
\* The queue is that of the argument, not that of the row.
QueueNote(c, n, p) ==
    /\ call[c].pc = "idle"
    /\ IF note[n].status = "absent" \/ p \notin Levels
       THEN Answered(c, "refused") /\ UNCHANGED queues
       ELSE /\ queues' = [queues EXCEPT ![p] = Append(@, n)]
            /\ call' = [call EXCEPT ![c] = [NoCall EXCEPT !.pc = "mark", !.note = n]]
    /\ UNCHANGED <<note, results, adapters, taken, lost>>

\* update_status: the row, whatever its status.
UpdateStatus(n, status) == note' = [note EXCEPT ![n].status = status]

MarkQueued(c) ==
    /\ call[c].pc = "mark"
    /\ UpdateStatus(call[c].note, "queued")
    /\ Answered(c, "done")
    /\ UNCHANGED <<results, queues, adapters, taken, lost>>

\* deliver() of the adapter for a destination, NoopAdapter if there is none; what a custom
\* adapter answers is its own affair.
Deliveries(destination) ==
    CASE destination \in {"console", "archive"} -> {"success"}
      [] destination \in adapters \ {"console", "archive", "none"} -> DeliveryResultStatus
      [] OTHER -> {"skipped"}

\* dispatch() up to the adapter's answer; it does not look at the queues.
Dispatch(c, n) ==
    /\ call[c].pc = "idle"
    /\ IF note[n].status = "absent" THEN Answered(c, "refused")
       ELSE \E result \in Deliveries(note[n].destination) :
                call' = [call EXCEPT ![c] = [NoCall EXCEPT !.pc = "save", !.note = n,
                                                           !.result = result]]
    /\ UNCHANGED <<note, results, queues, adapters, taken, lost>>

\* save_delivery_result, whatever the result, and then the status.
SaveResult(c) ==
    /\ call[c].pc = "save"
    /\ results' = [results EXCEPT ![call[c].note] = Append(@, call[c].result)]
    /\ call' = [call EXCEPT ![c].pc = "stamp"]
    /\ UNCHANGED <<note, queues, adapters, taken, lost>>
StampEarly(c) == call[c].pc \in {"save", "stamp"}
MayStamp(c) == call[c].pc = "stamp"
StampDispatched(c) ==
    /\ MayStamp(c)
    /\ UpdateStatus(call[c].note, "dispatched")
    /\ Answered(c, "done")
    /\ UNCHANGED <<results, queues, adapters, taken, lost>>

-----------------------------------------------------------------------------
\* dispatch_all: while the queue of a level has an item, dequeue_nowait and deliver; then the
\* next level.  Items that arrive at a level already left wait for the next call.
DispatchAll(c) ==
    /\ call[c].pc = "idle"
    /\ call' = [call EXCEPT ![c] = [NoCall EXCEPT !.pc = "drain", !.level = 1]]
    /\ UNCHANGED <<note, results, queues, adapters, taken, lost>>

Here(c) == PriorityLevels[call[c].level]
DrainOne(c) ==
    /\ call[c].pc = "drain"
    /\ Here(c) \in Levels /\ queues[Here(c)] # <<>>
    /\ queues' = [queues EXCEPT ![Here(c)] = Tail(@)]
    /\ taken' = taken \cup {Head(queues[Here(c)])}
    /\ UNCHANGED <<note, results, adapters, call, lost>>
NextLevel(c) ==
    /\ call[c].pc = "drain"
    /\ Here(c) \in Levels => queues[Here(c)] = <<>>
    /\ IF call[c].level = Len(PriorityLevels) THEN Answered(c, "done")
       ELSE call' = [call EXCEPT ![c].level = @ + 1]
    /\ UNCHANGED <<note, results, queues, adapters, taken, lost>>

\* The worker process ends: queues, registered adapters and calls are gone.
Waiting == {n \in Notes : \E p \in Levels : \E i \in DOMAIN queues[p] : queues[p][i] = n}
ProcessEnds ==
    /\ queues' = [p \in Levels |-> <<>>]
    /\ adapters' = {"console", "archive", "none"}
    /\ call' = [c \in Calls |-> IF call[c].pc = "idle" THEN call[c]
                                ELSE [NoCall EXCEPT !.pc = "done"]]
    /\ lost' = lost \cup Waiting
    /\ UNCHANGED <<note, results, taken>>

NotificationsNext ==
    \/ \E n \in Notes, d \in Destinations \cup OddDestinations, p \in Levels : CreateNote(n, d, p)
    \/ \E d \in CustomAdapters : RegisterAdapter(d)
    \/ \E c \in Calls, n \in Notes : \/ \E p \in Levels : QueueNote(c, n, p)
                                     \/ Dispatch(c, n)
    \/ \E c \in Calls : \/ MarkQueued(c) \/ SaveResult(c) \/ StampDispatched(c)
                        \/ DispatchAll(c) \/ DrainOne(c) \/ NextLevel(c)
    \/ ProcessEnds

NotificationsSpec == NotificationsInit /\ [][NotificationsNext]_notificationVars

-----------------------------------------------------------------------------
NotificationsTypeOK ==
    /\ \A n \in Notes :
        /\ note[n].status \in NotificationStatus \cup {"absent"}
        /\ note[n].destination \in Destinations
        /\ \A i \in DOMAIN results[n] : results[n][i] \in DeliveryResultStatus
    /\ \A p \in Levels : \A i \in DOMAIN queues[p] : queues[p][i] \in Notes
    /\ adapters \subseteq Destinations \cup OddDestinations
    /\ \A c \in Calls : call[c].note \in Notes \cup {NoNote} /\ call[c].level \in 0 .. 5
    /\ taken \cup lost \subseteq Notes

\* A status is earned, whatever crosses it: "dispatched" stands for a delivery result on file,
\* and "queued" for an item that is in a queue, was taken by a drain, or was lost with the
\* memory of a process.  queue_notification() and dispatch() order their two writes so.
StatusIsEarned ==
    \A n \in Notes : /\ note[n].status = "dispatched" => results[n] # <<>>
                     /\ note[n].status = "queued" => n \in Waiting \cup taken \cup lost
=============================================================================
