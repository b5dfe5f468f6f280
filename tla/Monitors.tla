------------------------------ MODULE Monitors ------------------------------
(***************************************************************************)
(* The monitors of the agent and the manager that runs them:               *)
(* security_agent/monitors.                                                *)
(*                                                                         *)
(* Every monitor is a JournaldMonitor: a task that reads the journal,      *)
(* filters, normalises and publishes on the bus.  The journal is read in   *)
(* one of two ways.  With systemd's bindings a thread starts at the end of *)
(* the journal, and its failure ends the monitor.  Without them journalctl *)
(* is run again whenever it ends, each time from the beginning of the      *)
(* journal.                                                                *)
(*                                                                         *)
(* initialize and start do not wait, so initialize_all and start_all are   *)
(* one step each; stop waits for the task.  Nothing but the tests creates  *)
(* a manager: its callers are taken to start only what they stopped.       *)
(***************************************************************************)
EXTENDS Naturals, Sequences, FiniteSets

CONSTANTS MonitorNames,  \* the monitors, in the order of registration
          Misconfigured, \* those whose initialisation fails
          Excluded,      \* the places in the journal of the entries that the filter refuses,
          Malformed,     \* of those that journalctl does not write as JSON,
          Unfit,         \* of those that cannot be normalised,
          Poison,        \* and of those on which the filter raises
          MaxEntries,    \* bound on the journal
          MaxSessions    \* bound on the times that a journal is opened

Names == {MonitorNames[i] : i \in DOMAIN MonitorNames}

ASSUME MonitorsAssumption ==
    /\ Misconfigured \subseteq Names
    /\ MaxEntries \in Nat /\ MaxSessions \in Nat

HealthState == {"healthy", "degraded", "failed", "stopped"}
ReaderState == {"connected", "disconnected", "reconnecting"}

VARIABLES
    bindings,   \* HAS_SYSTEMD
    journal,    \* the length of the journal
    registered, \* MonitorRegistry._monitors
    allowed,    \* MonitorRegistry._enabled, those that are
    initialized,      \* the monitors that were initialised
    monitor,    \* monitor[m]: its health, its task, its reader and its place in the journal
    toStop,     \* the monitors that stop_all has still to stop
    managed,    \* MonitorManager: "idle", "started" or "stopping"
    published   \* published[m]: what it published, in order

monitorVars == <<bindings, journal, registered, allowed, initialized, monitor, toStop, managed,
                 published>>

\* The state of the reader is what it last set; open tells whether the task reads from it.
NoMonitor == [health |-> "stopped", reading |-> FALSE, reader |-> "disconnected", open |-> FALSE,
              from |-> 0, at |-> 0, held |-> 0, sessions |-> 0, failed |-> {}]

MonitorsInit ==
    /\ bindings \in BOOLEAN
    /\ journal = 0
    /\ registered = {} /\ allowed = {} /\ initialized = {}
    /\ monitor = [m \in Names |-> NoMonitor]
    /\ toStop = <<>>
    /\ managed = "idle"
    /\ published = [m \in Names |-> <<>>]

-----------------------------------------------------------------------------
(* MonitorRegistry *)

RegisterMonitor(m) ==
    /\ m \notin registered
    /\ registered' = registered \cup {m}
    /\ allowed' = allowed \cup {m}
    /\ UNCHANGED <<bindings, journal, initialized, monitor, toStop, managed, published>>

UnregisterMonitor(m) ==
    /\ m \in registered
    /\ registered' = registered \ {m}
    /\ allowed' = allowed \ {m}
    /\ UNCHANGED <<bindings, journal, initialized, monitor, toStop, managed, published>>

EnableMonitor(m) ==
    /\ m \in registered
    /\ allowed' = allowed \cup {m}
    /\ UNCHANGED <<bindings, journal, registered, initialized, monitor, toStop, managed, published>>

\* Disabling a monitor does not stop it.
DisableMonitor(m) ==
    /\ m \in registered
    /\ allowed' = allowed \ {m}
    /\ UNCHANGED <<bindings, journal, registered, initialized, monitor, toStop, managed, published>>

\* list_enabled.
ListEnabled == SelectSeq(MonitorNames, LAMBDA m : m \in allowed)

-----------------------------------------------------------------------------
(* MonitorManager *)

\* initialize_all: each monitor that is enabled gets a reader and its filter; one that fails is
\* disabled.
InitializeAll ==
    /\ managed = "idle" /\ \A m \in Names : ~monitor[m].reading
    /\ initialized' = initialized \cup (allowed \ Misconfigured)
    /\ allowed' = allowed \ Misconfigured
    /\ UNCHANGED <<bindings, journal, registered, monitor, toStop, managed, published>>

\* start_all: each monitor that is enabled starts its task; one without a reader raises and is
\* disabled.
StartAll ==
    /\ managed = "idle" /\ \A m \in allowed : ~monitor[m].reading
    /\ monitor' = [m \in Names |-> IF m \in allowed \cap initialized
                                   THEN [monitor[m] EXCEPT !.health = "healthy", !.reading = TRUE]
                                   ELSE monitor[m]]
    /\ allowed' = allowed \cap initialized
    /\ managed' = "started"
    /\ UNCHANGED <<bindings, journal, registered, initialized, toStop, published>>

Reversed(s) == [i \in DOMAIN s |-> s[Len(s) + 1 - i]]

\* stop_all lists those that are enabled, backwards.
StopAll ==
    /\ managed = "started"
    /\ managed' = "stopping"
    /\ toStop' = Reversed(ListEnabled)
    /\ UNCHANGED <<bindings, journal, registered, allowed, initialized, monitor, published>>

\* JournaldMonitor.stop: the task is cancelled wherever it waits, a publication included, and the
\* reader is closed.
StopOne ==
    /\ managed = "stopping" /\ toStop # <<>>
    /\ monitor' = [monitor EXCEPT ![Head(toStop)].health = "stopped",
                                  ![Head(toStop)].reading = FALSE,
                                  ![Head(toStop)].reader = "disconnected",
                                  ![Head(toStop)].open = FALSE,
                                  ![Head(toStop)].held = 0]
    /\ toStop' = Tail(toStop)
    /\ UNCHANGED <<bindings, journal, registered, allowed, initialized, managed, published>>

StopEnds ==
    /\ managed = "stopping" /\ toStop = <<>>
    /\ managed' = "idle"
    /\ UNCHANGED <<bindings, journal, registered, allowed, initialized, monitor, toStop, published>>

-----------------------------------------------------------------------------
(* JournalReader and the read loop *)

WriteJournal ==
    /\ journal < MaxEntries
    /\ journal' = journal + 1
    /\ UNCHANGED <<bindings, registered, allowed, initialized, monitor, toStop, managed, published>>

\* Where a session begins.
FromTheStart == 0
Begins == IF bindings THEN journal ELSE 0

\* _read_native and _read_subprocess open the journal.
Connect(m) ==
    /\ monitor[m].reading /\ ~monitor[m].open
    /\ monitor[m].sessions < MaxSessions
    /\ monitor' = [monitor EXCEPT ![m].reader = "connected", ![m].open = TRUE, ![m].from = Begins, ![m].at = Begins,
                                  ![m].sessions = @ + 1, ![m].failed = {}]
    /\ UNCHANGED <<bindings, journal, registered, allowed, initialized, toStop, managed, published>>

\* Entries that are not published: the filter refuses them, their line is skipped, or they fail.
Skipped == IF bindings THEN {} ELSE Malformed
Unpublished == Excluded \cup Skipped \cup Unfit
Fatal == Poison \ Skipped

\* _read_loop takes the next entry: it goes no further, or is normalised and its publication
\* begins.
TakeEntry(m) ==
    LET n == monitor[m].at + 1
    IN  /\ monitor[m].reading /\ monitor[m].open /\ monitor[m].held = 0
        /\ monitor[m].at < journal /\ n \notin Fatal
        /\ monitor' = [monitor EXCEPT ![m].at = n,
                                      ![m].held = IF n \in Unpublished THEN 0 ELSE n,
                                      ![m].health = IF n \in Unfit THEN "failed" ELSE @]
        /\ UNCHANGED <<bindings, journal, registered, allowed, initialized, toStop, managed,
                       published>>

\* The filter raises: the loop ends, and the reader keeps saying that it is connected.
LoopFails(m) ==
    /\ monitor[m].reading /\ monitor[m].open /\ monitor[m].held = 0
    /\ monitor[m].at < journal /\ monitor[m].at + 1 \in Fatal
    /\ monitor' = [monitor EXCEPT ![m].open = FALSE, ![m].reading = FALSE, ![m].health = "failed"]
    /\ UNCHANGED <<bindings, journal, registered, allowed, initialized, toStop, managed, published>>

PublishEntry(m) ==
    /\ monitor[m].held > 0
    /\ published' = [published EXCEPT ![m] = Append(@, monitor[m].held)]
    /\ monitor' = [monitor EXCEPT ![m].held = 0]
    /\ UNCHANGED <<bindings, journal, registered, allowed, initialized, toStop, managed>>

\* The bus refuses the event: the monitor is failed, and goes on.
PublishFails(m) ==
    /\ monitor[m].held > 0
    /\ monitor' = [monitor EXCEPT ![m].held = 0, ![m].health = "failed",
                                  ![m].failed = @ \cup {monitor[m].held}]
    /\ UNCHANGED <<bindings, journal, registered, allowed, initialized, toStop, managed, published>>

\* The journal ends: journalctl will be run again, the thread will not, and the loop ends with it.
Disconnect(m) ==
    /\ monitor[m].reading /\ monitor[m].open /\ monitor[m].held = 0
    /\ monitor' = IF bindings
                  THEN [monitor EXCEPT ![m].reader = "disconnected", ![m].open = FALSE,
                                       ![m].reading = FALSE]
                  ELSE [monitor EXCEPT ![m].reader = "reconnecting", ![m].open = FALSE]
    /\ UNCHANGED <<bindings, journal, registered, allowed, initialized, toStop, managed, published>>

\* JournaldMonitor.health: the state of the reader decides, also for a monitor that was stopped.
Health(m) ==
    IF m \notin initialized THEN monitor[m].health
    ELSE CASE monitor[m].reader = "connected" -> "healthy"
           [] monitor[m].reader = "reconnecting" -> "degraded"
           [] monitor[m].reader = "disconnected" -> "failed"

MonitorsNext ==
    \/ \E m \in Names : \/ RegisterMonitor(m)
                        \/ UnregisterMonitor(m)
                        \/ EnableMonitor(m)
                        \/ DisableMonitor(m)
                        \/ Connect(m)
                        \/ TakeEntry(m)
                        \/ LoopFails(m)
                        \/ PublishEntry(m)
                        \/ PublishFails(m)
                        \/ Disconnect(m)
    \/ InitializeAll
    \/ StartAll
    \/ StopAll
    \/ StopOne
    \/ StopEnds
    \/ WriteJournal

MonitorsSpec == MonitorsInit /\ [][MonitorsNext]_monitorVars

-----------------------------------------------------------------------------

MonitorsTypeOK ==
    /\ journal \in 0 .. MaxEntries
    /\ registered \subseteq Names /\ allowed \subseteq registered /\ initialized \subseteq Names
    /\ \A m \in Names : /\ monitor[m].health \in HealthState /\ Health(m) \in HealthState
                        /\ monitor[m].reader \in ReaderState
                        /\ monitor[m].from <= monitor[m].at /\ monitor[m].at <= journal
                        /\ monitor[m].held \in {0, monitor[m].at}
                        /\ \A i \in DOMAIN published[m] : published[m][i] \in 1 .. journal
    /\ managed \in {"idle", "started", "stopping"}

\* What a monitor has passed in the session that it is in, it has published, in this session or
\* an earlier one, unless the filter or the bus refused it, its line was skipped, or it could not
\* be normalised: stopping, restarting and the end of the journal between any two steps lose only
\* what was being published at the time, and without the bindings not even that, once the next
\* session has passed it.
PassedIsPublished ==
    \A m \in Names : monitor[m].open =>
        \A n \in monitor[m].from + 1 .. monitor[m].at :
            n \in Unpublished \cup monitor[m].failed \cup {monitor[m].held}
                  \cup {published[m][i] : i \in DOMAIN published[m]}

\* With the bindings nothing is published twice, over any number of sessions: only journalctl,
\* which is run without a cursor, repeats what a session before it had published.
RepeatedOnlyByJournalctl ==
    \A m \in Names :
        bindings => \A i, j \in DOMAIN published[m] : published[m][i] = published[m][j] => i = j

\* Together: each entry is published but for those, and none twice that need not be.
MonitorsAreSound == PassedIsPublished /\ RepeatedOnlyByJournalctl
=============================================================================
