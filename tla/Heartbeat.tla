----------------------------- MODULE Heartbeat -----------------------------
(***************************************************************************)
(* The heartbeat protocol of the management server:                        *)
(* management_server/src/management_server/heartbeat.                      *)
(*                                                                         *)
(* A heartbeat is validated against the sequence number on file, compared  *)
(* with the capabilities on file, and written; the database is awaited in  *)
(* between.  The write of a heartbeat is one transaction over two tables,  *)
(* and each capability change one more.                                    *)
(*                                                                         *)
(* The API passes is_registered=True, so that the check of registration    *)
(* never fails; unknown protocol versions are answered with the latest     *)
(* one, so that negotiation never fails either.  Metrics, health, queues   *)
(* and security reports are stored unread and left out.                    *)
(***************************************************************************)
EXTENDS Naturals, Sequences, FiniteSets

CONSTANTS Hosts,         \* the machines that report
          Beats,         \* the heartbeat requests that may arrive
          MaxSequence,   \* bound on sequence numbers
          Flags,         \* the capabilities an agent advertises, true or false
          Versions,      \* the protocol versions agents ask for
          Supported,     \* the one version of the server
          NoHost         \* no machine

ASSUME HeartbeatAssumption ==
    /\ NoHost \notin Hosts
    /\ MaxSequence \in Nat
    /\ Supported \in Versions

VARIABLES
    contact,   \* contact[h]: the row of machine_status, status "unknown" if there is none
    beats,     \* beats[h]: the rows of heartbeats, oldest first
    changed,   \* changed[h]: the rows of capability_history that say "changed", for each flag
    silence,   \* silence[h]: 0 up to 30 s since the last heartbeat, 1 up to 120 s, 2 longer
    beat,      \* beat[r]: the handler of request r
    \* History, read by the properties only:
    crossed    \* the machines two heartbeats of which crossed, or one of which was cut short

heartbeatVars == <<contact, beats, changed, silence, beat, crossed>>

MachineStatus == {"healthy", "delayed", "offline", "recovered", "unknown"}

\* The capabilities of a request; an agent may leave them out.
NoCapabilities == [sent |-> FALSE, on |-> {}]
Capabilities == {NoCapabilities} \cup [sent : {TRUE}, on : SUBSET Flags]

Request == [host : Hosts, sequence : 0 .. MaxSequence, version : Versions, caps : Capabilities]
NoBeat == [pc |-> "idle", host |-> NoHost, sequence |-> 0, version |-> Supported,
           caps |-> NoCapabilities, todo |-> {}]
BeatEnded(answer) == [NoBeat EXCEPT !.pc = answer]

\* A row of heartbeats, as far as it is read again.
BeatRow == [sequence : 0 .. MaxSequence, version : Versions, caps : Capabilities]

HeartbeatInit ==
    /\ contact = [h \in Hosts |-> [status |-> "unknown", last |-> 0]]
    /\ beats = [h \in Hosts |-> <<>>]
    /\ changed = [h \in Hosts |-> [f \in Flags |-> 0]]
    /\ silence = [h \in Hosts |-> 0]
    /\ beat = [r \in Beats |-> NoBeat]
    /\ crossed = {}

-----------------------------------------------------------------------------
UnderWay(r) == beat[r].pc \in {"compare", "record", "note"}
InFlight(h) == {r \in Beats : UnderWay(r) /\ beat[r].host = h}

\* validate_sequence_number: no row, or a number above the last; a gap is only logged.
NotBefore(h, sequence) == contact[h].status = "unknown" \/ sequence >= contact[h].last
Fresh(h, sequence) == contact[h].status = "unknown" \/ sequence > contact[h].last

\* validate_protocol_version
Negotiated(version) == IF version = Supported THEN version ELSE Supported

\* process_heartbeat up to the answer of get_last_sequence_number.
Submit(r, q) ==
    LET accepted == [pc |-> IF q.caps.sent THEN "compare" ELSE "record", host |-> q.host,
                     sequence |-> q.sequence, version |-> Negotiated(q.version),
                     caps |-> q.caps, todo |-> {}]
    IN  /\ beat[r].pc = "idle"
        /\ beat' = [beat EXCEPT ![r] = IF Fresh(q.host, q.sequence) THEN accepted
                                       ELSE BeatEnded("replayed")]
        /\ crossed' = IF InFlight(q.host) # {} THEN crossed \cup {q.host} ELSE crossed
        /\ UNCHANGED <<contact, beats, changed, silence>>

\* get_latest_capabilities_json: of the last heartbeat that had any.
LatestCapabilities(h) ==
    LET sent == {i \in DOMAIN beats[h] : beats[h][i].caps.sent}
    IN  IF sent = {} THEN NoCapabilities
        ELSE beats[h][CHOOSE i \in sent : \A j \in sent : j <= i].caps

\* detect_capability_changes: at first everything is added.  What is on file is the JSON of
\* the whole object, feature_flags included, what it is compared with only its booleans.
Changes(old, new) ==
    IF ~old.sent THEN {<<f, "added">> : f \in Flags}
    ELSE {<<f, "changed">> : f \in (old.on \ new.on) \cup (new.on \ old.on)}
         \cup {<<"feature_flags", "removed">>}

Compare(r) ==
    /\ beat[r].pc = "compare"
    /\ beat' = [beat EXCEPT ![r].pc = "record",
                            ![r].todo = Changes(LatestCapabilities(beat[r].host), beat[r].caps)]
    /\ UNCHANGED <<contact, beats, changed, silence, crossed>>

\* record_heartbeat: the row, and the upsert of machine_status, whatever is in it.
Record(r) ==
    LET b == beat[r]
        row == [sequence |-> b.sequence, version |-> b.version, caps |-> b.caps]
    IN  /\ b.pc = "record"
        /\ beats' = [beats EXCEPT ![b.host] = Append(@, row)]
        /\ contact' = [contact EXCEPT ![b.host] = [status |-> "healthy", last |-> b.sequence]]
        /\ silence' = [silence EXCEPT ![b.host] = 0]
        /\ beat' = [beat EXCEPT ![r] = IF b.todo = {} THEN BeatEnded("answered")
                                       ELSE [b EXCEPT !.pc = "note"]]
        /\ UNCHANGED <<changed, crossed>>

\* record_capability_change, once for each of them.
Note(r) ==
    /\ beat[r].pc = "note"
    /\ \E c \in beat[r].todo :
        /\ changed' = IF c[2] # "changed" THEN changed
                      ELSE [changed EXCEPT ![beat[r].host][c[1]] = @ + 1]
        /\ beat' = [beat EXCEPT ![r] = IF beat[r].todo = {c} THEN BeatEnded("answered")
                                       ELSE [beat[r] EXCEPT !.todo = beat[r].todo \ {c}]]
    /\ UNCHANGED <<contact, beats, silence, crossed>>

\* A statement fails, or the worker process ends.
BeatFails(r) ==
    /\ UnderWay(r)
    /\ beat' = [beat EXCEPT ![r] = BeatEnded("failed")]
    /\ crossed' = crossed \cup {beat[r].host}
    /\ UNCHANGED <<contact, beats, changed, silence>>

-----------------------------------------------------------------------------
\* detect_offline_machines: the two UPDATEs and their COMMIT, from status before to after.
Late == [healthy |-> 1, delayed |-> 2]
Delayed(before) ==
    [h \in Hosts |-> IF before[h] = "healthy" /\ silence[h] >= Late["healthy"] THEN "delayed"
                     ELSE before[h]]
Offline(before) ==
    [h \in Hosts |-> IF before[h] = "delayed" /\ silence[h] >= Late["delayed"] THEN "offline"
                     ELSE before[h]]

\* detect_timeouts runs detection twice, and returns what the second one changed.
DetectTimeouts ==
    LET before == [h \in Hosts |-> contact[h].status]
        once   == Offline(Delayed(before))
        twice  == Offline(Delayed(once))
    IN  /\ contact' = [h \in Hosts |-> [contact[h] EXCEPT !.status = twice[h]]]
        /\ UNCHANGED <<beats, changed, silence, beat, crossed>>

Silence(h) ==
    /\ contact[h].status # "unknown" /\ silence[h] < 2
    /\ silence' = [silence EXCEPT ![h] = @ + 1]
    /\ UNCHANGED <<contact, beats, changed, beat, crossed>>

HeartbeatNext ==
    \/ \E r \in Beats : \/ \E q \in Request : Submit(r, q)
                        \/ Compare(r) \/ Record(r) \/ Note(r) \/ BeatFails(r)
    \/ DetectTimeouts
    \/ \E h \in Hosts : Silence(h)

HeartbeatSpec == HeartbeatInit /\ [][HeartbeatNext]_heartbeatVars

-----------------------------------------------------------------------------
HeartbeatTypeOK ==
    /\ contact \in [Hosts -> [status : MachineStatus, last : 0 .. MaxSequence]]
    /\ \A h \in Hosts : \A i \in DOMAIN beats[h] : beats[h][i] \in BeatRow
    /\ \A h \in Hosts : \A f \in Flags : changed[h][f] \in Nat
    /\ silence \in [Hosts -> 0 .. 2]
    /\ \A r \in Beats : beat[r].host \in Hosts \cup {NoHost}
    /\ crossed \subseteq Hosts

\* Replay protection: unless two heartbeats of a machine crossed between the read of the last
\* sequence number and the write of the next, the numbers on file only grow.
SequenceGrowsUnlessCrossed ==
    \A h \in Hosts \ crossed : \A i, j \in DOMAIN beats[h] :
        i < j => beats[h][i].sequence < beats[h][j].sequence

\* The history of capabilities is complete: unless heartbeats crossed or were cut short, it has
\* a row for each time two successive reports of a flag differ.
Differ(rows, f, i, j) ==
    /\ i < j /\ rows[i].caps.sent /\ rows[j].caps.sent
    /\ \A k \in (i + 1) .. (j - 1) : ~rows[k].caps.sent
    /\ f \in rows[i].caps.on <=> f \notin rows[j].caps.on
Flips(h, f) ==
    {p \in (DOMAIN beats[h]) \X (DOMAIN beats[h]) : Differ(beats[h], f, p[1], p[2])}
CapabilityHistoryIsComplete ==
    \A h \in Hosts \ crossed : InFlight(h) = {} =>
        \A f \in Flags : changed[h][f] = Cardinality(Flips(h, f))

\* A machine is only called delayed or offline when it has been silent for that long,
\* whatever heartbeats and detection did in between.
OfflineMeansSilent ==
    \A h \in Hosts : /\ contact[h].status = "delayed" => silence[h] >= 1
                     /\ contact[h].status = "offline" => silence[h] = 2

\* Together: what the server knows of a machine from its heartbeats is what it was told, and
\* what it infers from their absence is true.
HeartbeatsAreSound ==
    SequenceGrowsUnlessCrossed /\ CapabilityHistoryIsComplete /\ OfflineMeansSilent
=============================================================================
