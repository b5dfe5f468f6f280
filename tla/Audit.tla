------------------------------- MODULE Audit -------------------------------
(***************************************************************************)
(* The audit trail of the management server:                               *)
(* management_server/src/management_server/audit.                          *)
(*                                                                         *)
(* Each event carries the hash of the event before it.  A recording reads  *)
(* the last event, awaits, stamps created_at when it builds the INSERT,    *)
(* and commits; the order of the trail is the order of the stamps.         *)
(*                                                                         *)
(* SHA-256 is external: the hash of an event is its identity, and the hash *)
(* of an altered row is no event's.  Stamps are the readings of the one    *)
(* clock of the host.  The formats an export is written in are left out.   *)
(***************************************************************************)
EXTENDS Naturals, FiniteSets

CONSTANTS Recordings,    \* the calls of record(), each of an event of its own
          Subsystems,    \* SUBSYSTEMS
          UnknownNames,  \* other names a caller may give
          VerifyLimit,   \* the rows verify_integrity() reads, 1000000
          NoEvent        \* the previous_hash of the first event

ASSUME AuditAssumption ==
    /\ NoEvent \notin Recordings /\ Subsystems # {} /\ VerifyLimit \in Nat
    /\ IsFiniteSet(Recordings)   \* as many calls as a behaviour is given

VARIABLES
    trail,      \* audit_events: a row for each created_at, committed
    clock,      \* the stamps given out
    recording,  \* recording[r]: the call r
    verifier,   \* the verification under way: what its COUNT said
    verdict,    \* its last AuditVerifyResponse
    exported,   \* the rows of the last export
    \* History, read by the properties only:
    forked,     \* two recordings crossed
    altered     \* the rows changed from outside

auditVars == <<trail, clock, recording, verifier, verdict, exported, forked, altered>>

Names == Subsystems \cup UnknownNames
Stamps == 1 .. Cardinality(Recordings)
NoRecording == [pc |-> "idle", subsystem |-> CHOOSE s \in Names : TRUE, previous |-> NoEvent, stamp |-> 0]

\* grew, of the verification and its verdict: a row was committed between COUNT and SELECT.
Unused == [pc |-> "idle", total |-> 0, grew |-> FALSE]

AuditInit ==
    /\ trail = [s \in {} |-> NoEvent]
    /\ clock = 0
    /\ recording = [r \in Recordings |-> NoRecording]
    /\ verifier = Unused
    /\ verdict = [verified |-> TRUE, total |-> 0, intact |-> 0, grew |-> FALSE]
    /\ exported = {}
    /\ forked = FALSE /\ altered = {}

-----------------------------------------------------------------------------
\* get_ordered: the rows by created_at, of one subsystem or of all, up to a limit.
Before(s) == {t \in DOMAIN trail : t < s}
Ordered(limit) == {s \in DOMAIN trail : Cardinality(Before(s)) < limit}

\* get_last
LastHashButOne ==
    LET older == {s \in DOMAIN trail : \E t \in DOMAIN trail : s < t}
    IN  IF older = {} THEN NoEvent
        ELSE trail[CHOOSE s \in older : \A t \in older : t <= s].event
LastHash == IF DOMAIN trail = {} THEN NoEvent
            ELSE trail[CHOOSE s \in DOMAIN trail : \A t \in DOMAIN trail : t <= s].event

Crossed(r) == \E q \in Recordings \ {r} : recording[q].pc \in {"create", "append"}

\* record(), up to the answer of get_last().
ReadLast(r, name) ==
    /\ recording[r].pc = "idle"
    /\ recording' = [recording EXCEPT ![r] = [pc |-> "create", subsystem |-> name,
                                              previous |-> LastHash, stamp |-> 0]]
    /\ forked' = (forked \/ Crossed(r))
    /\ UNCHANGED <<trail, clock, verifier, verdict, exported, altered>>

\* AuditValidator.validate: identifiers and enumerations are what create() makes them.
Valid(name) == name \in Subsystems

\* AuditEvent.create and validate, and the stamp that append() takes before it awaits.
CreateEvent(r) ==
    /\ recording[r].pc = "create"
    /\ IF Valid(recording[r].subsystem)
       THEN /\ clock' = clock + 1
            /\ recording' = [recording EXCEPT ![r].pc = "append", ![r].stamp = clock + 1]
       ELSE /\ recording' = [recording EXCEPT ![r].pc = "refused"]
            /\ UNCHANGED clock
    /\ UNCHANGED <<trail, verifier, verdict, exported, forked, altered>>

\* append: the INSERT and its COMMIT.
AppendEvent(r) ==
    LET row == [event |-> r, previous |-> recording[r].previous,
                subsystem |-> recording[r].subsystem]
        stamp == recording[r].stamp
    IN  /\ recording[r].pc = "append"
        /\ trail' = [s \in DOMAIN trail \cup {stamp} |-> IF s = stamp THEN row ELSE trail[s]]
        /\ recording' = [recording EXCEPT ![r].pc = "recorded"]
        /\ verifier' = [verifier EXCEPT !.grew = (verifier.pc = "counted")]
        /\ UNCHANGED <<clock, verdict, exported, forked, altered>>

\* The INSERT fails, or the worker process ends: no row.
RecordingFails(r) ==
    /\ recording[r].pc \in {"create", "append"}
    /\ recording' = [recording EXCEPT ![r].pc = "failed"]
    /\ UNCHANGED <<trail, clock, verifier, verdict, exported, forked, altered>>

-----------------------------------------------------------------------------
\* verify_integrity of an event: its hash is that of its content.
Intact(s) == s \notin altered

\* verify_chain over the events at the stamps given: each one's own hash, then each link.
Linked(events) ==
    \A s \in events : Before(s) # {} =>
        \E t \in Before(s) : /\ \A u \in Before(s) : u <= t
                             /\ trail[s].previous = trail[t].event
VerifyChain(events) == (\A s \in events : Intact(s)) /\ Linked(events)

\* verify_integrity: the COUNT of get_ordered, then its SELECT.
CountEvents ==
    /\ verifier.pc = "idle"
    /\ verifier' = [pc |-> "counted", total |-> Cardinality(DOMAIN trail), grew |-> FALSE]
    /\ UNCHANGED <<trail, clock, recording, verdict, exported, forked, altered>>

VerifyIntegrity ==
    LET events == Ordered(VerifyLimit)
    IN  /\ verifier.pc = "counted"
        /\ verdict' = IF verifier.total = 0
                      THEN [verified |-> TRUE, total |-> 0, intact |-> 0, grew |-> verifier.grew]
                      ELSE [verified |-> VerifyChain(events), total |-> verifier.total,
                            intact |-> Cardinality({s \in events : Intact(s)}),
                            grew |-> verifier.grew]
        /\ verifier' = Unused
        /\ UNCHANGED <<trail, clock, recording, exported, forked, altered>>

\* export_events: an end without a start is ignored; then the filter by subsystem.
Selected(start, end) ==
    IF start = 0 THEN DOMAIN trail
    ELSE {s \in DOMAIN trail : start <= s /\ (end = 0 \/ s <= end)}
Export(start, end, name) ==
    /\ exported' = {trail[s].event : s \in {t \in Selected(start, end) : trail[t].subsystem = name}}
    /\ UNCHANGED <<trail, clock, recording, verifier, verdict, forked, altered>>

\* Somebody with access to the database changes a row.
Alter(s) ==
    /\ s \notin altered
    /\ altered' = altered \cup {s}
    /\ UNCHANGED <<trail, clock, recording, verifier, verdict, exported, forked>>

AuditNext ==
    \/ \E r \in Recordings : \/ \E name \in Names : ReadLast(r, name)
                             \/ CreateEvent(r) \/ AppendEvent(r) \/ RecordingFails(r)
    \/ CountEvents \/ VerifyIntegrity
    \/ \E start, end \in {0} \cup Stamps, name \in Names : Export(start, end, name)
    \/ \E s \in DOMAIN trail : Alter(s)

AuditSpec == AuditInit /\ [][AuditNext]_auditVars

-----------------------------------------------------------------------------
AuditTypeOK ==
    /\ DOMAIN trail \subseteq Stamps /\ clock \in 0 .. Cardinality(Recordings)
    /\ \A s \in DOMAIN trail : /\ trail[s].event \in Recordings
                               /\ trail[s].previous \in Recordings \cup {NoEvent}
                               /\ trail[s].subsystem \in Subsystems
    /\ \A r \in Recordings : /\ recording[r].previous \in Recordings \cup {NoEvent}
                             /\ recording[r].stamp \in {0} \cup Stamps
    /\ verifier.total \in 0 .. Cardinality(Recordings)
    /\ exported \subseteq Recordings

\* No false alarm: the verification finds fault with the trail only if a row was altered
\* or two recordings crossed, as recordings that follow each other chain up, failed ones
\* between them included; and the rows it calls intact differ from the rows it counted only
\* if one was altered, committed meanwhile, or stood beyond the limit.
AlarmsAreExplained ==
    /\ ~verdict.verified => altered # {} \/ forked
    /\ verdict.intact = verdict.total
        \/ altered # {} \/ verdict.grew \/ verdict.total > VerifyLimit
=============================================================================
