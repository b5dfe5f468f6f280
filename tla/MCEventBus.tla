----------------------------- MODULE MCEventBus -----------------------------
(* Small instances of EventBus.tla for TLC.                                *)
EXTENDS EventBus

CONSTANTS e1, e2, e3, t1, t2, s1, s2, s3

\* Every event is of type t1; s3 subscribes to the other type.
OneTypeOf == [e \in Events |-> t1]
MCInterest == [s \in Subscribers |-> IF s = s3 THEN t2 ELSE t1]

\* NORMAL events, and e3 CRITICAL.
MixedPriority == [e \in Events |-> IF e = e3 THEN 0 ELSE 2]
=============================================================================
