--------------------------- MODULE EventLifecycle ---------------------------
(***************************************************************************)
(* What the Event Bus promises about one event, whatever happens to the    *)
(* others: the life of an event is a path through a small graph, an event  *)
(* is refused by a bus that is closing and by no other, and no final state *)
(* is ever left.  EventBus.tla is shown to implement this specification.   *)
(***************************************************************************)
CONSTANT Events

VARIABLES status,   \* status[e]: where event e is in its life
          closing   \* TRUE once shutdown() was called

vars == <<status, closing>>

\* waiting: the publisher is held back by a full queue; accepted: in a queue;
\* taken: out of its queue and not yet heard by its whole audience;
\* handled, unheard, cut, refused and dropped are final.
Status == {"new", "waiting", "accepted", "taken",
           "handled", "unheard", "cut", "refused", "dropped"}

Init ==
    /\ status = [e \in Events |-> "new"]
    /\ closing = FALSE

Move(e, from, to) ==
    /\ status[e] = from
    /\ status' = [status EXCEPT ![e] = to]
    /\ UNCHANGED closing

Submit(e) == \E to \in {"waiting", "accepted", "dropped"} : ~closing /\ Move(e, "new", to)
Refuse(e) == closing /\ Move(e, "new", "refused")
Accept(e) == Move(e, "waiting", "accepted")
Take(e)   == Move(e, "accepted", "taken")
Finish(e) == \E to \in {"handled", "unheard", "cut"} : Move(e, "taken", to)
Unheard(e) == Move(e, "accepted", "unheard")

\* Closing takes the accepted events of a queue at once, and in the end cuts off
\* the events whose delivery is still under way.
Close ==
    /\ closing' = TRUE
    /\ \A e \in Events :
          \/ status'[e] = status[e]
          \/ status[e] = "accepted" /\ status'[e] = "taken"
          \/ status[e] = "taken" /\ status'[e] = "cut"
    /\ DOMAIN status' = Events

Next ==
    \/ \E e \in Events : Submit(e) \/ Refuse(e) \/ Accept(e) \/ Take(e) \/ Finish(e) \/ Unheard(e)
    \/ Close

Spec == Init /\ [][Next]_vars
=============================================================================
