-------------------------- MODULE MessageDelivery --------------------------
(***************************************************************************)
(* What the events queue promises, without consumers, batches, receipts or *)
(* faults: at-least-once delivery.  A message that was sent stays pending  *)
(* until it is settled (handled, or kept as unprocessed) and is removed    *)
(* only then; it may be handled or kept several times, and even after it   *)
(* was removed, by a consumer that was late.                               *)
(***************************************************************************)
CONSTANT Message

VARIABLES sent, pending, handled, stored
vars == <<sent, pending, handled, stored>>

Settled == handled \cup stored

Init ==
    /\ sent = {}
    /\ pending = {}
    /\ handled = {}
    /\ stored = {}

Send(m) ==
    /\ m \notin sent
    /\ sent' = sent \cup {m}
    /\ pending' = pending \cup {m}
    /\ UNCHANGED <<handled, stored>>

Handle(m) ==
    /\ m \in sent
    /\ handled' = handled \cup {m}
    /\ UNCHANGED <<sent, pending, stored>>

Keep(m) ==
    /\ m \in sent
    /\ stored' = stored \cup {m}
    /\ UNCHANGED <<sent, pending, handled>>

Remove(m) ==
    /\ m \in pending
    /\ m \in Settled
    /\ pending' = pending \ {m}
    /\ UNCHANGED <<sent, handled, stored>>

Next == \E m \in Message : Send(m) \/ Handle(m) \/ Keep(m) \/ Remove(m)

Safety == Init /\ [][Next]_vars

(* A pending message is settled some time, and a settled one removed. *)
Fairness ==
    \A m \in Message :
        /\ WF_vars(m \in pending \ Settled /\ (Handle(m) \/ Keep(m)))
        /\ WF_vars(Remove(m))

Spec == Safety /\ Fairness
=============================================================================
