-------------------------------- MODULE Outbox --------------------------------
(***************************************************************************)
(* What the delivery side of the host promises for the outbound messages   *)
(* of the sessions: each is shown at least once before it counts as        *)
(* delivered, it is settled once and for good, and once settled it is      *)
(* never shown again.  Delivery.tla implements this.                       *)
(***************************************************************************)
EXTENDS Naturals

CONSTANTS
    Messages,   \* the outbound messages
    Silent      \* those with nowhere to be shown

VARIABLES
    status,     \* "absent", "queued", "delivered" or "failed"
    shown       \* how often the platform showed the message

Init ==
    /\ status = [m \in Messages |-> "absent"]
    /\ shown = [m \in Messages |-> 0]

Put(m) ==
    /\ status[m] = "absent"
    /\ status' = [status EXCEPT ![m] = "queued"]
    /\ UNCHANGED shown

Show(m) ==
    /\ status[m] = "queued"
    /\ m \notin Silent
    /\ shown' = [shown EXCEPT ![m] = @ + 1]
    /\ UNCHANGED status

Deliver(m) ==
    /\ status[m] = "queued"
    /\ shown[m] > 0 \/ m \in Silent
    /\ status' = [status EXCEPT ![m] = "delivered"]
    /\ UNCHANGED shown

Fail(m) ==
    /\ status[m] = "queued"
    /\ m \notin Silent
    /\ status' = [status EXCEPT ![m] = "failed"]
    /\ UNCHANGED shown

Next == \E m \in Messages : Put(m) \/ Show(m) \/ Deliver(m) \/ Fail(m)

Spec == Init /\ [][Next]_<<status, shown>>

=============================================================================
