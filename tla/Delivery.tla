------------------------------- MODULE Delivery -------------------------------
(***************************************************************************)
(* Outbound delivery (src/src/delivery.ts): two timer chains, the active   *)
(* poll over the sessions whose container runs and the sweep poll over all *)
(* sessions, drain the sessions' messages_out through the channel adapters *)
(* and record the outcome in each session's `delivered` table.             *)
(*                                                                         *)
(* A step runs from one await to the next.  A message is its position in   *)
(* the order of messages_out.timestamp; its content, the permission lookup *)
(* and the files are abstracted to what becomes of it: it is shown on a    *)
(* channel (or taken by a handler of the host), refused, or has no routing *)
(* or no adapter and is dropped.                                           *)
(***************************************************************************)
EXTENDS Naturals, FiniteSets

CONSTANTS
    Sessions,       \* the active sessions
    MaxMessages,    \* bound: messages ever written
    SessionOf,      \* the session whose outbound.db holds the message
    Silent,         \* messages without routing fields or without an adapter
    MaxAttempts,    \* MAX_DELIVERY_ATTEMPTS
    FaultKinds,     \* what may go wrong, among the four of AllFaults
    MaxFaults       \* bound: faults that happen

Messages == 1..MaxMessages
(* "crash": the host restarts.  "late": the adapter, or the write to        *)
(* `delivered`, throws after the platform took the message.  "hang": the    *)
(* adapter's promise never settles.  "refuse": it throws at once.           *)
AllFaults == {"crash", "late", "hang", "refuse"}
Pollers == {"active", "sweep"}

ASSUME CountsAssumption ==
    MaxMessages \in Nat /\ MaxAttempts \in Nat \ {0} /\ MaxFaults \in Nat
ASSUME RoutingAssumption ==
    /\ SessionOf \in [Messages -> Sessions]
    /\ Silent \subseteq Messages
ASSUME FaultsAssumption == FaultKinds \subseteq AllFaults

VARIABLES
    outbox,     \* rows of messages_out
    marked,     \* rows of `delivered`: "none", "delivered" or "failed"
    running,    \* sessions whose container_status is running
    attempts,   \* deliveryAttempts
    inflight,   \* inflightDeliveries
    poller,     \* where each of the two timer chains is
    sent,       \* history: how often the platform took the message
    threw,      \* history: the messages some attempt of which threw
    faults      \* faults so far

vars == <<outbox, marked, running, attempts, inflight, poller, sent, threw, faults>>

(* A chain waits for its timer, walks its sessions, awaits the adapter with *)
(* the head of a queue ("landed" once the platform took it), or hangs.      *)
Idle == [at |-> "idle", todo |-> {}, queue |-> {}]
Places == {"idle", "walk", "send", "landed", "hung"}

TypeOK ==
    /\ outbox \subseteq Messages
    /\ marked \in [Messages -> {"none", "delivered", "failed"}]
    /\ running \subseteq Sessions
    /\ attempts \in [Messages -> 0..(MaxAttempts - 1)]
    /\ inflight \subseteq Sessions
    /\ poller \in [Pollers -> [at : Places, todo : SUBSET Sessions, queue : SUBSET Messages]]
    /\ sent \in [Messages -> Nat]
    /\ threw \subseteq Messages
    /\ faults \in 0..MaxFaults

Init ==
    /\ outbox = {}
    /\ marked = [m \in Messages |-> "none"]
    /\ running \in SUBSET Sessions
    /\ attempts = [m \in Messages |-> 0]
    /\ inflight = {}
    /\ poller = [p \in Pollers |-> Idle]
    /\ sent = [m \in Messages |-> 0]
    /\ threw = {}
    /\ faults = 0

-----------------------------------------------------------------------------
(* The sessions *)

(* A row of messages_out is written. *)
Write(m) ==
    /\ m \notin outbox
    /\ m - 1 \in Messages => m - 1 \in outbox
    /\ outbox' = outbox \cup {m}
    /\ UNCHANGED <<marked, running, attempts, inflight, poller, sent, threw, faults>>

(* A container starts or exits. *)
RunningChanges(s) ==
    /\ running' = IF s \in running THEN running \ {s} ELSE running \cup {s}
    /\ UNCHANGED <<outbox, marked, attempts, inflight, poller, sent, threw, faults>>

-----------------------------------------------------------------------------
(* The two timer chains *)

Poll(p) ==
    /\ poller[p].at = "idle"
    /\ poller' = [poller EXCEPT ![p].at = "walk",
                                ![p].todo = IF p = "active" THEN running ELSE Sessions]
    /\ UNCHANGED <<outbox, marked, running, attempts, inflight, sent, threw, faults>>

(* The due rows of a session that its `delivered` table does not list. *)
Undelivered(s) == {m \in outbox : SessionOf[m] = s /\ marked[m] = "none"}

(* Slip: no re-entry guard. *)
MayEnterAlways(s) == TRUE
MayEnter(s) == s \notin inflight

(* deliverSessionMessages up to the first await. *)
Visit(p, s) ==
    /\ poller[p].at = "walk"
    /\ s \in poller[p].todo
    /\ IF MayEnter(s) /\ Undelivered(s) # {}
       THEN /\ inflight' = inflight \cup {s}
            /\ poller' = [poller EXCEPT ![p] =
                   [at |-> "send", todo |-> @.todo \ {s}, queue |-> Undelivered(s)]]
       ELSE /\ poller' = [poller EXCEPT ![p].todo = @ \ {s}]
            /\ UNCHANGED inflight
    /\ UNCHANGED <<outbox, marked, running, attempts, sent, threw, faults>>

(* The walk is over and the timer is set again. *)
Rest(p) ==
    /\ poller[p].at = "walk"
    /\ poller[p].todo = {}
    /\ poller' = [poller EXCEPT ![p].at = "idle"]
    /\ UNCHANGED <<outbox, marked, running, attempts, inflight, sent, threw, faults>>

(* Slip: ORDER BY timestamp DESC. *)
NewestFirst(queue) == {m \in queue : \A n \in queue : n <= m}
Oldest(queue) == {m \in queue : \A n \in queue : m <= n}

(* The message chain p is delivering, if any. *)
Current(p) == Oldest(poller[p].queue)

(* Slip: the session stays in inflightDeliveries. *)
NotReleased(s) == inflight
Released(s) == inflight \ {s}

(* On to the next row of the queue, or out of the session. *)
Advance(p, m) ==
    LET rest == poller[p].queue \ {m}
    IN  /\ poller' = [poller EXCEPT ![p].queue = rest,
                                    ![p].at = IF rest = {} THEN "walk" ELSE "send"]
        /\ inflight' = IF rest = {} THEN Released(SessionOf[m]) ELSE inflight

(* INSERT OR IGNORE INTO delivered *)
Mark(m, outcome) ==
    marked' = [marked EXCEPT ![m] = IF @ = "none" THEN outcome ELSE @]

Fault(kind) ==
    /\ kind \in FaultKinds
    /\ faults < MaxFaults
    /\ faults' = faults + 1

(* The platform takes the message. *)
Lands(p, m) ==
    /\ poller[p].at = "send"
    /\ m \in Current(p) \ Silent
    /\ sent' = [sent EXCEPT ![m] = @ + 1]
    /\ poller' = [poller EXCEPT ![p].at = "landed"]
    /\ UNCHANGED <<outbox, marked, running, attempts, inflight, threw, faults>>

(* deliverMessage returns: the message is marked delivered. *)
Returns(p, m) ==
    /\ m \in Current(p)
    /\ poller[p].at = "landed" \/ (poller[p].at = "send" /\ m \in Silent)
    /\ Mark(m, "delivered")
    /\ attempts' = [attempts EXCEPT ![m] = 0]
    /\ Advance(p, m)
    /\ UNCHANGED <<outbox, running, sent, threw, faults>>

GivesUp(m) == attempts[m] + 1 >= MaxAttempts

(* The catch of drainSession: count the attempt, and give up at the last.   *)
Caught(p, m) ==
    /\ threw' = threw \cup {m}
    /\ IF GivesUp(m)
       THEN Mark(m, "failed") /\ attempts' = [attempts EXCEPT ![m] = 0]
       ELSE UNCHANGED marked /\ attempts' = [attempts EXCEPT ![m] = @ + 1]
    /\ Advance(p, m)
    /\ UNCHANGED <<outbox, running, sent>>

(* The permission check, a missing file or the adapter throws before        *)
(* anything is shown. *)
Refuses(p, m) ==
    /\ poller[p].at = "send"
    /\ m \in Current(p) \ Silent
    /\ Fault("refuse")
    /\ Caught(p, m)

ThrowsLate(p, m) ==
    /\ poller[p].at = "landed"
    /\ m \in Current(p)
    /\ Fault("late")
    /\ Caught(p, m)

Hangs(p) ==
    /\ poller[p].at = "send"
    /\ Current(p) \ Silent # {}
    /\ Fault("hang")
    /\ poller' = [poller EXCEPT ![p].at = "hung"]
    /\ UNCHANGED <<outbox, marked, running, attempts, inflight, sent, threw>>

(* The host process dies and starts again: the maps are gone. *)
Restart ==
    /\ Fault("crash")
    /\ poller' = [p \in Pollers |-> Idle]
    /\ inflight' = {}
    /\ attempts' = [m \in Messages |-> 0]
    /\ UNCHANGED <<outbox, marked, running, sent, threw>>

Step(p) ==
    \/ Poll(p)
    \/ \E s \in Sessions : Visit(p, s)
    \/ Rest(p)
    \/ \E m \in Current(p) : Lands(p, m) \/ Returns(p, m)

Next ==
    \/ \E m \in Messages : Write(m)
    \/ \E s \in Sessions : RunningChanges(s)
    \/ \E p \in Pollers :
          \/ Step(p) \/ Hangs(p)
          \/ \E m \in Current(p) : Refuses(p, m) \/ ThrowsLate(p, m)
    \/ Restart

Spec == Init /\ [][Next]_vars

(* Each timer chain goes on as long as what it awaits settles. *)
FairSpec == Spec /\ \A p \in Pollers : WF_vars(Step(p))

-----------------------------------------------------------------------------
(* Properties *)

(* A message is shown to the user once, and once more only for a fault: a   *)
(* restart or an error between the platform taking it and `delivered`       *)
(* recording it.  The two chains never show it twice between them.          *)
ShownOncePerFault == \A m \in Messages : sent[m] <= 1 + faults

(* Within a session no message overtakes an earlier one, except one of      *)
(* which an attempt failed.                                                 *)
OrderUnlessFailed ==
    \A m, n \in Messages :
        (m < n /\ SessionOf[m] = SessionOf[n] /\ sent[n] > 0)
            => sent[m] > 0 \/ m \in threw \/ m \in Silent

(* What the user sees of a session: its messages once, in their order, but  *)
(* for the faults; the state is well typed.                                 *)
ShownOnceInOrder == TypeOK /\ ShownOncePerFault /\ OrderUnlessFailed

(* Every message is shown before it counts as delivered, settled once, and  *)
(* not shown again: the queue a chain read before its awaits never holds a  *)
(* message the other chain has settled meanwhile.                           *)
Status == [m \in Messages |->
              IF m \notin outbox THEN "absent"
              ELSE IF marked[m] = "none" THEN "queued" ELSE marked[m]]
Abstract == INSTANCE Outbox WITH status <- Status, shown <- sent
ImplementsOutbox == Abstract!Spec

HungIn(s) ==
    \E p \in Pollers : poller[p].at = "hung" /\ \E m \in Current(p) : SessionOf[m] = s

(* Every message written is settled in the end, whatever the restarts and   *)
(* the errors, unless an adapter never answers.                             *)
EveryMessageSettles ==
    \A m \in Messages :
        m \in outbox ~> marked[m] # "none" \/ \E s \in Sessions : HungIn(s)

(* An adapter that never answers holds up its own session and the chain     *)
(* that called it, but a session whose container runs is still served by    *)
(* the other chain.                                                         *)
HangIsContained ==
    \A m \in Messages :
        (<>[](SessionOf[m] \in running)) =>
            (m \in outbox ~> marked[m] # "none" \/ HungIn(SessionOf[m]))

=============================================================================
