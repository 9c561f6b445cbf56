---------------------------- MODULE DeliveryProofs ----------------------------
(***************************************************************************)
(* Proofs about Delivery for any sessions, messages and number of faults:  *)
(* the two timer chains implement the promise of Outbox, and show every    *)
(* message once, in order, but for the faults.                             *)
(*                                                                         *)
(* The heart is that the queue a chain read before its awaits stays fresh: *)
(* whatever is in it is still unsettled, because the session is in         *)
(* inflightDeliveries and so the other chain is in another session.        *)
(***************************************************************************)
EXTENDS Delivery, TLAPS

(* A queue holds messages of one session, written and not yet settled, and  *)
(* the session is in inflightDeliveries.                                    *)
QueuesAreFresh ==
    \A p \in Pollers : \A m \in poller[p].queue :
        /\ m \in outbox /\ marked[m] = "none"
        /\ SessionOf[m] \in inflight
        /\ \A n \in poller[p].queue : SessionOf[n] = SessionOf[m]

(* A chain that is not in a session has no queue.                           *)
QueuesAreLeft ==
    \A p \in Pollers : poller[p].at \in {"idle", "walk"} => poller[p].queue = {}

(* The two chains are never in one session.                                 *)
ChainsAreApart ==
    \A p, q \in Pollers : p # q =>
        \A m \in poller[p].queue, n \in poller[q].queue : SessionOf[m] # SessionOf[n]

(* The chain is about to record what the platform took.                     *)
Landing(m) == \E p \in Pollers : poller[p].at = "landed" /\ m \in Current(p)

(* A message is shown at most once for each fault, and once more while it   *)
(* is being recorded, or after.                                             *)
ShowsArePaid ==
    \A m \in Messages :
        /\ Landing(m) => sent[m] > 0 /\ m \notin Silent
        /\ sent[m] <= 1 + faults
        /\ marked[m] = "none" /\ ~Landing(m) => sent[m] <= faults

(* A message is settled as delivered only if it was shown or has nowhere to *)
(* be shown, and as failed only if an attempt threw.                        *)
MarksAreEarned ==
    \A m \in Messages :
        /\ marked[m] = "delivered" => sent[m] > 0 \/ m \in Silent
        /\ marked[m] = "failed" => m \in threw
        /\ marked[m] # "none" => m \in outbox
        /\ sent[m] > 0 => m \in outbox

(* Messages are written in their order.                                     *)
WrittenInOrder ==
    \A m, n \in Messages : n \in outbox /\ m < n => m \in outbox

Past(m) == marked[m] # "none" \/ m \in threw

(* What is before the rest of a queue in its session is past.               *)
QueuesAreInOrder ==
    \A p \in Pollers : \A n \in poller[p].queue : \A m \in Messages :
        m < n /\ SessionOf[m] = SessionOf[n] => m \in poller[p].queue \/ Past(m)

(* So is what is before a message the platform took.                        *)
ShownInOrder ==
    \A m, n \in Messages :
        m < n /\ SessionOf[m] = SessionOf[n] /\ sent[n] > 0 => Past(m)

Fresh == QueuesAreFresh /\ QueuesAreLeft /\ ChainsAreApart
Ordered == WrittenInOrder /\ QueuesAreInOrder /\ ShownInOrder

IInv == TypeOK /\ Fresh /\ MarksAreEarned /\ ShowsArePaid /\ Ordered
-----------------------------------------------------------------------------
(* What the steps do to the chains *)

(* What a chain keeps.                                                      *)
Chain == [at : Places, todo : SUBSET Sessions, queue : SUBSET Messages]

(* A chain has one current message.                                         *)
LEMMA OneCurrent ==
    ASSUME TypeOK, NEW p \in Pollers, NEW m \in Current(p), NEW n \in Current(p)
    PROVE  m = n /\ m \in poller[p].queue /\ m \in Messages
BY CountsAssumption DEF TypeOK, Current, Oldest, Messages

LEMMA VisitMoves ==
    ASSUME TypeOK, NEW p \in Pollers, NEW s \in Sessions, Visit(p, s)
    PROVE  /\ \A q \in Pollers : q # p => poller'[q] = poller[q]
           /\ poller' \in [Pollers -> Chain]
           /\ \/ /\ s \notin inflight /\ inflight' = inflight \cup {s}
                 /\ poller'[p].queue = Undelivered(s) /\ poller'[p].at = "send"
              \/ /\ inflight' = inflight
                 /\ poller'[p].queue = poller[p].queue /\ poller'[p].at = "walk"
<1>1. Undelivered(s) \subseteq Messages
  BY DEF Undelivered, TypeOK
<1>2. /\ poller[p] \in Chain
      /\ "send" \in Places
  BY DEF TypeOK, Places, Chain
<1>3. CASE MayEnter(s) /\ Undelivered(s) # {}
  <2> DEFINE entered ==
        [at |-> "send", todo |-> poller[p].todo \ {s}, queue |-> Undelivered(s)]
  <2>1. s \notin inflight /\ inflight' = inflight \cup {s} /\ poller' = [poller EXCEPT ![p] = entered]
    BY <1>3 DEF Visit, MayEnter
  <2>2. entered \in Chain
    BY <1>1, <1>2 DEF Chain
  <2> QED  BY <2>1, <2>2 DEF TypeOK, Chain
<1>4. CASE ~(MayEnter(s) /\ Undelivered(s) # {})
  <2> DEFINE walked ==
        [at |-> poller[p].at, todo |-> poller[p].todo \ {s}, queue |-> poller[p].queue]
  <2>1. inflight' = inflight /\ poller' = [poller EXCEPT ![p].todo = @ \ {s}] /\ poller[p].at = "walk"
    BY <1>4 DEF Visit
  <2>2. poller'[p] = walked
    BY <1>2, <2>1 DEF TypeOK, Chain
  <2>3. walked \in Chain
    BY <1>2 DEF Chain
  <2> QED  BY <2>1, <2>2, <2>3 DEF TypeOK, Chain
<1> QED  BY <1>3, <1>4

LEMMA AdvanceMoves ==
    ASSUME TypeOK, NEW p \in Pollers, NEW m \in Messages, Advance(p, m)
    PROVE  /\ \A q \in Pollers : q # p => poller'[q] = poller[q]
           /\ poller' \in [Pollers -> Chain]
           /\ poller'[p].queue = poller[p].queue \ {m}
           /\ poller'[p].at = IF poller'[p].queue = {} THEN "walk" ELSE "send"
           /\ inflight' \subseteq inflight
           /\ \A t \in inflight : t \in inflight' \/ (t = SessionOf[m] /\ poller'[p].queue = {})
<1> DEFINE rest == poller[p].queue \ {m}
           there == IF rest = {} THEN "walk" ELSE "send"
<1>1. poller' = [poller EXCEPT ![p].queue = rest, ![p].at = there]
  BY DEF Advance
<1>2. poller[p] \in Chain
  BY DEF TypeOK, Chain
<1>3. there \in Places /\ rest \subseteq Messages
  BY <1>2 DEF Places, Chain
<1>4. poller'[p] = [at |-> there, todo |-> poller[p].todo, queue |-> rest]
  BY <1>1, <1>2 DEF TypeOK, Chain
<1>5. \A q \in Pollers : q # p => poller'[q] = poller[q]
  BY <1>1 DEF TypeOK
<1>6. inflight' = IF rest = {} THEN inflight \ {SessionOf[m]} ELSE inflight
  BY DEF Advance, Released
<1>7. [at |-> there, todo |-> poller[p].todo, queue |-> rest] \in Chain
  BY <1>2, <1>3 DEF Chain
<1> QED  BY <1>1, <1>4, <1>5, <1>6, <1>7 DEF TypeOK, Chain

(* A step that moves the place of one chain only.                           *)
LEMMA PlaceMoves ==
    ASSUME TypeOK, NEW p \in Pollers,
           \/ Poll(p) \/ Rest(p) \/ Hangs(p)
           \/ \E m \in Current(p) : Lands(p, m)
    PROVE  /\ \A q \in Pollers : q # p => poller'[q] = poller[q]
           /\ poller' \in [Pollers -> Chain]
           /\ poller'[p].queue = poller[p].queue
           /\ inflight' = inflight
<1>1. poller[p] \in Chain
  BY DEF TypeOK, Chain
<1>2. inflight' = inflight
  BY DEF Poll, Rest, Hangs, Lands
<1>3. CASE Poll(p)
  <2> DEFINE todo == IF p = "active" THEN running ELSE Sessions
  <2>1. poller' = [poller EXCEPT ![p].at = "walk", ![p].todo = todo]
    BY <1>3 DEF Poll
  <2>2. todo \subseteq Sessions /\ "walk" \in Places
    BY DEF TypeOK, Places, Chain
  <2>3. poller'[p] = [at |-> "walk", todo |-> todo, queue |-> poller[p].queue]
    BY <1>1, <2>1 DEF TypeOK, Chain
  <2> HIDE DEF todo
  <2>4. \A q \in Pollers : q # p => poller'[q] = poller[q]
    BY <2>1 DEF TypeOK, Chain
  <2>5. [at |-> "walk", todo |-> todo, queue |-> poller[p].queue] \in Chain
    BY <1>1, <2>2 DEF Chain
  <2> QED  BY <1>2, <2>1, <2>3, <2>4, <2>5 DEF TypeOK, Chain
<1>4. ASSUME NEW at \in Places, poller' = [poller EXCEPT ![p].at = at]
      PROVE  /\ \A q \in Pollers : q # p => poller'[q] = poller[q]
             /\ poller' \in [Pollers -> Chain]
             /\ poller'[p].queue = poller[p].queue
  <2>1. poller'[p] = [at |-> at, todo |-> poller[p].todo, queue |-> poller[p].queue]
    BY <1>1, <1>4 DEF TypeOK
  <2> QED  BY <1>1, <1>4, <2>1 DEF TypeOK, Chain
<1>5. "idle" \in Places /\ "hung" \in Places /\ "landed" \in Places
  BY DEF Places
<1> QED  BY <1>2, <1>3, <1>4, <1>5 DEF Rest, Hangs, Lands

(* A row that is done with, or whose attempt threw.                         *)
LEMMA SettleMoves ==
    ASSUME TypeOK, NEW p \in Pollers, NEW m \in Messages,
           Returns(p, m) \/ Refuses(p, m) \/ ThrowsLate(p, m)
    PROVE  /\ m \in Current(p) /\ Advance(p, m)
           /\ poller[p].at \in {"send", "landed"}
           /\ UNCHANGED <<outbox, running, sent>>
           /\ marked' \in [Messages -> {"none", "delivered", "failed"}]
           /\ \A n \in Messages : n # m => marked'[n] = marked[n]
           /\ marked[m] # "none" => marked'[m] = marked[m]
           /\ threw \subseteq threw' /\ threw' \subseteq threw \cup {m}
           /\ marked'[m] = "none" \/ marked'[m] = "failed" =>
                 marked[m] = marked'[m] \/ m \in threw'
           /\ marked'[m] # "none" \/ m \in threw'
<1>1. CASE Returns(p, m)
  <2>1. marked' = [marked EXCEPT ![m] = IF marked[m] = "none" THEN "delivered" ELSE marked[m]]
    BY <1>1 DEF Returns, Mark
  <2> QED  BY <1>1, <2>1 DEF Returns, TypeOK
<1>2. CASE Refuses(p, m) \/ ThrowsLate(p, m)
  <2>1. Caught(p, m) /\ m \in Current(p) /\ poller[p].at \in {"send", "landed"}
    BY <1>2 DEF Refuses, ThrowsLate
  <2>2. CASE GivesUp(m)
    <3>1. marked' = [marked EXCEPT ![m] = IF marked[m] = "none" THEN "failed" ELSE marked[m]]
      BY <2>1, <2>2 DEF Caught, Mark
    <3> QED  BY <2>1, <3>1 DEF Caught, TypeOK
  <2>3. CASE ~GivesUp(m)
    BY <2>1, <2>3 DEF Caught, TypeOK
  <2> QED  BY <2>2, <2>3
<1> QED  BY <1>1, <1>2

-----------------------------------------------------------------------------
(* Types *)

LEMMA AttemptsType ==
    ASSUME TypeOK, NEW p \in Pollers, NEW m \in Messages,
           Returns(p, m) \/ Refuses(p, m) \/ ThrowsLate(p, m)
    PROVE  attempts' \in [Messages -> 0..(MaxAttempts - 1)] /\ faults' \in 0..MaxFaults
<1>1. 0 \in 0..(MaxAttempts - 1)
  BY CountsAssumption
<1>2. faults' \in 0..MaxFaults
  BY CountsAssumption DEF Returns, Refuses, ThrowsLate, Fault, TypeOK
<1>3. CASE attempts' = [attempts EXCEPT ![m] = 0]
  BY <1>1, <1>2, <1>3 DEF TypeOK
<1>4. CASE ~GivesUp(m) /\ attempts' = [attempts EXCEPT ![m] = @ + 1]
  <2>1. attempts[m] \in 0..(MaxAttempts - 1) /\ ~(attempts[m] + 1 >= MaxAttempts)
    BY <1>4 DEF GivesUp, TypeOK
  <2>2. attempts[m] + 1 \in 0..(MaxAttempts - 1)
    BY <2>1, CountsAssumption
  <2> QED  BY <1>2, <1>4, <2>2 DEF TypeOK
<1> QED  BY <1>2, <1>3, <1>4 DEF Returns, Refuses, ThrowsLate, Caught

LEMMA TypeStep == ASSUME TypeOK, [Next]_vars PROVE TypeOK'
<1>1. ASSUME NEW m \in Messages, Write(m) PROVE TypeOK'
  BY <1>1 DEF TypeOK, Write
<1>2. ASSUME NEW s \in Sessions, RunningChanges(s) PROVE TypeOK'
  BY <1>2 DEF TypeOK, RunningChanges
<1>3. ASSUME NEW p \in Pollers, NEW s \in Sessions, Visit(p, s) PROVE TypeOK'
  <2>1. UNCHANGED <<outbox, marked, running, attempts, sent, threw, faults>>
    BY <1>3 DEF Visit
  <2>2. poller' \in [Pollers -> Chain] /\ inflight' \subseteq Sessions
    BY <1>3, VisitMoves DEF TypeOK
  <2> QED  BY <2>1, <2>2 DEF TypeOK, Chain
<1>4. ASSUME NEW p \in Pollers, Poll(p) \/ Rest(p) PROVE TypeOK'
  <2>1. UNCHANGED <<outbox, marked, running, attempts, sent, threw, faults>>
    BY <1>4 DEF Poll, Rest
  <2>2. poller' \in [Pollers -> Chain] /\ inflight' = inflight
    BY <1>4, PlaceMoves
  <2> QED  BY <2>1, <2>2 DEF TypeOK, Chain
<1>5. ASSUME NEW p \in Pollers, Hangs(p) PROVE TypeOK'
  <2>1. UNCHANGED <<outbox, marked, running, attempts, sent, threw>> /\ faults' \in 0..MaxFaults
    BY <1>5, CountsAssumption DEF Hangs, Fault, TypeOK
  <2>2. poller' \in [Pollers -> Chain] /\ inflight' = inflight
    BY <1>5, PlaceMoves
  <2> QED  BY <2>1, <2>2 DEF TypeOK, Chain
<1>6. ASSUME NEW p \in Pollers, NEW m \in Current(p), Lands(p, m) PROVE TypeOK'
  <2>1. UNCHANGED <<outbox, marked, running, attempts, threw, faults>> /\ m \in Messages
    BY <1>6, OneCurrent DEF Lands
  <2>2. sent' \in [Messages -> Nat]
    BY <1>6, <2>1 DEF Lands, TypeOK
  <2>3. poller' \in [Pollers -> Chain] /\ inflight' = inflight
    BY <1>6, PlaceMoves
  <2> QED  BY <2>1, <2>2, <2>3 DEF TypeOK, Chain
<1>7. ASSUME NEW p \in Pollers, NEW m \in Current(p),
             Returns(p, m) \/ Refuses(p, m) \/ ThrowsLate(p, m)
      PROVE  TypeOK'
  <2>1. m \in Messages
    BY OneCurrent
  <2>2. attempts' \in [Messages -> 0..(MaxAttempts - 1)] /\ faults' \in 0..MaxFaults
    BY <1>7, <2>1, AttemptsType
  <2>3. /\ Advance(p, m) /\ UNCHANGED <<outbox, running, sent>>
        /\ marked' \in [Messages -> {"none", "delivered", "failed"}]
        /\ threw' \subseteq Messages
    BY <1>7, <2>1, SettleMoves DEF TypeOK
  <2>4. poller' \in [Pollers -> Chain] /\ inflight' \subseteq inflight
    BY <2>1, <2>3, AdvanceMoves
  <2> QED  BY <2>2, <2>3, <2>4 DEF TypeOK, Chain
<1>8. ASSUME Restart PROVE TypeOK'
  <2>1. Idle \in [at : Places, todo : SUBSET Sessions, queue : SUBSET Messages]
    BY DEF Idle, Places
  <2>2. 0 \in 0..(MaxAttempts - 1)
    BY CountsAssumption
  <2>3. faults' \in 0..MaxFaults
    BY <1>8, CountsAssumption DEF TypeOK, Restart, Fault
  <2> QED  BY <1>8, <2>1, <2>2, <2>3 DEF TypeOK, Restart
<1>9. ASSUME UNCHANGED vars PROVE TypeOK'
  BY <1>9 DEF TypeOK, vars
<1> QED
  BY <1>1, <1>2, <1>3, <1>4, <1>5, <1>6, <1>7, <1>8, <1>9 DEF Next, Step

-----------------------------------------------------------------------------
(* The queues stay fresh *)

LEMMA FreshStep == ASSUME TypeOK, Fresh, [Next]_vars PROVE Fresh'
<1> USE DEF Fresh
<1>1. ASSUME NEW m \in Messages, Write(m) PROVE Fresh'
  BY <1>1 DEF Write, QueuesAreFresh, QueuesAreLeft, ChainsAreApart
<1>2. ASSUME NEW s \in Sessions, RunningChanges(s) PROVE Fresh'
  BY <1>2 DEF RunningChanges, QueuesAreFresh, QueuesAreLeft, ChainsAreApart
<1>3. ASSUME NEW p \in Pollers, NEW s \in Sessions, Visit(p, s) PROVE Fresh'
  <2>1. UNCHANGED <<outbox, marked>> /\ poller[p].at = "walk" /\ poller[p].queue = {}
    BY <1>3 DEF Visit, QueuesAreLeft
  <2>2. \A q \in Pollers : q # p => poller'[q] = poller[q]
    BY <1>3, VisitMoves
  <2>3. CASE /\ s \notin inflight /\ inflight' = inflight \cup {s}
             /\ poller'[p].queue = Undelivered(s) /\ poller'[p].at = "send"
    BY <2>1, <2>2, <2>3 DEF Undelivered, QueuesAreFresh, QueuesAreLeft, ChainsAreApart
  <2>4. CASE /\ inflight' = inflight
             /\ poller'[p].queue = poller[p].queue /\ poller'[p].at = "walk"
    BY <2>1, <2>2, <2>4 DEF QueuesAreFresh, QueuesAreLeft, ChainsAreApart
  <2> QED  BY <1>3, <2>3, <2>4, VisitMoves
<1>4. ASSUME NEW p \in Pollers,
             \/ Poll(p) \/ Rest(p) \/ Hangs(p)
             \/ \E m \in Current(p) : Lands(p, m)
      PROVE  Fresh'
  <2>1. /\ \A q \in Pollers : q # p => poller'[q] = poller[q]
        /\ poller'[p].queue = poller[p].queue
        /\ inflight' = inflight
    BY <1>4, PlaceMoves
  <2>2. UNCHANGED <<outbox, marked>>
    BY <1>4 DEF Poll, Rest, Hangs, Lands
  <2>3. poller'[p].at \in {"idle", "walk"} => poller[p].at \in {"idle", "walk"}
    BY <1>4 DEF Poll, Rest, Hangs, Lands, TypeOK
  <2> QED  BY <2>1, <2>2, <2>3 DEF QueuesAreFresh, QueuesAreLeft, ChainsAreApart
<1>5. ASSUME NEW p \in Pollers, NEW m \in Current(p),
             Returns(p, m) \/ Refuses(p, m) \/ ThrowsLate(p, m)
      PROVE  Fresh'
  <2>1. m \in Messages /\ m \in poller[p].queue
    BY OneCurrent
  <2>2. /\ Advance(p, m) /\ UNCHANGED outbox
        /\ \A n \in Messages : n # m => marked'[n] = marked[n]
    BY <1>5, <2>1, SettleMoves
  <2>3. /\ \A q \in Pollers : q # p => poller'[q] = poller[q]
        /\ poller'[p].queue = poller[p].queue \ {m}
        /\ poller'[p].at = IF poller'[p].queue = {} THEN "walk" ELSE "send"
        /\ \A t \in inflight : t \in inflight' \/ (t = SessionOf[m] /\ poller'[p].queue = {})
    BY <2>1, <2>2, AdvanceMoves
  <2>4. \A q \in Pollers : poller'[q].queue \subseteq poller[q].queue
                             /\ poller[q].queue \subseteq Messages
    BY <2>3 DEF TypeOK
  <2>5. QueuesAreFresh'
    <3> SUFFICES ASSUME NEW q \in Pollers, NEW n \in poller'[q].queue
                 PROVE  /\ n \in outbox' /\ marked'[n] = "none"
                        /\ SessionOf[n] \in inflight'
                        /\ \A k \in poller'[q].queue : SessionOf[k] = SessionOf[n]
      BY DEF QueuesAreFresh
    <3>1. n \in poller[q].queue /\ n \in Messages /\ n # m
      BY <2>1, <2>3, <2>4 DEF ChainsAreApart
    <3>2. /\ n \in outbox' /\ marked'[n] = "none" /\ SessionOf[n] \in inflight
          /\ \A k \in poller'[q].queue : SessionOf[k] = SessionOf[n]
      BY <2>2, <2>4, <3>1 DEF QueuesAreFresh
    <3>3. SessionOf[n] \in inflight'
      <4>1. CASE q = p
        BY <2>3, <3>2, <4>1
      <4>2. CASE q # p
        <5>1. SessionOf[n] # SessionOf[m]
          BY <2>1, <3>1, <4>2 DEF ChainsAreApart
        <5> QED  BY <2>3, <3>2, <5>1
      <4> QED  BY <4>1, <4>2
    <3> QED  BY <3>2, <3>3
  <2>6. QueuesAreLeft' /\ ChainsAreApart'
    BY <2>3, <2>4 DEF QueuesAreLeft, ChainsAreApart
  <2> QED  BY <2>5, <2>6
<1>6. ASSUME Restart PROVE Fresh'
  <2>1. \A p \in Pollers : poller'[p].queue = {}
    BY <1>6 DEF Restart, Idle
  <2> QED  BY <2>1 DEF QueuesAreFresh, QueuesAreLeft, ChainsAreApart
<1>7. ASSUME UNCHANGED vars PROVE Fresh'
  BY <1>7 DEF vars, QueuesAreFresh, QueuesAreLeft, ChainsAreApart
<1> QED
  BY <1>1, <1>2, <1>3, <1>4, <1>5, <1>6, <1>7 DEF Next, Step
-----------------------------------------------------------------------------
(* What is shown is paid for *)

(* A chain that was not recording, and is not now.                          *)
LEMMA LandingKept ==
    ASSUME NEW p \in Pollers, \A q \in Pollers : q # p => poller'[q] = poller[q],
           poller[p].at # "landed", poller'[p].at # "landed", NEW n \in Messages
    PROVE  Landing(n)' <=> Landing(n)
BY DEF Landing, Current

LEMMA LandingBegins ==
    ASSUME TypeOK, Fresh, NEW p \in Pollers, NEW m \in Current(p), Lands(p, m)
    PROVE  /\ m \in Messages /\ m \in outbox /\ marked[m] = "none" /\ ~Landing(m) /\ Landing(m)'
           /\ \A n \in Messages : n # m => (Landing(n)' <=> Landing(n))
<1>1. m \in Messages /\ m \in poller[p].queue
  BY OneCurrent
<1>2. m \in outbox /\ marked[m] = "none"
  BY <1>1 DEF Fresh, QueuesAreFresh
<1>3. /\ \A q \in Pollers : q # p => poller'[q] = poller[q]
      /\ poller'[p].queue = poller[p].queue
  BY PlaceMoves
<1>4. poller[p].at = "send" /\ poller'[p].at = "landed"
  BY DEF Lands, TypeOK
<1>5. Landing(m)'
  BY <1>3, <1>4 DEF Landing, Current
<1>6. ~Landing(m)
  <2> SUFFICES ASSUME NEW q \in Pollers, poller[q].at = "landed", m \in Current(q) PROVE FALSE
    BY DEF Landing
  <2>1. m \in poller[q].queue /\ q # p
    BY <1>4 DEF Current, Oldest
  <2> QED  BY <1>1, <2>1 DEF Fresh, ChainsAreApart
<1>7. ASSUME NEW n \in Messages, n # m PROVE Landing(n)' <=> Landing(n)
  <2>1. n \notin Current(p) /\ Current(p)' = Current(p)
    BY <1>3, <1>7, OneCurrent DEF Current
  <2>2. \A q \in Pollers : q # p => Current(q)' = Current(q)
    BY <1>3 DEF Current
  <2> QED  BY <1>3, <2>1, <2>2 DEF Landing
<1> QED  BY <1>1, <1>2, <1>5, <1>6, <1>7

LEMMA LandingEnds ==
    ASSUME TypeOK, Fresh, NEW p \in Pollers, NEW m \in Current(p),
           Returns(p, m) \/ Refuses(p, m) \/ ThrowsLate(p, m)
    PROVE  /\ m \in Messages /\ m \in outbox /\ marked[m] = "none"
           /\ \A n \in Messages : n # m => (Landing(n)' <=> Landing(n))
           /\ ~Landing(m)'
<1>1. m \in Messages /\ m \in poller[p].queue
  BY OneCurrent
<1>2. m \in outbox /\ marked[m] = "none"
  BY <1>1 DEF Fresh, QueuesAreFresh
<1>3. /\ \A q \in Pollers : q # p => poller'[q] = poller[q]
      /\ poller'[p].at # "landed"
  <2>1. Advance(p, m)
    BY <1>1, SettleMoves
  <2> QED  BY <1>1, <2>1, AdvanceMoves
<1>4. \A q \in Pollers : q # p => Current(q)' = Current(q)
  BY <1>3 DEF Current
<1>5. ASSUME NEW n \in Messages, n # m PROVE Landing(n)' <=> Landing(n)
  <2>1. n \notin Current(p)
    BY <1>5, OneCurrent
  <2> QED  BY <1>3, <1>4, <2>1 DEF Landing
<1>6. ~Landing(m)'
  <2> SUFFICES ASSUME NEW q \in Pollers, poller'[q].at = "landed", m \in Current(q)' PROVE FALSE
    BY DEF Landing
  <2>1. q # p /\ m \in poller[q].queue
    BY <1>3, <1>4 DEF Current, Oldest
  <2> QED  BY <1>1, <2>1 DEF Fresh, ChainsAreApart
<1> QED  BY <1>1, <1>2, <1>5, <1>6

(* The steps that neither show nor settle anything.                         *)
LEMMA QuietMoves ==
    ASSUME TypeOK, Fresh, NEW p \in Pollers,
           Poll(p) \/ Rest(p) \/ Hangs(p) \/ \E s \in Sessions : Visit(p, s)
    PROVE  /\ UNCHANGED <<outbox, marked, sent, threw>>
           /\ faults' = faults \/ faults' = faults + 1
           /\ \A n \in Messages : Landing(n)' <=> Landing(n)
<1>1. /\ UNCHANGED <<outbox, marked, sent, threw>>
      /\ faults' = faults \/ faults' = faults + 1
      /\ poller[p].at # "landed"
  BY DEF Poll, Rest, Hangs, Visit, Fault
<1>2. /\ \A q \in Pollers : q # p => poller'[q] = poller[q]
      /\ poller'[p].at # "landed"
  <2>1. CASE Poll(p) \/ Rest(p) \/ Hangs(p)
    <3>1. poller'[p].at # "landed"
      BY <2>1 DEF Poll, Rest, Hangs, TypeOK
    <3> QED  BY <2>1, <3>1, PlaceMoves
  <2>2. ASSUME NEW s \in Sessions, Visit(p, s)
        PROVE  /\ \A q \in Pollers : q # p => poller'[q] = poller[q]
               /\ poller'[p].at # "landed"
    BY <2>2, VisitMoves
  <2> QED  BY <2>1, <2>2
<1> QED  BY <1>1, <1>2, LandingKept

LEMMA PaidStep ==
    ASSUME TypeOK, Fresh, MarksAreEarned, ShowsArePaid, [Next]_vars
    PROVE  ShowsArePaid' /\ MarksAreEarned'
<1> DEFINE Paid(m) == /\ Landing(m) => sent[m] > 0 /\ m \notin Silent
                      /\ sent[m] <= 1 + faults
                      /\ marked[m] = "none" /\ ~Landing(m) => sent[m] <= faults
           Earned(m) == /\ marked[m] = "delivered" => sent[m] > 0 \/ m \in Silent
                        /\ marked[m] = "failed" => m \in threw
                        /\ marked[m] # "none" => m \in outbox
                        /\ sent[m] > 0 => m \in outbox
<1> SUFFICES ASSUME NEW n \in Messages PROVE Paid(n)' /\ Earned(n)'
  BY DEF ShowsArePaid, MarksAreEarned
<1>1. Paid(n) /\ Earned(n) /\ sent[n] \in Nat /\ faults \in Nat
  BY DEF ShowsArePaid, MarksAreEarned, TypeOK
<1>2. ASSUME NEW m \in Messages, Write(m) PROVE Paid(n)' /\ Earned(n)'
  BY <1>1, <1>2 DEF Write, Landing, Current
<1>3. ASSUME NEW s \in Sessions, RunningChanges(s) PROVE Paid(n)' /\ Earned(n)'
  BY <1>1, <1>3 DEF RunningChanges, Landing, Current
<1>4. ASSUME NEW p \in Pollers,
             Poll(p) \/ Rest(p) \/ Hangs(p) \/ \E s \in Sessions : Visit(p, s)
      PROVE  Paid(n)' /\ Earned(n)'
  <2>1. /\ UNCHANGED <<outbox, marked, sent, threw>>
        /\ faults' = faults \/ faults' = faults + 1
        /\ Landing(n)' <=> Landing(n)
    BY <1>4, QuietMoves
  <2> QED  BY <1>1, <2>1
<1>5. ASSUME NEW p \in Pollers, NEW m \in Current(p), Lands(p, m)
      PROVE  Paid(n)' /\ Earned(n)'
  <2>1. /\ m \in Messages /\ m \in outbox /\ marked[m] = "none" /\ ~Landing(m) /\ Landing(m)'
        /\ n # m => (Landing(n)' <=> Landing(n))
    BY <1>5, LandingBegins
  <2>2. /\ UNCHANGED <<outbox, marked, threw, faults>> /\ m \notin Silent
        /\ sent'[n] = IF n = m THEN sent[n] + 1 ELSE sent[n]
    BY <1>5 DEF Lands, TypeOK
  <2> QED  BY <1>1, <2>1, <2>2
<1>6. ASSUME NEW p \in Pollers, NEW m \in Current(p),
             Returns(p, m) \/ Refuses(p, m) \/ ThrowsLate(p, m)
      PROVE  Paid(n)' /\ Earned(n)'
  <2>1. /\ m \in Messages /\ m \in outbox /\ marked[m] = "none" /\ ~Landing(m)'
        /\ n # m => (Landing(n)' <=> Landing(n))
    BY <1>6, LandingEnds
  <2>2. /\ UNCHANGED <<outbox, sent>>
        /\ n # m => marked'[n] = marked[n]
        /\ threw \subseteq threw'
        /\ marked'[m] = "failed" => m \in threw'
        /\ marked' \in [Messages -> {"none", "delivered", "failed"}]
    BY <1>6, <2>1, SettleMoves
  <2>3. CASE Returns(p, m)
    <3>1. faults' = faults /\ marked' = [marked EXCEPT ![m] = "delivered"]
      BY <2>1, <2>3 DEF Returns, Mark
    <3>2. sent[m] > 0 \/ m \in Silent
      <4>1. CASE poller[p].at = "landed"
        BY <2>1, <4>1 DEF ShowsArePaid, Landing
      <4>2. CASE poller[p].at # "landed"
        BY <2>3, <4>2 DEF Returns
      <4> QED  BY <4>1, <4>2
    <3>3. marked'[m] = "delivered"
      BY <2>1, <3>1 DEF TypeOK
    <3> QED  BY <1>1, <2>1, <2>2, <3>1, <3>2, <3>3
  <2>4. CASE Refuses(p, m) \/ ThrowsLate(p, m)
    <3>1. faults' = faults + 1
      BY <2>4 DEF Refuses, ThrowsLate, Fault
    <3>2. marked'[m] # "delivered"
      BY <2>1, <2>4 DEF Refuses, ThrowsLate, Caught, Mark, TypeOK
    <3> QED  BY <1>1, <2>1, <2>2, <3>1, <3>2
  <2> QED  BY <1>6, <2>3, <2>4
<1>7. ASSUME Restart PROVE Paid(n)' /\ Earned(n)'
  <2>1. UNCHANGED <<outbox, marked, sent, threw>> /\ faults' = faults + 1
    BY <1>7 DEF Restart, Fault
  <2>2. ~Landing(n)'
    BY <1>7 DEF Restart, Landing, Idle
  <2> QED  BY <1>1, <2>1, <2>2
<1>8. ASSUME UNCHANGED vars PROVE Paid(n)' /\ Earned(n)'
  BY <1>1, <1>8 DEF vars, Landing, Current
<1> QED
  BY <1>2, <1>3, <1>4, <1>5, <1>6, <1>7, <1>8 DEF Next, Step
-----------------------------------------------------------------------------
(* What is shown is in order *)

LEMMA OrderStep ==
    ASSUME TypeOK, Fresh, MarksAreEarned, Ordered, [Next]_vars
    PROVE  Ordered'
<1> USE DEF Ordered
<1>1. ASSUME NEW m \in Messages, Write(m) PROVE Ordered'
  <2>1. UNCHANGED <<marked, poller, sent, threw>> /\ outbox' = outbox \cup {m}
    BY <1>1 DEF Write
  <2>2. \A k \in Messages : k < m => k \in outbox
    <3> SUFFICES ASSUME NEW k \in Messages, k < m PROVE k \in outbox
      OBVIOUS
    <3>1. m - 1 \in Messages /\ (k = m - 1 \/ k < m - 1)
      BY CountsAssumption DEF Messages
    <3> QED  BY <1>1, <3>1 DEF Write, WrittenInOrder
  <2>3. WrittenInOrder'
    BY <2>1, <2>2 DEF WrittenInOrder
  <2> QED  BY <2>1, <2>3 DEF QueuesAreInOrder, ShownInOrder, Past
<1>2. ASSUME NEW s \in Sessions, RunningChanges(s) PROVE Ordered'
  BY <1>2 DEF RunningChanges, WrittenInOrder, QueuesAreInOrder, ShownInOrder, Past
<1>3. ASSUME NEW p \in Pollers, NEW s \in Sessions, Visit(p, s) PROVE Ordered'
  <2>1. UNCHANGED <<outbox, marked, sent, threw>>
    BY <1>3 DEF Visit
  <2>2. /\ \A q \in Pollers : q # p => poller'[q] = poller[q]
        /\ poller'[p].queue = Undelivered(s) \/ poller'[p].queue = poller[p].queue
    BY <1>3, VisitMoves
  <2>3. ASSUME NEW n \in Undelivered(s), NEW m \in Messages, m < n,
               SessionOf[m] = SessionOf[n]
        PROVE  m \in Undelivered(s) \/ Past(m)
    BY <2>3 DEF Undelivered, Past, WrittenInOrder, TypeOK
  <2>4. QueuesAreInOrder'
    BY <2>1, <2>2, <2>3 DEF QueuesAreInOrder, Past
  <2> QED  BY <2>1, <2>4 DEF WrittenInOrder, ShownInOrder, Past
<1>4. ASSUME NEW p \in Pollers, Poll(p) \/ Rest(p) \/ Hangs(p) PROVE Ordered'
  <2>1. UNCHANGED <<outbox, marked, sent, threw>>
    BY <1>4 DEF Poll, Rest, Hangs
  <2>2. \A q \in Pollers : poller'[q].queue = poller[q].queue
    BY <1>4, PlaceMoves
  <2> QED  BY <2>1, <2>2 DEF WrittenInOrder, QueuesAreInOrder, ShownInOrder, Past
<1>5. ASSUME NEW p \in Pollers, NEW n \in Current(p), Lands(p, n) PROVE Ordered'
  <2>1. UNCHANGED <<outbox, marked, threw>> /\ n \in Messages /\ n \in poller[p].queue
    BY <1>5, OneCurrent DEF Lands
  <2>2. \A q \in Pollers : poller'[q].queue = poller[q].queue
    BY <1>5, PlaceMoves
  <2>3. ASSUME NEW m \in Messages, m < n, SessionOf[m] = SessionOf[n] PROVE Past(m)
    <3>1. m \notin poller[p].queue
      <4>1. m \in poller[p].queue => n <= m
        BY DEF Current, Oldest
      <4> QED  BY <2>1, <2>3, <4>1, CountsAssumption DEF Messages
    <3> QED  BY <2>1, <2>3, <3>1 DEF QueuesAreInOrder
  <2>4. \A k \in Messages : k # n => sent'[k] = sent[k]
    BY <1>5 DEF Lands, TypeOK
  <2>5. ShownInOrder'
    BY <2>1, <2>3, <2>4 DEF ShownInOrder, Past
  <2> QED  BY <2>1, <2>2, <2>5 DEF WrittenInOrder, QueuesAreInOrder, Past
<1>6. ASSUME NEW p \in Pollers, NEW n \in Current(p),
             Returns(p, n) \/ Refuses(p, n) \/ ThrowsLate(p, n)
      PROVE  Ordered'
  <2>1. n \in Messages
    BY OneCurrent
  <2>2. /\ Advance(p, n) /\ UNCHANGED <<outbox, sent>>
        /\ \A m \in Messages : Past(m) => Past(m)'
        /\ Past(n)'
    BY <1>6, <2>1, SettleMoves DEF Past
  <2>3. \A q \in Pollers : poller'[q].queue \subseteq poller[q].queue
                             /\ poller[q].queue \subseteq poller'[q].queue \cup {n}
    BY <2>1, <2>2, AdvanceMoves
  <2>4. QueuesAreInOrder'
    BY <2>2, <2>3 DEF QueuesAreInOrder
  <2> QED  BY <2>2, <2>4 DEF WrittenInOrder, ShownInOrder
<1>7. ASSUME Restart PROVE Ordered'
  <2>1. \A p \in Pollers : poller'[p].queue = {}
    BY <1>7 DEF Restart, Idle
  <2> QED  BY <1>7, <2>1 DEF Restart, WrittenInOrder, QueuesAreInOrder, ShownInOrder, Past
<1>8. ASSUME UNCHANGED vars PROVE Ordered'
  BY <1>8 DEF vars, WrittenInOrder, QueuesAreInOrder, ShownInOrder, Past
<1> QED
  BY <1>1, <1>2, <1>3, <1>4, <1>5, <1>6, <1>7, <1>8 DEF Next, Step

-----------------------------------------------------------------------------
(* The theorems *)

(* The queues are fresh, what is shown is paid for and earned, and in order.*)
THEOREM Inductive == Spec => []IInv
<1>1. Init => IInv
  <2> SUFFICES ASSUME Init PROVE IInv
    OBVIOUS
  <2>1. \A p \in Pollers : poller[p] = Idle /\ poller[p].queue = {} /\ poller[p].at = "idle"
    BY DEF Init, Idle
  <2>2. TypeOK
    <3>1. Idle \in [at : Places, todo : SUBSET Sessions, queue : SUBSET Messages]
      BY DEF Idle, Places
    <3> QED  BY <3>1, CountsAssumption DEF Init, TypeOK
  <2>3. Fresh
    BY <2>1 DEF Fresh, QueuesAreFresh, QueuesAreLeft, ChainsAreApart
  <2>4. MarksAreEarned /\ ShowsArePaid
    BY <2>1 DEF Init, MarksAreEarned, ShowsArePaid, Landing
  <2>5. Ordered
    BY <2>1 DEF Init, Ordered, WrittenInOrder, QueuesAreInOrder, ShownInOrder
  <2> QED  BY <2>2, <2>3, <2>4, <2>5 DEF IInv
<1>2. IInv /\ [Next]_vars => IInv'
  BY TypeStep, FreshStep, PaidStep, OrderStep DEF IInv
<1> QED  BY <1>1, <1>2, PTL DEF Spec

(* Each message is shown once, and once more for a fault at most; and none  *)
(* overtakes an earlier one of its session but one whose attempt failed     *)
(* (drainSession, inflightDeliveries, the ORDER BY of getDueOutboundMessages).*)
THEOREM OnceInOrder == Spec => []ShownOnceInOrder
<1>1. IInv => ShownOnceInOrder
  <2> SUFFICES ASSUME IInv PROVE ShownOnceInOrder
    OBVIOUS
  <2>1. ShownOncePerFault
    BY DEF IInv, ShowsArePaid, ShownOncePerFault
  <2>2. \A m \in Messages : Past(m) => sent[m] > 0 \/ m \in threw \/ m \in Silent
    BY DEF IInv, MarksAreEarned, Past, TypeOK
  <2>3. OrderUnlessFailed
    BY <2>2 DEF IInv, Ordered, ShownInOrder, OrderUnlessFailed
  <2> QED  BY <2>1, <2>3 DEF IInv, ShownOnceInOrder
<1> QED  BY <1>1, Inductive, PTL

(* A step of the chains is a step of the outbox, or none of its concern.    *)
LEMMA StepImplements ==
    ASSUME IInv, [Next]_vars
    PROVE  [Abstract!Next]_<<Status, sent>>
<1> USE DEF IInv
<1>1. ASSUME NEW m \in Messages, Write(m) PROVE Abstract!Next
  <2>1. marked[m] = "none"
    BY <1>1 DEF Write, MarksAreEarned, TypeOK
  <2>2. Status[m] = "absent" /\ Status' = [Status EXCEPT ![m] = "queued"] /\ UNCHANGED sent
    BY <1>1, <2>1 DEF Write, Status
  <2> QED  BY <2>2 DEF Abstract!Next, Abstract!Put
<1>2. ASSUME NEW p \in Pollers, NEW m \in Current(p), Lands(p, m) PROVE Abstract!Next
  <2>1. m \in Messages /\ Status[m] = "queued"
    BY <1>2, LandingBegins DEF Status
  <2>2. m \notin Silent /\ sent' = [sent EXCEPT ![m] = @ + 1] /\ Status' = Status
    BY <1>2 DEF Lands, Status
  <2> QED  BY <2>1, <2>2 DEF Abstract!Next, Abstract!Show
<1>3. ASSUME NEW p \in Pollers, NEW m \in Current(p), Returns(p, m) PROVE Abstract!Next
  <2>1. m \in Messages /\ m \in outbox /\ marked[m] = "none"
    BY <1>3, LandingEnds
  <2>2. marked' = [marked EXCEPT ![m] = "delivered"] /\ UNCHANGED <<outbox, sent>>
    BY <1>3, <2>1 DEF Returns, Mark
  <2>3. Status[m] = "queued" /\ Status' = [Status EXCEPT ![m] = "delivered"]
    BY <2>1, <2>2 DEF Status, TypeOK
  <2>4. sent[m] > 0 \/ m \in Silent
    BY <1>3, <2>1 DEF Returns, ShowsArePaid, Landing
  <2> QED  BY <2>1, <2>2, <2>3, <2>4 DEF Abstract!Next, Abstract!Deliver
<1>4. ASSUME NEW p \in Pollers, NEW m \in Current(p), Refuses(p, m) \/ ThrowsLate(p, m)
      PROVE  Abstract!Next \/ UNCHANGED <<Status, sent>>
  <2>1. m \in Messages /\ m \in outbox /\ marked[m] = "none"
    BY <1>4, LandingEnds
  <2>2. Caught(p, m)
    BY <1>4 DEF Refuses, ThrowsLate
  <2>3. m \notin Silent
    BY <1>4, <2>1 DEF Refuses, ThrowsLate, ShowsArePaid, Landing
  <2>4. CASE GivesUp(m)
    <3>1. marked' = [marked EXCEPT ![m] = "failed"] /\ UNCHANGED <<outbox, sent>>
      BY <2>1, <2>2, <2>4 DEF Caught, Mark
    <3>2. Status[m] = "queued" /\ Status' = [Status EXCEPT ![m] = "failed"]
      BY <2>1, <3>1 DEF Status, TypeOK
    <3> QED  BY <2>1, <2>3, <3>1, <3>2 DEF Abstract!Next, Abstract!Fail
  <2>5. CASE ~GivesUp(m)
    BY <2>2, <2>5 DEF Caught, Status
  <2> QED  BY <2>4, <2>5
<1>5. ASSUME UNCHANGED <<outbox, marked, sent>> PROVE UNCHANGED <<Status, sent>>
  BY <1>5 DEF Status
<1>6. ASSUME \/ \E p \in Pollers : \/ Poll(p) \/ Rest(p) \/ Hangs(p)
                                   \/ \E s \in Sessions : Visit(p, s)
             \/ \E s \in Sessions : RunningChanges(s)
             \/ Restart \/ UNCHANGED vars
      PROVE  UNCHANGED <<outbox, marked, sent>>
  BY <1>6 DEF Poll, Rest, Hangs, Visit, RunningChanges, Restart, vars
<1> QED
  BY <1>1, <1>2, <1>3, <1>4, <1>5, <1>6 DEF Next, Step

(* The two timer chains, with their shared maps, restarts and errors,       *)
(* implement the outbox: a message is shown before it counts as delivered,  *)
(* is settled once and is not shown again once it is settled.               *)
THEOREM DeliveryImplementsOutbox == Spec => ImplementsOutbox
<1>1. Init => Abstract!Init
  BY DEF Init, Status, Abstract!Init
<1>2. IInv /\ [Next]_vars => [Abstract!Next]_<<Status, sent>>
  BY StepImplements
<1> QED  BY <1>1, <1>2, Inductive, PTL DEF Spec, ImplementsOutbox, Abstract!Spec
=============================================================================
