------------------------ MODULE RunnerLifecycleProofs ------------------------
(* Proofs about RunnerLifecycle, for every set of sessions, groups, promises *)
(* and runners and in both modes.                                            *)
EXTENDS RunnerLifecycle, TLAPS

(* Maps, promises and runners point at one another. *)
PromiseListed(p) ==
    InFlight(p) => /\ promise[p].session \in Sessions
                   /\ wakePromises[promise[p].session] = p

WakeEntry(s) ==
    wakePromises[s] # None => /\ InFlight(wakePromises[s])
                              /\ promise[wakePromises[s]].session = s

WakeMap ==
    /\ \A p \in Promises : PromiseListed(p)
    /\ \A s \in Sessions : WakeEntry(s)

RunnerListed(r) ==
    /\ runner[r].state # "free" => runner[r].session \in Sessions
    /\ Attached(r) => activeContainers[runner[r].session] = r

ContainerEntry(s) ==
    activeContainers[s] # None => /\ Attached(activeContainers[s])
                                  /\ runner[activeContainers[s]].session = s

RunnerMap ==
    /\ \A r \in Runners : RunnerListed(r)
    /\ \A s \in Sessions : ContainerEntry(s)

(* A promise has a child exactly in its turn, and no other runner competes. *)
ChildMatches(p) ==
    /\ (promise[p].child # None) <=> (promise[p].state = "turn")
    /\ promise[p].state = "turn" =>
          activeContainers[promise[p].session] = promise[p].child
    /\ promise[p].state \in {"queued", "preparing"} =>
          activeContainers[promise[p].session] = None

HasParent(r) == SingleProcess /\ Attached(r) => \E p \in Promises : promise[p].child = r

ChildOfTurn ==
    /\ \A p \in Promises : ChildMatches(p)
    /\ \A r \in Runners : HasParent(r)

(* How a runner can have got out of the host's hands. *)
Origin(r) ==
    /\ SingleProcess => runner[r].state \notin {"closing", "detaching", "detached"}
    /\ ~StopMayFail => runner[r].state \notin {"detaching", "detached"}

DetachedOrigin == \A r \in Runners : Origin(r)

(* The queue of a group: "ahead" orders its turns, "behind" points at the   *)
(* immediate predecessor, and the slot holds the latest.                    *)
GroupOfTurn(p) == GroupOf[promise[p].session]

Queued(p) ==
    InFlight(p) =>
        /\ ahead[p] \subseteq Turns(GroupOfTurn(p))
        /\ p \notin ahead[p]
        /\ (promise[p].behind = None) <=> (ahead[p] = {})
        /\ promise[p].behind # None =>
              /\ promise[p].behind \in ahead[p]
              /\ ahead[p] = ahead[promise[p].behind] \cup {promise[p].behind}
        /\ promise[p].state # "queued" => promise[p].behind = None
        /\ groupTurnPromises[GroupOfTurn(p)] # None

Ordered(p, q) ==
    InFlight(p) /\ InFlight(q) /\ p # q /\ GroupOfTurn(p) = GroupOfTurn(q)
        => p \in ahead[q] \/ q \in ahead[p]

SlotIsLatest(g) ==
    groupTurnPromises[g] # None =>
        /\ groupTurnPromises[g] \in Turns(g)
        /\ Turns(g) = ahead[groupTurnPromises[g]] \cup {groupTurnPromises[g]}

TurnQueue ==
    SingleProcess =>
        /\ \A p \in Promises : Queued(p)
        /\ \A p, q \in Promises : Ordered(p, q)
        /\ \A g \in Groups : SlotIsLatest(g)

Runs == RunnerMap /\ ChildOfTurn /\ DetachedOrigin

IInv == TypeOK /\ WakeMap /\ TurnQueue /\ Runs

-----------------------------------------------------------------------------

(* The records of the two idle identities have their types, and so have the *)
(* pieces the actions are built from.                                       *)
LEMMA SettleType ==
    ASSUME TypeOK, NEW p \in Promises, Settle(p)
    PROVE  /\ promise' \in [Promises -> [state : PromiseStates,
                                         session : Sessions \cup {None},
                                         behind : Promises \cup {None},
                                         child : Runners \cup {None}]]
           /\ wakePromises' \in [Sessions -> Promises \cup {None}]
           /\ groupTurnPromises' \in [Groups -> Promises \cup {None}]
           /\ ahead' \in [Promises -> SUBSET Promises]
<1>1. \A q \in Promises :
        AfterTurn(p, q) \in [state : PromiseStates, session : Sessions \cup {None},
                             behind : Promises \cup {None}, child : Runners \cup {None}]
  <2> SUFFICES ASSUME NEW q \in Promises
               PROVE  AfterTurn(p, q) \in [state : PromiseStates, session : Sessions \cup {None},
                                           behind : Promises \cup {None},
                                           child : Runners \cup {None}]
    OBVIOUS
  <2>1. promise[q] \in [state : PromiseStates, session : Sessions \cup {None},
                        behind : Promises \cup {None}, child : Runners \cup {None}]
    BY DEF TypeOK
  <2>2. [promise[q] EXCEPT !.behind = None] \in
           [state : PromiseStates, session : Sessions \cup {None},
            behind : Promises \cup {None}, child : Runners \cup {None}]
    BY <2>1
  <2> QED  BY <2>1, <2>2 DEF AfterTurn
<1>2. FreePromise \in [state : PromiseStates, session : Sessions \cup {None},
                       behind : Promises \cup {None}, child : Runners \cup {None}]
  BY DEF FreePromise, PromiseStates
<1>3. QED
  BY <1>1, <1>2 DEF TypeOK, Settle, ClearSlot

LEMMA KillAllType ==
    ASSUME TypeOK, NEW K, KillAll(K)
    PROVE  runner' \in [Runners -> [state : RunnerStates, session : Sessions \cup {None}]]
  BY DEF TypeOK, KillAll

(* Type correctness of every variable, for every value of the constants.    *)
THEOREM TypeCorrect == Spec => []TypeOK
<1>1. Init => TypeOK
  BY DEF Init, TypeOK, FreePromise, FreeRunner, PromiseStates, RunnerStates
<1>2. TypeOK /\ [Next]_vars => TypeOK'
  <2> SUFFICES ASSUME TypeOK, [Next]_vars PROVE TypeOK'
    OBVIOUS
  <2>1. ASSUME NEW s \in Sessions, CreateSession(s) PROVE TypeOK'
    BY <2>1 DEF CreateSession, TypeOK
  <2>2. ASSUME NEW s \in Sessions, Kill(s) PROVE TypeOK'
    BY <2>2, KillAllType DEF Kill, TypeOK
  <2>3. ASSUME NEW s \in Sessions, NEW p \in Promises, Wake(s, p) PROVE TypeOK'
    <3>1. PrevTurn(s) \in Promises \cup {None}
      BY GroupOfAssumption DEF PrevTurn, TypeOK
    <3>2. Turns(GroupOf[s]) \in SUBSET Promises
      BY DEF Turns
    <3>3. QED
      BY <2>3, <3>1, <3>2 DEF Wake, TypeOK, PromiseStates
  <2>4. ASSUME NEW p \in Promises, SkipArchived(p) PROVE TypeOK'
    BY <2>4, SettleType DEF SkipArchived, TypeOK
  <2>5. ASSUME NEW p \in Promises, BeginSpawn(p) PROVE TypeOK'
    BY <2>5 DEF BeginSpawn, TypeOK, PromiseStates
  <2>6. ASSUME NEW p \in Promises, SpawnFails(p) PROVE TypeOK'
    BY <2>6, SettleType DEF SpawnFails, TypeOK
  <2>7. ASSUME NEW p \in Promises, NEW r \in Runners, SpawnRunner(p, r) PROVE TypeOK'
    <3>1. /\ runner' \in [Runners -> [state : RunnerStates, session : Sessions \cup {None}]]
          /\ activeContainers' \in [Sessions -> Runners \cup {None}]
      BY <2>7 DEF SpawnRunner, TypeOK, RunnerStates
    <3>2. CASE SingleProcess
      BY <2>7, <3>1, <3>2 DEF SpawnRunner, TypeOK, PromiseStates
    <3>3. CASE ~SingleProcess
      BY <2>7, <3>1, <3>3, SettleType DEF SpawnRunner, TypeOK
    <3>4. QED
      BY <3>2, <3>3
  <2>8. ASSUME NEW r \in Runners, CloseHandler(r),
               runner' \in [Runners -> [state : RunnerStates, session : Sessions \cup {None}]],
               UNCHANGED <<sessionRow, archived>>
        PROVE TypeOK'
    <3>1. activeContainers' \in [Sessions -> Runners \cup {None}]
      BY <2>8 DEF CloseHandler, TypeOK
    <3>2. CASE \E p \in Promises : promise[p].child = r /\ Settle(p)
      BY <2>8, <3>1, <3>2, SettleType DEF TypeOK
    <3>3. CASE UNCHANGED <<promise, wakePromises, groupTurnPromises, ahead>>
      BY <2>8, <3>1, <3>3 DEF TypeOK
    <3>4. QED
      BY <2>8, <3>2, <3>3 DEF CloseHandler
  <2>9. ASSUME NEW r \in Runners, RunnerCloses(r) \/ CliCloses(r) PROVE TypeOK'
    <3>1. runner' \in [Runners -> [state : RunnerStates, session : Sessions \cup {None}]]
      BY <2>9 DEF RunnerCloses, CliCloses, TypeOK, FreeRunner, RunnerStates
    <3>2. QED
      BY <2>8, <2>9, <3>1 DEF RunnerCloses, CliCloses
  <2>10. ASSUME NEW r \in Runners, DetachedExits(r) PROVE TypeOK'
    BY <2>10 DEF DetachedExits, TypeOK, FreeRunner, RunnerStates
  <2>11. ASSUME NEW g \in Groups, Disconnect(g) \/ Repair(g) PROVE TypeOK'
    BY <2>11, KillAllType DEF Disconnect, Repair, TypeOK
  <2>12. CASE HostRestart
    <3>1. runner' \in [Runners -> [state : RunnerStates, session : Sessions \cup {None}]]
      BY <2>12 DEF HostRestart, TypeOK, FreeRunner, RunnerStates
    <3>2. promise' \in [Promises -> [state : PromiseStates,
                                     session : Sessions \cup {None},
                                     behind : Promises \cup {None},
                                     child : Runners \cup {None}]]
      BY <2>12 DEF HostRestart, FreePromise, PromiseStates
    <3>3. QED
      BY <2>12, <3>1, <3>2 DEF HostRestart, TypeOK
  <2>13. CASE UNCHANGED vars
    BY <2>13 DEF vars, TypeOK
  <2>14. QED
    BY <2>1, <2>2, <2>3, <2>4, <2>5, <2>6, <2>7, <2>9, <2>10, <2>11, <2>12, <2>13 DEF Next
<1>3. QED
  BY <1>1, <1>2, PTL DEF Spec

-----------------------------------------------------------------------------
(* The inductive invariant: the promises *)

(* What a settled promise leaves behind in the promise map. *)
LEMMA SettleEffect ==
    ASSUME TypeOK, NEW p \in Promises, Settle(p)
    PROVE  /\ promise'[p] = FreePromise
           /\ ~InFlight(p)'
           /\ \A q \in Promises \ {p} :
                 /\ promise'[q].state = promise[q].state
                 /\ promise'[q].session = promise[q].session
                 /\ promise'[q].child = promise[q].child
                 /\ promise'[q].behind = IF promise[q].behind = p THEN None
                                         ELSE promise[q].behind
                 /\ InFlight(q)' <=> InFlight(q)
                 /\ GroupOfTurn(q)' = GroupOfTurn(q)
           /\ \A g \in Groups : Turns(g)' = Turns(g) \ {p}
<1>1. \A q \in Promises : promise'[q] = IF q = p THEN FreePromise ELSE AfterTurn(p, q)
  BY DEF Settle
<1>2. promise'[p] = FreePromise /\ ~InFlight(p)'
  BY <1>1 DEF FreePromise, InFlight
<1>3. \A q \in Promises \ {p} :
         /\ promise'[q].state = promise[q].state
         /\ promise'[q].session = promise[q].session
         /\ promise'[q].child = promise[q].child
         /\ promise'[q].behind = IF promise[q].behind = p THEN None ELSE promise[q].behind
         /\ InFlight(q)' <=> InFlight(q)
  <2> SUFFICES ASSUME NEW q \in Promises \ {p}
               PROVE  /\ promise'[q].state = promise[q].state
                      /\ promise'[q].session = promise[q].session
                      /\ promise'[q].child = promise[q].child
                      /\ promise'[q].behind = IF promise[q].behind = p THEN None
                                              ELSE promise[q].behind
    BY DEF InFlight
  <2>1. promise[q] \in [state : PromiseStates, session : Sessions \cup {None},
                        behind : Promises \cup {None}, child : Runners \cup {None}]
    BY DEF TypeOK
  <2>2. CASE promise[q].behind = p
    <3>1. promise'[q] = [promise[q] EXCEPT !.behind = None]
      BY <1>1, <2>2 DEF AfterTurn
    <3> QED  BY <2>1, <2>2, <3>1
  <2>3. CASE promise[q].behind # p
    <3>1. promise'[q] = promise[q]
      BY <1>1, <2>3 DEF AfterTurn
    <3> QED  BY <2>3, <3>1
  <2> QED  BY <2>2, <2>3
<1>4. \A q \in Promises \ {p} : GroupOfTurn(q)' = GroupOfTurn(q)
  BY <1>3 DEF GroupOfTurn
<1>5. \A g \in Groups : Turns(g)' = Turns(g) \ {p}
  BY <1>2, <1>3 DEF Turns, GroupOfTurn
<1>6. QED
  BY <1>2, <1>3, <1>5, <1>4

(* When the promise at the head of its queue settles, the maps of promises  *)
(* stay consistent and the queue keeps its order.                           *)
LEMMA SettleKeepsWakeMap ==
    ASSUME TypeOK, WakeMap, NEW p \in Promises, InFlight(p),
           Settle(p)
    PROVE  WakeMap'
<1>1. wakePromises' = [wakePromises EXCEPT ![promise[p].session] = None]
  BY DEF Settle
<1>2. promise[p].session \in Sessions /\ wakePromises[promise[p].session] = p
  BY DEF WakeMap, PromiseListed
<1>3. ASSUME NEW q \in Promises PROVE PromiseListed(q)'
  <2> SUFFICES ASSUME InFlight(q)'
               PROVE  promise'[q].session \in Sessions /\ wakePromises'[promise'[q].session] = q
    BY DEF PromiseListed
  <2>1. q # p
    BY SettleEffect
  <2>2. InFlight(q) /\ promise'[q].session = promise[q].session
    BY <2>1, SettleEffect
  <2>3. promise[q].session # promise[p].session
    BY <1>2, <2>1, <2>2 DEF WakeMap, PromiseListed
  <2>4. QED
    BY <1>1, <2>2, <2>3 DEF WakeMap, PromiseListed, TypeOK
<1>4. ASSUME NEW s \in Sessions PROVE WakeEntry(s)'
  <2> SUFFICES ASSUME wakePromises'[s] # None
               PROVE  /\ promise'[wakePromises'[s]].state # "free"
                      /\ promise'[wakePromises'[s]].session = s
    BY DEF WakeEntry, InFlight
  <2>1. s # promise[p].session /\ wakePromises'[s] = wakePromises[s]
    BY <1>1, <1>2 DEF TypeOK
  <2>2. InFlight(wakePromises[s]) /\ promise[wakePromises[s]].session = s
    BY <2>1 DEF WakeMap, WakeEntry
  <2>3. wakePromises[s] \in Promises \ {p}
    BY <2>1, <2>2 DEF TypeOK
  <2>4. /\ promise'[wakePromises[s]].state = promise[wakePromises[s]].state
        /\ promise'[wakePromises[s]].session = promise[wakePromises[s]].session
    BY <2>3, SettleEffect
  <2>5. QED
    BY <2>1, <2>2, <2>4 DEF InFlight
<1>5. QED
  BY <1>3, <1>4 DEF WakeMap

LEMMA SettleKeepsQueue ==
    ASSUME TypeOK, WakeMap, TurnQueue, NEW p \in Promises, InFlight(p),
           promise[p].behind = None,
           Settle(p)
    PROVE  TurnQueue'
<1> SUFFICES ASSUME SingleProcess PROVE TurnQueue'
  BY DEF TurnQueue
<1>1. /\ ahead[p] = {}
      /\ \A q \in Promises : ahead'[q] = IF q = p THEN {} ELSE ahead[q] \ {p}
      /\ groupTurnPromises' = ClearSlot(p)
  BY DEF TurnQueue, Queued, Settle
<1>2. GroupOfTurn(p) \in Groups
  BY GroupOfAssumption DEF WakeMap, PromiseListed, GroupOfTurn
<1>3. \A q \in Promises : InFlight(q) /\ q # p /\ GroupOfTurn(q) = GroupOfTurn(p) => p \in ahead[q]
  BY <1>1 DEF TurnQueue, Ordered
<1>4. ASSUME NEW q \in Promises, InFlight(q)'
      PROVE  /\ q # p
             /\ InFlight(q)
             /\ GroupOfTurn(q)' = GroupOfTurn(q)
             /\ GroupOfTurn(q) \in Groups
             /\ ahead'[q] = ahead[q] \ {p}
  <2>1. q # p
    BY <1>4, SettleEffect
  <2>2. InFlight(q) /\ GroupOfTurn(q)' = GroupOfTurn(q)
    BY <1>4, <2>1, SettleEffect
  <2>3. GroupOfTurn(q) \in Groups
    BY <2>2, GroupOfAssumption DEF WakeMap, PromiseListed, GroupOfTurn
  <2>4. QED
    BY <1>1, <2>1, <2>2, <2>3
<1>5. ASSUME NEW q \in Promises PROVE Queued(q)'
  <2> SUFFICES ASSUME InFlight(q)' PROVE Queued(q)'
    BY DEF Queued
  <2>1. q # p /\ InFlight(q) /\ GroupOfTurn(q)' = GroupOfTurn(q) /\ ahead'[q] = ahead[q] \ {p}
    BY <1>4
  <2>2. Queued(q)
    BY DEF TurnQueue
  <2>3. Turns(GroupOfTurn(q))' = Turns(GroupOfTurn(q)) \ {p}
    BY <1>4, <2>1, SettleEffect DEF Turns
  <2>4. ahead'[q] \subseteq Turns(GroupOfTurn(q))' /\ q \notin ahead'[q]
    BY <2>1, <2>2, <2>3 DEF Queued
  <2>5. groupTurnPromises'[GroupOfTurn(q)'] # None
    <3>1. CASE GroupOfTurn(q) # GroupOfTurn(p)
      BY <1>1, <2>1, <2>2, <3>1 DEF ClearSlot, Queued, TypeOK, GroupOfTurn
    <3>2. CASE GroupOfTurn(q) = GroupOfTurn(p)
      <4>1. groupTurnPromises[GroupOfTurn(p)] # p
        BY <1>1, <1>2, <2>1, <3>2, NoneAssumption DEF TurnQueue, SlotIsLatest, Turns, GroupOfTurn
      <4>2. QED
        BY <1>1, <2>1, <2>2, <3>2, <4>1 DEF ClearSlot, Queued, GroupOfTurn
    <3>3. QED
      BY <3>1, <3>2
  <2>6. /\ promise'[q].state = promise[q].state
        /\ promise'[q].behind = IF promise[q].behind = p THEN None ELSE promise[q].behind
    BY <2>1, SettleEffect
  <2>7. CASE promise[q].behind = None
    BY <2>1, <2>2, <2>4, <2>5, <2>6, <2>7 DEF Queued
  <2>8. CASE promise[q].behind = p
    <3>1. ahead[q] = {p}
      BY <1>1, <2>1, <2>2, <2>8, NoneAssumption DEF Queued
    <3>2. ahead'[q] = {} /\ promise'[q].behind = None
      BY <2>1, <2>6, <2>8, <3>1
    <3>3. QED
      BY <2>1, <2>2, <2>4, <2>5, <2>6, <3>2 DEF Queued
  <2>9. CASE promise[q].behind \notin {None, p}
    <3>1. promise[q].behind \in Promises \ {p} /\ promise'[q].behind = promise[q].behind
      BY <2>6, <2>9 DEF TypeOK
    <3>2. /\ promise[q].behind \in ahead[q]
          /\ ahead[q] = ahead[promise[q].behind] \cup {promise[q].behind}
          /\ promise[q].state = "queued"
      BY <2>1, <2>2, <2>9 DEF Queued
    <3>3. ahead'[promise[q].behind] = ahead[promise[q].behind] \ {p}
      BY <1>1, <3>1
    <3>4. /\ promise'[q].behind \in ahead'[q]
          /\ ahead'[q] = ahead'[promise'[q].behind] \cup {promise'[q].behind}
      BY <2>1, <3>1, <3>2, <3>3
    <3>5. promise'[q].state = "queued" /\ promise'[q].behind # None /\ ahead'[q] # {}
      BY <2>6, <2>9, <3>2, <3>4
    <3>6. QED
      BY <2>4, <2>5, <3>4, <3>5 DEF Queued
  <2>10. QED
    BY <2>7, <2>8, <2>9
<1>6. ASSUME NEW q \in Promises, NEW u \in Promises PROVE Ordered(q, u)'
  BY <1>4, SettleEffect DEF TurnQueue, Ordered
<1>7. ASSUME NEW g \in Groups PROVE SlotIsLatest(g)'
  <2> SUFFICES ASSUME groupTurnPromises'[g] # None PROVE SlotIsLatest(g)'
    BY DEF SlotIsLatest
  <2>1. groupTurnPromises'[g] = groupTurnPromises[g] /\ groupTurnPromises[g] \notin {p, None}
    <3>1. CASE g = GroupOfTurn(p)
      BY <1>1, <1>2, <3>1 DEF ClearSlot, TypeOK, GroupOfTurn
    <3>2. CASE g # GroupOfTurn(p)
      <4>1. groupTurnPromises'[g] = groupTurnPromises[g]
        BY <1>1, <1>2, <3>2 DEF ClearSlot, TypeOK, GroupOfTurn
      <4>2. p \notin Turns(g)
        BY <3>2 DEF Turns, GroupOfTurn
      <4>3. QED
        BY <4>1, <4>2 DEF TurnQueue, SlotIsLatest
    <3>3. QED
      BY <3>1, <3>2
  <2>2. /\ groupTurnPromises[g] \in Turns(g)
        /\ Turns(g) = ahead[groupTurnPromises[g]] \cup {groupTurnPromises[g]}
        /\ groupTurnPromises[g] \in Promises
    BY <2>1 DEF TurnQueue, SlotIsLatest, TypeOK
  <2>3. Turns(g)' = Turns(g) \ {p}
    BY SettleEffect
  <2>4. ahead'[groupTurnPromises[g]] = ahead[groupTurnPromises[g]] \ {p}
    BY <1>1, <2>1, <2>2
  <2>5. QED
    BY <2>1, <2>2, <2>3, <2>4 DEF SlotIsLatest
<1>8. QED
  BY <1>5, <1>6, <1>7 DEF TurnQueue

(* A group with no slot has no turn: what a new wake finds free is free.    *)
LEMMA EmptySlot ==
    ASSUME TypeOK, WakeMap, TurnQueue, SingleProcess, NEW g \in Groups
    PROVE  (groupTurnPromises[g] = None) <=> (Turns(g) = {})
<1>1. ASSUME NEW p \in Turns(g) PROVE groupTurnPromises[g] # None
  BY DEF TurnQueue, Queued, Turns, GroupOfTurn
<1>2. groupTurnPromises[g] # None => Turns(g) # {}
  BY DEF TurnQueue, SlotIsLatest
<1>3. QED
  BY <1>1, <1>2

(* A wake adds its promise at the end of the queue. *)
LEMMA WakeKeepsPromises ==
    ASSUME TypeOK, WakeMap, TurnQueue,
           NEW s \in Sessions, NEW p \in Promises, Wake(s, p)
    PROVE  WakeMap' /\ TurnQueue'
<1> DEFINE g == GroupOf[s]
<1>1. /\ g \in Groups
      /\ ~InFlight(p)
      /\ promise'[p] = [state |-> "queued", session |-> s, behind |-> PrevTurn(s), child |-> None]
      /\ \A q \in Promises \ {p} : promise'[q] = promise[q]
      /\ wakePromises[s] = None
      /\ wakePromises' = [wakePromises EXCEPT ![s] = p]
      /\ ahead'[p] = Turns(g)
      /\ \A q \in Promises \ {p} : ahead'[q] = ahead[q]
  BY GroupOfAssumption DEF Wake, MustSpawn, TypeOK
<1>2. /\ InFlight(p)' /\ GroupOfTurn(p)' = g
      /\ \A q \in Promises \ {p} : (InFlight(q)' <=> InFlight(q)) /\ GroupOfTurn(q)' = GroupOfTurn(q)
  BY <1>1 DEF InFlight, GroupOfTurn
<1>3. WakeMap'
  <2>1. ASSUME NEW q \in Promises PROVE PromiseListed(q)'
    <3>1. CASE q = p
      BY <1>1, <3>1 DEF PromiseListed, TypeOK
    <3>2. CASE q # p
      <4> SUFFICES ASSUME InFlight(q)'
                   PROVE  promise'[q].session \in Sessions /\ wakePromises'[promise'[q].session] = q
        BY DEF PromiseListed
      <4>1. /\ promise'[q].session = promise[q].session /\ promise[q].session \in Sessions
            /\ wakePromises[promise[q].session] = q
        BY <1>1, <1>2, <3>2 DEF WakeMap, PromiseListed
      <4>2. promise[q].session # s
        BY <1>1, <4>1, NoneAssumption
      <4>3. QED
        BY <1>1, <4>1, <4>2 DEF TypeOK
    <3>3. QED
      BY <3>1, <3>2
  <2>2. ASSUME NEW t \in Sessions PROVE WakeEntry(t)'
    <3> SUFFICES ASSUME wakePromises'[t] # None
                 PROVE  /\ promise'[wakePromises'[t]].state # "free"
                        /\ promise'[wakePromises'[t]].session = t
      BY DEF WakeEntry, InFlight
    <3>1. CASE t = s
      BY <1>1, <3>1 DEF TypeOK
    <3>2. CASE t # s
      <4>1. /\ wakePromises'[t] = wakePromises[t]
            /\ InFlight(wakePromises[t]) /\ promise[wakePromises[t]].session = t
        BY <1>1, <3>2 DEF TypeOK, WakeMap, WakeEntry
      <4>2. wakePromises[t] \in Promises \ {p}
        BY <1>1, <4>1 DEF TypeOK
      <4>3. QED
        BY <1>1, <4>1, <4>2 DEF InFlight
    <3>3. QED
      BY <3>1, <3>2
  <2>3. QED
    BY <2>1, <2>2 DEF WakeMap
<1>4. ASSUME SingleProcess PROVE TurnQueue'
  <2>1. /\ groupTurnPromises' = [groupTurnPromises EXCEPT ![g] = p]
        /\ PrevTurn(s) = groupTurnPromises[g]
    BY <1>4 DEF Wake, PrevTurn
  <2>2. \A h \in Groups : Turns(h)' = IF h = g THEN Turns(h) \cup {p} ELSE Turns(h)
    BY <1>1, <1>2 DEF Turns, GroupOfTurn
  <2>3. p \notin Turns(g) /\ \A q \in Promises : InFlight(q) => p \notin ahead[q]
    BY <1>1, <1>4 DEF TurnQueue, Queued, Turns
  <2>4. ASSUME NEW q \in Promises PROVE Queued(q)'
    <3>1. CASE q = p
      <4>1. /\ promise'[p].behind = groupTurnPromises[g] /\ promise'[p].state = "queued"
            /\ GroupOfTurn(p)' = g /\ groupTurnPromises'[g] = p
            /\ Turns(g)' = Turns(g) \cup {p}
        BY <1>1, <1>2, <2>1, <2>2 DEF TypeOK
      <4>2. Turns(GroupOfTurn(p))' = Turns(g) \cup {p}
        BY <4>1 DEF Turns
      <4>3. (promise'[p].behind = None) <=> (ahead'[p] = {})
        BY <1>1, <1>4, <4>1, EmptySlot
      <4>4. ASSUME groupTurnPromises[g] # None
            PROVE  /\ groupTurnPromises[g] \in Turns(g)
                   /\ Turns(g) = ahead'[groupTurnPromises[g]] \cup {groupTurnPromises[g]}
        <5>1. /\ groupTurnPromises[g] \in Turns(g)
              /\ Turns(g) = ahead[groupTurnPromises[g]] \cup {groupTurnPromises[g]}
          BY <1>1, <1>4, <4>4 DEF TurnQueue, SlotIsLatest
        <5>2. groupTurnPromises[g] \in Promises \ {p}
          BY <2>3, <5>1 DEF Turns
        <5>3. QED
          BY <1>1, <5>1, <5>2
      <4>5. p # None
        BY NoneAssumption
      <4>6. Queued(p)'
        BY <1>1, <2>3, <4>1, <4>2, <4>3, <4>4, <4>5 DEF Queued
      <4>7. QED
        BY <3>1, <4>6
    <3>2. CASE q # p
      <4> SUFFICES ASSUME InFlight(q)' PROVE Queued(q)'
        BY DEF Queued
      <4>1. /\ InFlight(q) /\ promise'[q] = promise[q] /\ ahead'[q] = ahead[q]
            /\ GroupOfTurn(q)' = GroupOfTurn(q) /\ GroupOfTurn(q) \in Groups
        BY <1>1, <1>2, <3>2, GroupOfAssumption DEF WakeMap, PromiseListed, GroupOfTurn
      <4>2. Queued(q)
        BY <1>4 DEF TurnQueue
      <4>3. promise[q].behind # None =>
              promise[q].behind \in Promises \ {p} /\ ahead'[promise[q].behind] = ahead[promise[q].behind]
        BY <1>1, <2>3, <4>1, <4>2 DEF Queued, TypeOK
      <4>4. Turns(GroupOfTurn(q)) \subseteq Turns(GroupOfTurn(q))'
        BY <1>1, <1>2, <4>1 DEF Turns, GroupOfTurn
      <4>5. groupTurnPromises'[GroupOfTurn(q)'] # None
        BY <2>1, <4>1, <4>2, NoneAssumption DEF Queued, TypeOK
      <4>6. QED
        BY <4>1, <4>2, <4>3, <4>4, <4>5 DEF Queued
    <3>3. QED
      BY <3>1, <3>2
  <2>5. ASSUME NEW q \in Promises, NEW u \in Promises PROVE Ordered(q, u)'
    <3> SUFFICES ASSUME InFlight(q)', InFlight(u)', q # u, GroupOfTurn(q)' = GroupOfTurn(u)'
                 PROVE  q \in ahead'[u] \/ u \in ahead'[q]
      BY DEF Ordered
    <3>1. CASE q # p /\ u # p
      BY <1>1, <1>2, <1>4, <3>1 DEF TurnQueue, Ordered
    <3>2. CASE q = p
      BY <1>1, <1>2, <3>2 DEF Turns, GroupOfTurn
    <3>3. CASE u = p
      BY <1>1, <1>2, <3>3 DEF Turns, GroupOfTurn
    <3>4. QED
      BY <3>1, <3>2, <3>3
  <2>6. ASSUME NEW h \in Groups PROVE SlotIsLatest(h)'
    <3>1. CASE h = g
      <4>1. groupTurnPromises'[g] = p /\ Turns(g)' = Turns(g) \cup {p}
        BY <1>1, <2>1, <2>2 DEF TypeOK
      <4>2. SlotIsLatest(g)'
        BY <1>1, <4>1 DEF SlotIsLatest
      <4>3. QED
        BY <3>1, <4>2
    <3>2. CASE h # g
      <4> SUFFICES ASSUME groupTurnPromises'[h] # None PROVE SlotIsLatest(h)'
        BY DEF SlotIsLatest
      <4>1. groupTurnPromises'[h] = groupTurnPromises[h] /\ Turns(h)' = Turns(h)
        BY <2>1, <2>2, <3>2 DEF TypeOK
      <4>2. /\ groupTurnPromises[h] \in Turns(h)
            /\ Turns(h) = ahead[groupTurnPromises[h]] \cup {groupTurnPromises[h]}
        BY <1>4, <4>1 DEF TurnQueue, SlotIsLatest
      <4>3. groupTurnPromises[h] \in Promises \ {p}
        BY <1>1, <4>2 DEF Turns
      <4>4. QED
        BY <1>1, <4>1, <4>2, <4>3 DEF SlotIsLatest
    <3>3. QED
      BY <3>1, <3>2
  <2>7. QED
    BY <2>4, <2>5, <2>6 DEF TurnQueue
<1>5. QED
  BY <1>3, <1>4 DEF TurnQueue

(* Passing the gate, or handing the turn to a child, moves only the state   *)
(* of a promise that nobody is ahead of.                                    *)
LEMMA AdvanceKeepsPromises ==
    ASSUME TypeOK, WakeMap, TurnQueue, NEW p \in Promises, InFlight(p),
           promise[p].behind = None, NEW x \in {"preparing", "turn"},
           \A q \in Promises \ {p} : promise'[q] = promise[q],
           promise'[p].state = x, promise'[p].session = promise[p].session,
           promise'[p].behind = promise[p].behind,
           UNCHANGED <<wakePromises, groupTurnPromises, ahead>>
    PROVE  WakeMap' /\ TurnQueue'
<1>1. \A q \in Promises :
        /\ InFlight(q)' <=> InFlight(q)
        /\ promise'[q].session = promise[q].session
        /\ promise'[q].behind = promise[q].behind
        /\ promise'[q].state # "queued" =>
              promise[q].state # "queued" \/ promise[q].behind = None
  BY DEF InFlight
<1>2. \A q \in Promises : GroupOfTurn(q)' = GroupOfTurn(q)
  BY <1>1 DEF GroupOfTurn
<1>3. \A g \in Groups : Turns(g)' = Turns(g)
  BY <1>1 DEF Turns
<1>4. ASSUME NEW q \in Promises PROVE PromiseListed(q)'
  BY <1>1 DEF WakeMap, PromiseListed
<1>5. ASSUME NEW s \in Sessions PROVE WakeEntry(s)'
  <2> SUFFICES ASSUME wakePromises'[s] # None
               PROVE  /\ promise'[wakePromises'[s]].state # "free"
                      /\ promise'[wakePromises'[s]].session = s
    BY DEF WakeEntry, InFlight
  <2>1. wakePromises'[s] = wakePromises[s] /\ wakePromises[s] \in Promises
    BY DEF TypeOK
  <2>2. QED
    BY <1>1, <2>1 DEF WakeMap, WakeEntry, InFlight
<1>6. ASSUME SingleProcess PROVE TurnQueue'
  <2>1. ASSUME NEW q \in Promises PROVE Queued(q)'
    <3> SUFFICES ASSUME InFlight(q)' PROVE Queued(q)'
      BY DEF Queued
    <3>1. Queued(q) /\ InFlight(q)
      BY <1>1, <1>6 DEF TurnQueue
    <3>2. Turns(GroupOfTurn(q))' = Turns(GroupOfTurn(q))
      BY <1>1, <1>2 DEF Turns
    <3>3. QED
      BY <1>1, <1>2, <3>1, <3>2 DEF Queued
  <2>2. ASSUME NEW q \in Promises, NEW u \in Promises PROVE Ordered(q, u)'
    BY <1>1, <1>2, <1>6 DEF TurnQueue, Ordered
  <2>3. ASSUME NEW g \in Groups PROVE SlotIsLatest(g)'
    BY <1>3, <1>6 DEF TurnQueue, SlotIsLatest
  <2>4. QED
    BY <2>1, <2>2, <2>3 DEF TurnQueue
<1>7. QED
  BY <1>4, <1>5, <1>6 DEF WakeMap, TurnQueue

(* Steps that leave the promises alone keep what is said of them. *)
LEMMA FramePromises ==
    ASSUME WakeMap, TurnQueue,
           UNCHANGED <<promise, wakePromises, groupTurnPromises, ahead>>
    PROVE  WakeMap' /\ TurnQueue'
  BY DEF WakeMap, PromiseListed, WakeEntry, InFlight, TurnQueue, Queued, Ordered,
         SlotIsLatest, Turns, GroupOfTurn

-----------------------------------------------------------------------------
(* The inductive invariant: the runners *)

(* A settled promise without a child takes no runner with it. *)
LEMMA SettleKeepsRuns ==
    ASSUME TypeOK, WakeMap, Runs, NEW p \in Promises, promise[p].child = None,
           Settle(p),
           UNCHANGED <<activeContainers, runner>>
    PROVE  Runs'
<1>1. RunnerMap'
  BY DEF Runs, RunnerMap, RunnerListed, ContainerEntry, Attached
<1>2. ASSUME NEW q \in Promises PROVE ChildMatches(q)'
  <2>1. CASE q = p
    BY <2>1, SettleEffect DEF ChildMatches, FreePromise
  <2>2. CASE q # p
    BY <2>2, SettleEffect DEF Runs, ChildOfTurn, ChildMatches
  <2>3. QED
    BY <2>1, <2>2
<1>3. ASSUME NEW r \in Runners PROVE HasParent(r)'
  <2> SUFFICES ASSUME SingleProcess, Attached(r) PROVE \E q \in Promises : promise'[q].child = r
    BY DEF HasParent, Attached
  <2>1. PICK q \in Promises : promise[q].child = r
    BY DEF Runs, ChildOfTurn, HasParent
  <2>2. q # p
    BY <2>1, NoneAssumption
  <2>3. QED
    BY <2>1, <2>2, SettleEffect
<1>4. DetachedOrigin'
  BY DEF Runs, DetachedOrigin, Origin
<1>5. QED
  BY <1>1, <1>2, <1>3, <1>4 DEF Runs, ChildOfTurn

(* A kill changes the state of tracked runners only, and keeps them tracked.*)
LEMMA KillKeepsRuns ==
    ASSUME TypeOK, Runs, NEW K, KillAll(K), K \subseteq Runners,
           \A r \in K : Attached(r),
           UNCHANGED <<promise, activeContainers>>
    PROVE  Runs'
<1>1. PICK outcome \in [K -> RunnerStates] :
        /\ \A r \in K : outcome[r] \in KillOutcome(runner[r].state)
        /\ runner' = [r \in Runners |-> IF r \in K THEN [runner[r] EXCEPT !.state = outcome[r]]
                                        ELSE runner[r]]
  BY DEF KillAll
<1>2. ASSUME NEW r \in Runners
      PROVE  /\ runner'[r].session = runner[r].session
             /\ Attached(r)' <=> Attached(r)
             /\ runner'[r].state = "free" <=> runner[r].state = "free"
             /\ Origin(r)'
  <2>1. CASE r \notin K
    BY <1>1, <2>1 DEF TypeOK, Attached, Runs, DetachedOrigin, Origin
  <2>2. CASE r \in K
    <3>1. /\ runner'[r].session = runner[r].session
          /\ runner'[r].state \in KillOutcome(runner[r].state)
      BY <1>1, <2>2 DEF TypeOK
    <3>2. /\ runner'[r].state \in {"stopping", "closing", "detaching"}
          /\ SingleProcess => runner'[r].state = "stopping"
          /\ ~StopMayFail => runner'[r].state # "detaching"
      BY <3>1, ModeAssumption DEF KillOutcome
    <3>3. QED
      BY <2>2, <3>1, <3>2 DEF Attached, Origin
  <2>3. QED
    BY <2>1, <2>2
<1>3. ASSUME NEW r \in Runners PROVE RunnerListed(r)'
  BY <1>2 DEF Runs, RunnerMap, RunnerListed
<1>4. ASSUME NEW s \in Sessions PROVE ContainerEntry(s)'
  <2> SUFFICES ASSUME activeContainers[s] # None
               PROVE  /\ Attached(activeContainers[s])'
                      /\ runner'[activeContainers[s]].session = s
    BY DEF ContainerEntry, Attached
  <2>1. activeContainers[s] \in Runners
    BY DEF TypeOK
  <2>2. Attached(activeContainers[s]) /\ runner[activeContainers[s]].session = s
    BY DEF Runs, RunnerMap, ContainerEntry
  <2>3. runner'[activeContainers[s]].session = s
    BY <1>2, <2>1, <2>2
  <2>4. runner'[activeContainers[s]].state \in {"up", "stopping", "closing", "detaching"}
    BY <1>2, <2>1, <2>2 DEF Attached
  <2>5. QED
    BY <2>3, <2>4 DEF Attached
<1>5. \A q \in Promises : ChildMatches(q)'
  BY DEF Runs, ChildOfTurn, ChildMatches
<1>6. \A r \in Runners : HasParent(r)'
  BY <1>2 DEF Runs, ChildOfTurn, HasParent
<1>7. QED
  BY <1>2, <1>3, <1>4, <1>5, <1>6 DEF Runs, RunnerMap, ChildOfTurn, DetachedOrigin

(* The close handler of r: r is no longer attached, its entry goes, and the *)
(* turn that waited for it ends.                                            *)
LEMMA CloseKeepsIInv ==
    ASSUME IInv, NEW r \in Runners, Attached(r), CloseHandler(r),
           \A q \in Runners \ {r} : runner'[q] = runner[q],
           ~Attached(r)', Origin(r)',
           runner'[r].state # "free" => runner'[r].session \in Sessions
    PROVE  WakeMap' /\ TurnQueue' /\ Runs'
<1> USE DEF IInv, Runs
<1>1. /\ runner[r].session \in Sessions
      /\ activeContainers[runner[r].session] = r
      /\ activeContainers' = [activeContainers EXCEPT ![runner[r].session] = None]
  BY DEF RunnerMap, RunnerListed, Attached, CloseHandler
<1>2. DetachedOrigin'
  BY DEF DetachedOrigin, Origin
<1>3. ASSUME NEW q \in Runners PROVE RunnerListed(q)'
  <2>1. CASE q = r
    BY <2>1 DEF RunnerListed
  <2>2. CASE q # r
    <3>1. runner'[q] = runner[q] /\ RunnerListed(q)
      BY <2>2 DEF RunnerMap
    <3>2. Attached(q)' => Attached(q)
      BY <3>1 DEF Attached
    <3>3. Attached(q) => runner[q].session # runner[r].session
      BY <1>1, <2>2, <3>1 DEF RunnerListed
    <3>4. QED
      BY <1>1, <3>1, <3>2, <3>3 DEF RunnerListed, Attached, TypeOK
  <2>3. QED
    BY <2>1, <2>2
<1>4. ASSUME NEW s \in Sessions PROVE ContainerEntry(s)'
  <2> SUFFICES ASSUME activeContainers'[s] # None
               PROVE  /\ runner'[activeContainers'[s]].state \in {"up", "stopping", "closing", "detaching"}
                      /\ runner'[activeContainers'[s]].session = s
    BY DEF ContainerEntry, Attached
  <2>1. s # runner[r].session /\ activeContainers'[s] = activeContainers[s]
    BY <1>1 DEF TypeOK
  <2>2. Attached(activeContainers[s]) /\ runner[activeContainers[s]].session = s
    BY <2>1 DEF RunnerMap, ContainerEntry
  <2>3. activeContainers[s] \in Runners \ {r}
    BY <2>1, <2>2 DEF TypeOK
  <2>4. QED
    BY <2>1, <2>2, <2>3 DEF Attached
<1>5. RunnerMap'
  BY <1>3, <1>4 DEF RunnerMap
<1>6. \A q \in Runners : Attached(q)' => q # r /\ Attached(q)
  BY DEF Attached
<1>7. CASE \E p \in Promises : promise[p].child = r /\ Settle(p)
  <2>1. PICK p \in Promises : promise[p].child = r /\ Settle(p)
    BY <1>7
  <2>2. promise[p].state = "turn" /\ InFlight(p)
    BY <2>1, NoneAssumption DEF ChildOfTurn, ChildMatches, InFlight
  <2>3. SingleProcess => promise[p].behind = None
    BY <2>2 DEF TurnQueue, Queued
  <2>4. promise[p].session = runner[r].session
    <3>1. activeContainers[promise[p].session] = r /\ promise[p].session \in Sessions
      BY <2>1, <2>2 DEF ChildOfTurn, ChildMatches, WakeMap, PromiseListed
    <3>2. ContainerEntry(promise[p].session)
      BY <3>1 DEF RunnerMap
    <3>3. QED
      BY <3>1, <3>2, NoneAssumption DEF ContainerEntry
  <2>5. ASSUME NEW q \in Promises PROVE ChildMatches(q)'
    <3>1. CASE q = p
      BY <2>1, <3>1, SettleEffect DEF ChildMatches, FreePromise
    <3>2. CASE q # p
      <4>1. /\ promise'[q].state = promise[q].state /\ promise'[q].session = promise[q].session
            /\ promise'[q].child = promise[q].child /\ ChildMatches(q)
        BY <2>1, <3>2, SettleEffect DEF ChildOfTurn
      <4>2. InFlight(q) => promise[q].session # promise[p].session /\ promise[q].session \in Sessions
        BY <2>2, <3>2 DEF WakeMap, PromiseListed
      <4>3. InFlight(q) =>
              activeContainers'[promise[q].session] = activeContainers[promise[q].session]
        BY <1>1, <2>4, <4>2 DEF TypeOK
      <4>4. QED
        BY <4>1, <4>3 DEF ChildMatches, InFlight
    <3>3. QED
      BY <3>1, <3>2
  <2>6. ASSUME NEW q \in Runners PROVE HasParent(q)'
    <3> SUFFICES ASSUME SingleProcess, Attached(q)' PROVE \E u \in Promises : promise'[u].child = q
      BY DEF HasParent
    <3>1. q # r /\ Attached(q)
      BY <1>6
    <3>2. PICK u \in Promises : promise[u].child = q
      BY <3>1 DEF ChildOfTurn, HasParent
    <3>3. u # p
      BY <2>1, <3>1, <3>2
    <3>4. QED
      BY <2>1, <3>2, <3>3, SettleEffect
  <2>7. WakeMap' /\ TurnQueue'
    BY <2>1, <2>2, <2>3, SettleKeepsWakeMap, SettleKeepsQueue DEF TurnQueue
  <2>8. QED
    BY <1>2, <1>5, <2>5, <2>6, <2>7 DEF Runs, ChildOfTurn
<1>8. CASE /\ \A p \in Promises : promise[p].child # r
           /\ UNCHANGED <<promise, wakePromises, groupTurnPromises, ahead>>
  <2>1. ASSUME NEW q \in Promises PROVE ChildMatches(q)'
    <3>1. ChildMatches(q) /\ promise'[q] = promise[q]
      BY <1>8 DEF ChildOfTurn
    <3>2. InFlight(q) => promise[q].session \in Sessions
      BY DEF WakeMap, PromiseListed
    <3>3. promise[q].state = "turn" => promise[q].session # runner[r].session
      BY <1>1, <1>8, <3>1 DEF ChildMatches
    <3>4. QED
      BY <1>1, <3>1, <3>2, <3>3 DEF ChildMatches, InFlight, TypeOK
  <2>2. ASSUME NEW q \in Runners PROVE HasParent(q)'
    BY <1>6, <1>8 DEF ChildOfTurn, HasParent
  <2>3. QED
    BY <1>2, <1>5, <1>8, <2>1, <2>2, FramePromises DEF Runs, ChildOfTurn
<1>9. QED
  BY <1>7, <1>8 DEF CloseHandler

(* A spawn hands a promise nobody is ahead of its runner. *)
LEMMA SpawnKeepsIInv ==
    ASSUME IInv, NEW p \in Promises, NEW r \in Runners, SpawnRunner(p, r)
    PROVE  WakeMap' /\ TurnQueue' /\ Runs'
<1> USE DEF IInv, Runs
<1> DEFINE s == promise[p].session
<1>1. /\ promise[p].state = "preparing" /\ InFlight(p) /\ s \in Sessions
      /\ promise[p].child = None /\ activeContainers[s] = None
      /\ SingleProcess => promise[p].behind = None
  BY DEF SpawnRunner, InFlight, WakeMap, PromiseListed, ChildOfTurn, ChildMatches, TurnQueue, Queued, TypeOK
<1>2. /\ runner[r].state = "free"
      /\ runner'[r] = [state |-> "up", session |-> s]
      /\ \A q \in Runners \ {r} : runner'[q] = runner[q]
      /\ activeContainers' = [activeContainers EXCEPT ![s] = r]
  BY DEF SpawnRunner, TypeOK
<1>3. ASSUME NEW q \in Runners PROVE RunnerListed(q)' /\ Origin(q)'
  <2>1. CASE q = r
    BY <1>1, <1>2, <2>1 DEF RunnerListed, Origin, TypeOK
  <2>2. CASE q # r
    <3>1. runner'[q] = runner[q] /\ RunnerListed(q) /\ Origin(q)
      BY <1>2, <2>2 DEF RunnerMap, DetachedOrigin
    <3>2. Attached(q) => runner[q].session # s
      BY <1>1, <3>1, NoneAssumption DEF RunnerListed
    <3>3. QED
      BY <1>2, <3>1, <3>2 DEF RunnerListed, Origin, Attached, TypeOK
  <2>3. QED
    BY <2>1, <2>2
<1>4. ASSUME NEW t \in Sessions PROVE ContainerEntry(t)'
  <2> SUFFICES ASSUME activeContainers'[t] # None
               PROVE  /\ runner'[activeContainers'[t]].state \in {"up", "stopping", "closing", "detaching"}
                      /\ runner'[activeContainers'[t]].session = t
    BY DEF ContainerEntry, Attached
  <2>1. CASE t = s
    BY <1>1, <1>2, <2>1 DEF TypeOK
  <2>2. CASE t # s
    <3>1. activeContainers'[t] = activeContainers[t]
      BY <1>2, <2>2 DEF TypeOK
    <3>2. Attached(activeContainers[t]) /\ runner[activeContainers[t]].session = t
      BY <3>1 DEF RunnerMap, ContainerEntry
    <3>3. activeContainers[t] \in Runners \ {r}
      BY <1>2, <3>1, <3>2 DEF TypeOK, Attached
    <3>4. QED
      BY <1>2, <3>1, <3>2, <3>3 DEF Attached
  <2>3. QED
    BY <2>1, <2>2
<1>5. RunnerMap' /\ DetachedOrigin'
  BY <1>3, <1>4 DEF RunnerMap, DetachedOrigin
<1>6. \A q \in Promises \ {p} : InFlight(q) => promise[q].session \in Sessions \ {s}
  BY <1>1 DEF WakeMap, PromiseListed
<1>7. \A q \in Promises \ {p} : InFlight(q) =>
         activeContainers'[promise[q].session] = activeContainers[promise[q].session]
  BY <1>2, <1>6 DEF TypeOK
<1>8. \A q \in Runners : Attached(q)' => q = r \/ Attached(q)
  BY <1>2 DEF Attached
<1>9. CASE SingleProcess
  <2>1. /\ promise' = [promise EXCEPT ![p].state = "turn", ![p].child = r]
        /\ UNCHANGED <<wakePromises, groupTurnPromises, ahead>>
    BY <1>9 DEF SpawnRunner
  <2>2. /\ \A q \in Promises \ {p} : promise'[q] = promise[q]
        /\ promise'[p].state = "turn" /\ promise'[p].child = r
        /\ promise'[p].session = s /\ promise'[p].behind = promise[p].behind
    BY <2>1 DEF TypeOK
  <2>3. WakeMap' /\ TurnQueue'
    BY <1>1, <1>9, <2>1, <2>2, AdvanceKeepsPromises
  <2>4. ASSUME NEW q \in Promises PROVE ChildMatches(q)'
    <3>1. CASE q = p
      BY <1>1, <1>2, <2>2, <3>1, NoneAssumption DEF ChildMatches, TypeOK
    <3>2. CASE q # p
      BY <1>7, <2>2, <3>2 DEF ChildOfTurn, ChildMatches, InFlight
    <3>3. QED
      BY <3>1, <3>2
  <2>5. ASSUME NEW q \in Runners PROVE HasParent(q)'
    <3> SUFFICES ASSUME Attached(q)' PROVE \E u \in Promises : promise'[u].child = q
      BY DEF HasParent
    <3>1. CASE q = r
      BY <2>2, <3>1
    <3>2. CASE q # r
      <4>1. PICK u \in Promises : promise[u].child = q
        BY <1>8, <1>9, <3>2 DEF ChildOfTurn, HasParent
      <4>2. u # p
        BY <1>1, <4>1, NoneAssumption
      <4>3. QED
        BY <2>2, <4>1, <4>2
    <3>3. QED
      BY <3>1, <3>2
  <2>6. QED
    BY <1>5, <2>3, <2>4, <2>5 DEF ChildOfTurn
<1>10. CASE ~SingleProcess
  <2>1. Settle(p)
    BY <1>10 DEF SpawnRunner
  <2>2. WakeMap' /\ TurnQueue'
    BY <1>1, <1>10, <2>1, SettleKeepsWakeMap DEF TurnQueue
  <2>3. ASSUME NEW q \in Promises PROVE ChildMatches(q)'
    <3>1. CASE q = p
      BY <2>1, <3>1, SettleEffect DEF ChildMatches, FreePromise
    <3>2. CASE q # p
      <4>1. /\ promise'[q].state = promise[q].state /\ promise'[q].session = promise[q].session
            /\ promise'[q].child = promise[q].child
        BY <2>1, <3>2, SettleEffect
      <4>2. QED
        BY <1>7, <3>2, <4>1 DEF ChildOfTurn, ChildMatches, InFlight
    <3>3. QED
      BY <3>1, <3>2
  <2>4. \A q \in Runners : HasParent(q)'
    BY <1>10 DEF HasParent
  <2>5. QED
    BY <1>5, <2>2, <2>3, <2>4 DEF ChildOfTurn
<1>11. QED
  BY <1>9, <1>10

(* The runners activeContainers lists are attached. *)
LEMMA TrackedAreAttached ==
    ASSUME TypeOK, RunnerMap, NEW g \in Groups
    PROVE  /\ TrackedRunners(g) \subseteq Runners
           /\ \A r \in TrackedRunners(g) : Attached(r)
  BY DEF TypeOK, RunnerMap, ContainerEntry, TrackedRunners

(* IInv holds in every reachable state. *)
THEOREM Inductive == Spec => []IInv
<1>1. Init => IInv
  BY DEF Init, IInv, TypeOK, WakeMap, PromiseListed, WakeEntry, TurnQueue, Queued, Ordered,
         SlotIsLatest, Runs, RunnerMap, RunnerListed, ContainerEntry, ChildOfTurn, ChildMatches,
         HasParent, DetachedOrigin, Origin, InFlight, Attached, FreePromise, FreeRunner,
         PromiseStates, RunnerStates
<1>2. IInv /\ TypeOK' /\ [Next]_vars => IInv'
  <2> SUFFICES ASSUME IInv, [Next]_vars PROVE WakeMap' /\ TurnQueue' /\ Runs'
    BY DEF IInv
  <2> USE DEF IInv
  <2>1. ASSUME NEW s \in Sessions, CreateSession(s) PROVE WakeMap' /\ TurnQueue' /\ Runs'
    BY <2>1, FramePromises
       DEF CreateSession, Runs, RunnerMap, RunnerListed, ContainerEntry, ChildOfTurn, ChildMatches,
           HasParent, DetachedOrigin, Origin, Attached
  <2>2. ASSUME NEW s \in Sessions, Kill(s) PROVE WakeMap' /\ TurnQueue' /\ Runs'
    <3>1. {activeContainers[s]} \subseteq Runners /\ Attached(activeContainers[s])
      BY <2>2 DEF Kill, TypeOK, Runs, RunnerMap, ContainerEntry
    <3>2. KillAll({activeContainers[s]})
      BY <2>2 DEF Kill
    <3>3. QED
      BY <2>2, <3>1, <3>2, FramePromises, KillKeepsRuns DEF Kill
  <2>3. ASSUME NEW s \in Sessions, NEW p \in Promises, Wake(s, p)
        PROVE WakeMap' /\ TurnQueue' /\ Runs'
    <3>1. /\ promise'[p].session = s /\ promise'[p].child = None /\ promise'[p].state = "queued"
          /\ \A q \in Promises \ {p} : promise'[q] = promise[q]
          /\ activeContainers[s] = None /\ ~InFlight(p)
          /\ UNCHANGED <<activeContainers, runner>>
      BY <2>3 DEF Wake, MustSpawn, TypeOK
    <3>2. ASSUME NEW q \in Promises PROVE ChildMatches(q)'
      BY <3>1 DEF Runs, ChildOfTurn, ChildMatches
    <3>3. ASSUME NEW r \in Runners PROVE HasParent(r)'
      <4>1. promise[p].child = None
        BY <3>1 DEF Runs, ChildOfTurn, ChildMatches, InFlight
      <4>2. QED
        BY <3>1, <4>1, NoneAssumption DEF Runs, ChildOfTurn, HasParent, Attached
    <3>4. RunnerMap' /\ DetachedOrigin'
      BY <3>1 DEF Runs, RunnerMap, RunnerListed, ContainerEntry, Attached, DetachedOrigin, Origin
    <3>5. QED
      BY <2>3, <3>2, <3>3, <3>4, WakeKeepsPromises DEF Runs, ChildOfTurn
  <2>4. ASSUME NEW p \in Promises, InFlight(p), promise[p].state # "turn",
               SingleProcess => promise[p].behind = None,
               Settle(p),
               UNCHANGED <<activeContainers, runner>>
        PROVE WakeMap' /\ TurnQueue' /\ Runs'
    <3>1. promise[p].child = None
      BY <2>4 DEF Runs, ChildOfTurn, ChildMatches
    <3>2. QED
      BY <2>4, <3>1, SettleKeepsWakeMap, SettleKeepsQueue, SettleKeepsRuns DEF TurnQueue
  <2>5. ASSUME NEW p \in Promises, SkipArchived(p) PROVE WakeMap' /\ TurnQueue' /\ Runs'
    BY <2>4, <2>5 DEF SkipArchived, ReadyToSpawn, InFlight
  <2>6. ASSUME NEW p \in Promises, SpawnFails(p) PROVE WakeMap' /\ TurnQueue' /\ Runs'
    <3>1. SingleProcess => promise[p].behind = None
      BY <2>6 DEF SpawnFails, TurnQueue, Queued, InFlight
    <3>2. QED
      BY <2>4, <2>6, <3>1 DEF SpawnFails, InFlight
  <2>7. ASSUME NEW p \in Promises, BeginSpawn(p) PROVE WakeMap' /\ TurnQueue' /\ Runs'
    <3>1. /\ InFlight(p) /\ promise[p].behind = None /\ promise[p].state = "queued"
          /\ \A q \in Promises \ {p} : promise'[q] = promise[q]
          /\ promise'[p].state = "preparing" /\ promise'[p].session = promise[p].session
          /\ promise'[p].behind = promise[p].behind /\ promise'[p].child = promise[p].child
          /\ UNCHANGED <<wakePromises, groupTurnPromises, ahead, activeContainers, runner>>
      BY <2>7 DEF BeginSpawn, ReadyToSpawn, InFlight, TypeOK
    <3>2. WakeMap' /\ TurnQueue'
      BY <3>1, AdvanceKeepsPromises
    <3>3. ASSUME NEW q \in Promises PROVE ChildMatches(q)'
      BY <3>1 DEF Runs, ChildOfTurn, ChildMatches
    <3>4. ASSUME NEW r \in Runners PROVE HasParent(r)'
      BY <3>1 DEF Runs, ChildOfTurn, HasParent, Attached
    <3>5. RunnerMap' /\ DetachedOrigin'
      BY <3>1 DEF Runs, RunnerMap, RunnerListed, ContainerEntry, Attached, DetachedOrigin, Origin
    <3>6. QED
      BY <3>2, <3>3, <3>4, <3>5 DEF Runs, ChildOfTurn
  <2>8. ASSUME NEW p \in Promises, NEW r \in Runners, SpawnRunner(p, r)
        PROVE WakeMap' /\ TurnQueue' /\ Runs'
    BY <2>8, SpawnKeepsIInv
  <2>9. ASSUME NEW r \in Runners, RunnerCloses(r) PROVE WakeMap' /\ TurnQueue' /\ Runs'
    <3>1. /\ Attached(r) /\ CloseHandler(r)
          /\ runner'[r].state = "free"
          /\ \A q \in Runners \ {r} : runner'[q] = runner[q]
      BY <2>9 DEF RunnerCloses, Attached, FreeRunner, TypeOK
    <3>2. QED
      BY <3>1, CloseKeepsIInv DEF Attached, Origin
  <2>10. ASSUME NEW r \in Runners, CliCloses(r) PROVE WakeMap' /\ TurnQueue' /\ Runs'
    <3>1. /\ Attached(r) /\ CloseHandler(r)
          /\ runner[r].state = "detaching" /\ runner'[r].state = "detached"
          /\ runner'[r].session = runner[r].session
          /\ \A q \in Runners \ {r} : runner'[q] = runner[q]
      BY <2>10 DEF CliCloses, Attached, TypeOK
    <3>2. Origin(r)'
      BY <3>1 DEF Runs, DetachedOrigin, Origin
    <3>3. runner'[r].session \in Sessions
      BY <3>1 DEF Runs, RunnerMap, RunnerListed
    <3>4. QED
      BY <3>1, <3>2, <3>3, CloseKeepsIInv DEF Attached
  <2>11. ASSUME NEW r \in Runners, DetachedExits(r) PROVE WakeMap' /\ TurnQueue' /\ Runs'
    <3>1. /\ ~Attached(r) /\ ~Attached(r)' /\ runner'[r].state = "free"
          /\ \A q \in Runners \ {r} : runner'[q] = runner[q]
          /\ UNCHANGED <<promise, wakePromises, groupTurnPromises, activeContainers, ahead>>
      BY <2>11 DEF DetachedExits, Attached, FreeRunner, TypeOK
    <3>2. \A q \in Runners : RunnerListed(q)' /\ Origin(q)' /\ HasParent(q)'
      BY <3>1 DEF Runs, RunnerMap, RunnerListed, Attached, DetachedOrigin, Origin, ChildOfTurn, HasParent
    <3>3. ASSUME NEW s \in Sessions PROVE ContainerEntry(s)'
      <4> SUFFICES ASSUME activeContainers[s] # None
                   PROVE  /\ runner'[activeContainers[s]].state \in {"up", "stopping", "closing", "detaching"}
                          /\ runner'[activeContainers[s]].session = s
        BY <3>1 DEF ContainerEntry, Attached
      <4>1. Attached(activeContainers[s]) /\ runner[activeContainers[s]].session = s
        BY DEF Runs, RunnerMap, ContainerEntry
      <4>2. activeContainers[s] \in Runners \ {r}
        BY <3>1, <4>1 DEF TypeOK
      <4>3. QED
        BY <3>1, <4>1, <4>2 DEF Attached
    <3>4. \A q \in Promises : ChildMatches(q)'
      BY <3>1 DEF Runs, ChildOfTurn, ChildMatches
    <3>5. QED
      BY <3>1, <3>2, <3>3, <3>4, FramePromises DEF Runs, RunnerMap, ChildOfTurn, DetachedOrigin
  <2>12. ASSUME NEW g \in Groups, Disconnect(g) \/ Repair(g) PROVE WakeMap' /\ TurnQueue' /\ Runs'
    <3>1. /\ KillAll(TrackedRunners(g))
          /\ UNCHANGED <<promise, wakePromises, groupTurnPromises, activeContainers, ahead>>
      BY <2>12 DEF Disconnect, Repair
    <3>2. TrackedRunners(g) \subseteq Runners /\ \A r \in TrackedRunners(g) : Attached(r)
      BY TrackedAreAttached DEF Runs
    <3>3. QED
      BY <3>1, <3>2, FramePromises, KillKeepsRuns
  <2>13. CASE HostRestart
    <3>1. /\ \A p \in Promises : promise'[p] = FreePromise
          /\ \A s \in Sessions : wakePromises'[s] = None /\ activeContainers'[s] = None
          /\ \A g \in Groups : groupTurnPromises'[g] = None
          /\ \A r \in Runners :
                \/ runner'[r] = FreeRunner
                \/ /\ Live(r) /\ ~SingleProcess /\ StopMayFail
                   /\ runner'[r].state = "detached" /\ runner'[r].session = runner[r].session
      BY <2>13, ModeAssumption DEF HostRestart, TypeOK
    <3>2. WakeMap' /\ TurnQueue'
      BY <3>1 DEF WakeMap, PromiseListed, WakeEntry, TurnQueue, Queued, Ordered, SlotIsLatest,
                  InFlight, FreePromise
    <3>3. \A p \in Promises : ChildMatches(p)'
      BY <3>1 DEF ChildMatches, FreePromise
    <3>4. ASSUME NEW r \in Runners PROVE RunnerListed(r)' /\ HasParent(r)' /\ Origin(r)'
      <4>1. Live(r) => runner[r].session \in Sessions
        BY DEF Live, Runs, RunnerMap, RunnerListed
      <4>2. QED
        BY <3>1, <4>1 DEF RunnerListed, HasParent, Origin, Attached, FreeRunner
    <3>5. \A s \in Sessions : ContainerEntry(s)'
      BY <3>1 DEF ContainerEntry
    <3>6. QED
      BY <3>2, <3>3, <3>4, <3>5 DEF Runs, RunnerMap, ChildOfTurn, DetachedOrigin
  <2>14. CASE UNCHANGED vars
    BY <2>14, FramePromises
       DEF vars, Runs, RunnerMap, RunnerListed, ContainerEntry, ChildOfTurn, ChildMatches,
           HasParent, DetachedOrigin, Origin, Attached
  <2>15. QED
    BY <2>1, <2>2, <2>3, <2>5, <2>6, <2>7, <2>8, <2>9, <2>10, <2>11, <2>12, <2>13, <2>14 DEF Next
<1>3. QED
  BY <1>1, <1>2, TypeCorrect, PTL DEF Spec

-----------------------------------------------------------------------------
(* What the invariant gives *)

(* In single-process mode no two live runners serve one agent group.        *)
THEOREM TurnExclusion == Spec => []GroupTurnsExclusive
<1>1. IInv => GroupTurnsExclusive
  <2> SUFFICES ASSUME IInv, SingleProcess, NEW q \in Runners, NEW r \in Runners,
                      Live(q), Live(r), q # r
               PROVE  GroupOf[runner[q].session] # GroupOf[runner[r].session]
    BY DEF GroupTurnsExclusive
  <2> USE DEF IInv, Runs
  <2>1. Attached(q) /\ Attached(r)
    BY DEF Live, Attached, DetachedOrigin, Origin
  <2>2. PICK x \in Promises : promise[x].child = q
    BY <2>1 DEF ChildOfTurn, HasParent
  <2>3. PICK y \in Promises : promise[y].child = r
    BY <2>1 DEF ChildOfTurn, HasParent
  <2>4. \A z \in {x, y} :
          /\ InFlight(z) /\ promise[z].state = "turn" /\ promise[z].behind = None
          /\ ahead[z] = {} /\ promise[z].session \in Sessions
          /\ activeContainers[promise[z].session] = promise[z].child
    BY <2>2, <2>3, NoneAssumption
       DEF ChildOfTurn, ChildMatches, InFlight, TurnQueue, Queued, WakeMap, PromiseListed
  <2>5. promise[x].session = runner[q].session /\ promise[y].session = runner[r].session
    BY <2>2, <2>3, <2>4, NoneAssumption DEF RunnerMap, ContainerEntry
  <2>6. x # y /\ GroupOfTurn(x) # GroupOfTurn(y)
    BY <2>2, <2>3, <2>4 DEF TurnQueue, Ordered
  <2>7. QED
    BY <2>5, <2>6 DEF GroupOfTurn
<1>2. QED
  BY <1>1, Inductive, PTL

(* Two live runners of one session: only after docker refused a stop.       *)
THEOREM SessionExclusion == Spec => []OneRunnerPerSession
<1>1. IInv => OneRunnerPerSession
  <2> SUFFICES ASSUME IInv, NEW q \in Runners, NEW r \in Runners,
                      Live(q), Live(r), q # r, runner[q].session = runner[r].session
               PROVE  "detached" \in {runner[q].state, runner[r].state} /\ StopMayFail
    BY DEF OneRunnerPerSession
  <2> USE DEF IInv, Runs
  <2>1. ~(Attached(q) /\ Attached(r))
    BY DEF RunnerMap, RunnerListed
  <2>2. runner[q].state = "detached" \/ runner[r].state = "detached"
    BY <2>1 DEF Live, Attached
  <2>3. StopMayFail
    BY <2>2, ModeAssumption DEF DetachedOrigin, Origin
  <2>4. QED
    BY <2>2, <2>3
<1>2. QED
  BY <1>1, Inductive, PTL

(* A wake that is in flight is the one its session lists. *)
THEOREM WakeDeduplication == Spec => []WakeIsDeduplicated
<1>1. IInv => WakeIsDeduplicated
  BY DEF IInv, WakeMap, PromiseListed, WakeIsDeduplicated
<1>2. QED
  BY <1>1, Inductive, PTL

(* A runner with a handle is the one its session lists. *)
THEOREM AttachedRunnersTracked == Spec => []AttachedIsTracked
<1>1. IInv => AttachedIsTracked
  BY DEF IInv, Runs, RunnerMap, RunnerListed, AttachedIsTracked
<1>2. QED
  BY <1>1, Inductive, PTL

(* The slot of a group is taken exactly while it has an unsettled turn.     *)
THEOREM SlotConsistency == Spec => []SlotMatchesTurns
<1>1. IInv => SlotMatchesTurns
  BY EmptySlot DEF IInv, SlotMatchesTurns
<1>2. QED
  BY <1>1, Inductive, PTL

(* The bookkeeping of wakeContainer as a whole: types, the wake of every    *)
(* promise in flight, and the slots of the groups.                          *)
THEOREM WakeSoundness == Spec => []WakesAreSound
<1>1. TypeOK /\ WakeIsDeduplicated /\ SlotMatchesTurns => WakesAreSound
  BY DEF WakesAreSound
<1>2. QED
  BY <1>1, TypeCorrect, WakeDeduplication, SlotConsistency, PTL

(* Turns start in the order of their wakes. *)
THEOREM WakeOrder == Spec => TurnsInWakeOrder
<1>1. IInv /\ [Next]_vars =>
        [\A p \in Promises :
           SingleProcess /\ promise[p].state = "queued" /\ promise'[p].state = "preparing"
           => ahead[p] = {}]_vars
  <2> SUFFICES ASSUME IInv, [Next]_vars, NEW p \in Promises, SingleProcess,
                      promise[p].state = "queued", promise'[p].state = "preparing"
               PROVE  ahead[p] = {}
    OBVIOUS
  <2> USE DEF IInv
  <2>1. ASSUME NEW q \in Promises, Settle(q)
        PROVE  FALSE
    <3>1. CASE p = q
      BY <2>1, <3>1, SettleEffect DEF FreePromise
    <3>2. CASE p # q
      BY <2>1, <3>2, SettleEffect
    <3>3. QED
      BY <3>1, <3>2
  <2>2. ASSUME NEW q \in Promises, BeginSpawn(q) PROVE ahead[p] = {}
    <3>1. p = q
      BY <2>2 DEF BeginSpawn, TypeOK
    <3>2. QED
      BY <2>2, <3>1 DEF BeginSpawn, ReadyToSpawn, InFlight, TurnQueue, Queued
  <2>3. ASSUME NEW s \in Sessions, NEW q \in Promises, Wake(s, q) PROVE FALSE
    BY <2>3 DEF Wake, TypeOK
  <2>4. ASSUME NEW q \in Promises, SkipArchived(q) \/ SpawnFails(q) PROVE FALSE
    BY <2>1, <2>4 DEF SkipArchived, SpawnFails
  <2>5. ASSUME NEW q \in Promises, NEW r \in Runners, SpawnRunner(q, r) PROVE FALSE
    BY <2>1, <2>5 DEF SpawnRunner, TypeOK
  <2>6. ASSUME NEW r \in Runners, RunnerCloses(r) \/ CliCloses(r) PROVE FALSE
    BY <2>1, <2>6 DEF RunnerCloses, CliCloses, CloseHandler
  <2>7. CASE HostRestart
    BY <2>7 DEF HostRestart, FreePromise
  <2>8. CASE UNCHANGED promise
    BY <2>8
  <2>9. QED
    BY <2>2, <2>3, <2>4, <2>5, <2>6, <2>7, <2>8
       DEF Next, CreateSession, Kill, DetachedExits, Disconnect, Repair, vars
<1>2. QED
  BY <1>1, Inductive, PTL DEF Spec, TurnsInWakeOrder

=============================================================================
