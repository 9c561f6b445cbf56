--------------------------- MODULE RunnerLifecycle ---------------------------
(***************************************************************************)
(* The life of an agent runner as src/src/container-runner.ts manages it:  *)
(* wake promises and their deduplication, the per-agent-group turn queue   *)
(* of single-process mode, the archived gate, the spawn after its awaits,  *)
(* kills, close events, the disconnect and re-pair clean-ups that the      *)
(* admin server runs on top of it, and a restart of the host.              *)
(*                                                                         *)
(* One action is one stretch of host code between two awaits (a few more   *)
(* interleavings than the microtask queue allows, none fewer).  A promise  *)
(* or a runner is an element of a finite set and is recycled when nothing  *)
(* refers to it.  Mounts, environment and configuration files are left     *)
(* out: of the preparation of a spawn only the fact that it takes time and *)
(* may throw remains.                                                      *)
(***************************************************************************)
EXTENDS Naturals, FiniteSets

CONSTANTS
    Sessions,       \* session ids that can ever exist
    Groups,         \* agent groups
    GroupOf,        \* the agent_group_id of each session
    Promises,       \* identities of wakeContainer promises
    Runners,        \* identities of runner processes or containers
    SingleProcess,  \* RUNTIME=single-process, else docker
    StopMayFail,    \* whether docker ps / docker stop can fail (docker only)
    None            \* absence of a map entry

ASSUME GroupOfAssumption == GroupOf \in [Sessions -> Groups]
ASSUME ModeAssumption == SingleProcess \in BOOLEAN /\ StopMayFail \in BOOLEAN
ASSUME NoneAssumption ==
    None \notin Promises /\ None \notin Runners /\ None \notin Sessions

VARIABLES
    sessionRow,         \* sessions table: absent, active or deleted
    archived,           \* agent_groups.archived_at is set
    promise,            \* the chain of each wake promise
    wakePromises,       \* Map session -> in-flight promise
    groupTurnPromises,  \* Map agent group -> latest promise
    activeContainers,   \* Map session -> runner
    runner,             \* the process behind each runner identity
    ahead               \* history: promises of the group queued before this one

vars == <<sessionRow, archived, promise, wakePromises, groupTurnPromises,
          activeContainers, runner, ahead>>

(* "queued": waiting for the previous turn, or about to run spawnContainer; *)
(* "preparing": past the archived gate, in an await of the spawn;           *)
(* "turn": single-process only, waiting for the child to close.             *)
PromiseStates == {"free", "queued", "preparing", "turn"}

(* "stopping": SIGTERM sent, still running; "closing": stopped, its close   *)
(* event not delivered; "detaching": docker stop failed and the docker CLI  *)
(* was killed, the container lives on, close event not delivered;           *)
(* "detached": a live container the host has no handle on.                  *)
RunnerStates == {"free", "up", "stopping", "closing", "detaching", "detached"}

FreePromise == [state |-> "free", session |-> None, behind |-> None, child |-> None]
FreeRunner == [state |-> "free", session |-> None]

TypeOK ==
    /\ sessionRow \in [Sessions -> {"absent", "active", "deleted"}]
    /\ archived \in [Groups -> BOOLEAN]
    /\ promise \in [Promises -> [state : PromiseStates,
                                 session : Sessions \cup {None},
                                 behind : Promises \cup {None},
                                 child : Runners \cup {None}]]
    /\ wakePromises \in [Sessions -> Promises \cup {None}]
    /\ groupTurnPromises \in [Groups -> Promises \cup {None}]
    /\ activeContainers \in [Sessions -> Runners \cup {None}]
    /\ runner \in [Runners -> [state : RunnerStates, session : Sessions \cup {None}]]
    /\ ahead \in [Promises -> SUBSET Promises]

InFlight(p) == promise[p].state # "free"
Live(r) == runner[r].state \in {"up", "stopping", "detaching", "detached"}
Attached(r) == runner[r].state \in {"up", "stopping", "closing", "detaching"}

(* The promises of a group that have not settled. *)
Turns(g) == {p \in Promises : InFlight(p) /\ GroupOf[promise[p].session] = g}

Init ==
    /\ sessionRow = [s \in Sessions |-> "absent"]
    /\ archived = [g \in Groups |-> FALSE]
    /\ promise = [p \in Promises |-> FreePromise]
    /\ wakePromises = [s \in Sessions |-> None]
    /\ groupTurnPromises = [g \in Groups |-> None]
    /\ activeContainers = [s \in Sessions |-> None]
    /\ runner = [r \in Runners |-> FreeRunner]
    /\ ahead = [p \in Promises |-> {}]

-----------------------------------------------------------------------------
(* wakeContainer *)

(* Slips the runs must catch: the join, or the running check, left out.     *)
MustSpawnNoJoin(s) == activeContainers[s] = None
MustSpawnNoCheck(s) == wakePromises[s] = None

(* Neither early return applies: not running, and no wake to join. *)
MustSpawn(s) == activeContainers[s] = None /\ wakePromises[s] = None

(* Slip: no gate. *)
PrevTurnNoGate(s) == None
(* The promise a new wake chains onto. *)
PrevTurn(s) == IF SingleProcess THEN groupTurnPromises[GroupOf[s]] ELSE None

(* resolveSession gave an inbound message a new session. *)
CreateSession(s) ==
    /\ sessionRow[s] = "absent"
    /\ sessionRow' = [sessionRow EXCEPT ![s] = "active"]
    /\ UNCHANGED <<archived, promise, wakePromises, groupTurnPromises,
                   activeContainers, runner, ahead>>

(* Any caller (router, sweep, a response or action handler) wakes the       *)
(* session; a call that returns early changes nothing.                      *)
Wake(s, p) ==
    /\ sessionRow[s] = "active"
    /\ MustSpawn(s)
    /\ ~InFlight(p)
    /\ promise' = [promise EXCEPT ![p] = [state |-> "queued", session |-> s,
                                          behind |-> PrevTurn(s), child |-> None]]
    /\ ahead' = [ahead EXCEPT ![p] = Turns(GroupOf[s])]
    /\ wakePromises' = [wakePromises EXCEPT ![s] = p]
    /\ groupTurnPromises' = IF SingleProcess
                            THEN [groupTurnPromises EXCEPT ![GroupOf[s]] = p]
                            ELSE groupTurnPromises
    /\ UNCHANGED <<sessionRow, archived, activeContainers, runner>>

(* Slip: the slot cleared whoever holds it. *)
ClearSlotAlways(p) ==
    [groupTurnPromises EXCEPT ![GroupOf[promise[p].session]] = None]

(* The group slot after p's finally: cleared only when p is the latest.     *)
ClearSlot(p) ==
    IF groupTurnPromises[GroupOf[promise[p].session]] = p
    THEN [groupTurnPromises EXCEPT ![GroupOf[promise[p].session]] = None]
    ELSE groupTurnPromises

(* Slip: the follower is never released. *)
AfterTurnStuck(p, q) == promise[q]

(* What a promise chained behind p looks like once p has settled. *)
AfterTurn(p, q) ==
    IF promise[q].behind = p THEN [promise[q] EXCEPT !.behind = None] ELSE promise[q]

(* p settles: its finally runs and its follower may go on. *)
Settle(p) ==
    /\ promise' = [q \in Promises |-> IF q = p THEN FreePromise ELSE AfterTurn(p, q)]
    /\ ahead' = [q \in Promises |-> IF q = p THEN {} ELSE ahead[q] \ {p}]
    /\ wakePromises' = [wakePromises EXCEPT ![promise[p].session] = None]
    /\ groupTurnPromises' = ClearSlot(p)

-----------------------------------------------------------------------------
(* spawnContainer *)

ReadyToSpawn(p) == promise[p].state = "queued" /\ promise[p].behind = None

(* The archived gate returns, and the promise settles.                      *)
SkipArchived(p) ==
    /\ ReadyToSpawn(p)
    /\ archived[GroupOf[promise[p].session]]
    /\ Settle(p)
    /\ UNCHANGED <<sessionRow, archived, activeContainers, runner>>

(* Past the gate, up to the first await. *)
BeginSpawn(p) ==
    /\ ReadyToSpawn(p)
    /\ ~archived[GroupOf[promise[p].session]]
    /\ promise' = [promise EXCEPT ![p].state = "preparing"]
    /\ UNCHANGED <<sessionRow, archived, wakePromises, groupTurnPromises,
                   activeContainers, runner, ahead>>

(* Mounts, symlinks, the runner entry point or the OneCLI gateway threw.    *)
SpawnFails(p) ==
    /\ promise[p].state = "preparing"
    /\ Settle(p)
    /\ UNCHANGED <<sessionRow, archived, activeContainers, runner>>

(* The child is spawned and registered; in single-process mode the promise  *)
(* stays pending until the child closes.                                    *)
SpawnRunner(p, r) ==
    /\ promise[p].state = "preparing"
    /\ runner[r].state = "free"
    /\ runner' = [runner EXCEPT ![r] = [state |-> "up", session |-> promise[p].session]]
    /\ activeContainers' = [activeContainers EXCEPT ![promise[p].session] = r]
    /\ IF SingleProcess
       THEN /\ promise' = [promise EXCEPT ![p].state = "turn", ![p].child = r]
            /\ UNCHANGED <<wakePromises, groupTurnPromises, ahead>>
       ELSE Settle(p)
    /\ UNCHANGED <<sessionRow, archived>>

-----------------------------------------------------------------------------
(* Close events and kills *)

(* The close (or error) handler: the session's entry goes, and the promise  *)
(* that awaits this child, if any, settles.                                 *)
CloseHandler(r) ==
    /\ activeContainers' = [activeContainers EXCEPT ![runner[r].session] = None]
    /\ \/ \E p \in Promises : promise[p].child = r /\ Settle(p)
       \/ /\ \A p \in Promises : promise[p].child # r
          /\ UNCHANGED <<promise, wakePromises, groupTurnPromises, ahead>>

(* A runner that exits or crashes by itself, or obeys its SIGTERM, or was   *)
(* stopped, and whose close event reaches the host.                         *)
RunnerCloses(r) ==
    /\ runner[r].state \in {"up", "stopping", "closing"}
    /\ runner' = [runner EXCEPT ![r] = FreeRunner]
    /\ CloseHandler(r)
    /\ UNCHANGED <<sessionRow, archived>>

(* The docker CLI was killed under a container that goes on. *)
CliCloses(r) ==
    /\ runner[r].state = "detaching"
    /\ runner' = [runner EXCEPT ![r].state = "detached"]
    /\ CloseHandler(r)
    /\ UNCHANGED <<sessionRow, archived>>

(* A detached container ends by itself: nobody is told. *)
DetachedExits(r) ==
    /\ runner[r].state = "detached"
    /\ runner' = [runner EXCEPT ![r] = FreeRunner]
    /\ UNCHANGED <<sessionRow, archived, promise, wakePromises,
                   groupTurnPromises, activeContainers, ahead>>

(* killContainer on an attached runner: the states it can be left in.       *)
KillOutcome(state) ==
    IF SingleProcess THEN {"stopping"}
    ELSE {"closing"} \cup (IF StopMayFail /\ state # "closing" THEN {"detaching"} ELSE {})

(* The runners activeContainers lists for a group. *)
TrackedRunners(g) ==
    {activeContainers[s] : s \in {t \in Sessions : GroupOf[t] = g}} \ {None}

(* killContainer on each member of K. *)
KillAll(K) ==
    \E outcome \in [K -> RunnerStates] :
        /\ \A r \in K : outcome[r] \in KillOutcome(runner[r].state)
        /\ runner' = [r \in Runners |->
                        IF r \in K THEN [runner[r] EXCEPT !.state = outcome[r]]
                        ELSE runner[r]]

(* The sweep kills a runner it has decided is stuck. *)
Kill(s) ==
    /\ activeContainers[s] # None
    /\ KillAll({activeContainers[s]})
    /\ UNCHANGED <<sessionRow, archived, promise, wakePromises,
                   groupTurnPromises, activeContainers, ahead>>

-----------------------------------------------------------------------------
(* The admin server's clean-ups, and the host process *)

(* performDisconnectCleanup: archive, then kill what activeContainers lists. *)
Disconnect(g) ==
    /\ archived' = [archived EXCEPT ![g] = TRUE]
    /\ KillAll(TrackedRunners(g))
    /\ UNCHANGED <<sessionRow, promise, wakePromises, groupTurnPromises,
                   activeContainers, ahead>>

(* Re-pair of an archived group: kill, wipe the session data, unarchive.    *)
Repair(g) ==
    /\ archived[g]
    /\ KillAll(TrackedRunners(g))
    /\ sessionRow' = [s \in Sessions |->
                        IF GroupOf[s] = g /\ sessionRow[s] = "active"
                        THEN "deleted" ELSE sessionRow[s]]
    /\ archived' = [archived EXCEPT ![g] = FALSE]
    /\ UNCHANGED <<promise, wakePromises, groupTurnPromises, activeContainers, ahead>>

(* The host dies and boots: its maps are gone; children die with it in      *)
(* single-process mode, and cleanupOrphans stops what docker lets it stop.  *)
HostRestart ==
    /\ promise' = [p \in Promises |-> FreePromise]
    /\ wakePromises' = [s \in Sessions |-> None]
    /\ groupTurnPromises' = [g \in Groups |-> None]
    /\ activeContainers' = [s \in Sessions |-> None]
    /\ ahead' = [p \in Promises |-> {}]
    /\ \E survivors \in SUBSET {r \in Runners : Live(r)} :
          /\ SingleProcess \/ ~StopMayFail => survivors = {}
          /\ runner' = [r \in Runners |->
                          IF r \in survivors
                          THEN [runner[r] EXCEPT !.state = "detached"]
                          ELSE FreeRunner]
    /\ UNCHANGED <<sessionRow, archived>>

Next ==
    \/ \E s \in Sessions : CreateSession(s) \/ Kill(s)
    \/ \E s \in Sessions, p \in Promises : Wake(s, p)
    \/ \E p \in Promises : SkipArchived(p) \/ BeginSpawn(p) \/ SpawnFails(p)
    \/ \E p \in Promises, r \in Runners : SpawnRunner(p, r)
    \/ \E r \in Runners : RunnerCloses(r) \/ CliCloses(r) \/ DetachedExits(r)
    \/ \E g \in Groups : Disconnect(g) \/ Repair(g)
    \/ HostRestart

Spec == Init /\ [][Next]_vars

(* The event loop runs a continuation that is ready, the awaits of a spawn  *)
(* end, and a runner that was told to stop stops.  Nothing makes a runner   *)
(* that was not told to stop exit: its poll loop has no exit.               *)
Fairness ==
    /\ \A p \in Promises :
          /\ WF_vars(SkipArchived(p) \/ BeginSpawn(p))
          /\ WF_vars(SpawnFails(p) \/ \E r \in Runners : SpawnRunner(p, r))
    /\ \A r \in Runners :
          WF_vars(runner[r].state # "up" /\ (RunnerCloses(r) \/ CliCloses(r)))

FairSpec == Spec /\ Fairness

-----------------------------------------------------------------------------
(* Properties *)

(* The in-flight promises are exactly the ones wakePromises lists, one per  *)
(* session: no session is ever in two spawns at once ("a second wake in     *)
(* that window ... spawns a duplicate container").                          *)
WakeIsDeduplicated ==
    \A p \in Promises : InFlight(p) => wakePromises[promise[p].session] = p

(* The slot of a group is taken exactly while a turn of the group has not   *)
(* settled, so a new wake can neither jump the queue nor wait for nothing.  *)
SlotMatchesTurns ==
    SingleProcess => \A g \in Groups : (groupTurnPromises[g] = None) <=> (Turns(g) = {})

(* What wakeContainer and its finally blocks keep between them: the maps    *)
(* are well typed, wakePromises lists the promises in flight, and the slots *)
(* of groupTurnPromises those that have turns.                              *)
WakesAreSound == TypeOK /\ WakeIsDeduplicated /\ SlotMatchesTurns

(* A runner the host has a handle on is the one activeContainers lists for  *)
(* its session, so a kill by session can reach it and no close handler can  *)
(* drop the entry of another runner.                                        *)
AttachedIsTracked ==
    \A r \in Runners : Attached(r) => activeContainers[runner[r].session] = r

(* One writer per session directory: two live runners of one session exist  *)
(* only when docker refused to stop one of them.                            *)
OneRunnerPerSession ==
    \A q, r \in Runners :
        /\ Live(q) /\ Live(r) /\ q # r
        /\ runner[q].session = runner[r].session
        => "detached" \in {runner[q].state, runner[r].state} /\ StopMayFail

(* Each agent group serialises its turns in single-process mode: no two     *)
(* live runners of one group, whatever sessions they serve.                 *)
GroupTurnsExclusive ==
    SingleProcess =>
        \A q, r \in Runners :
            Live(q) /\ Live(r) /\ q # r =>
                GroupOf[runner[q].session] # GroupOf[runner[r].session]

(* Turns of a group start in the order of their wakes.                      *)
TurnsInWakeOrder ==
    [][\A p \in Promises :
          SingleProcess /\ promise[p].state = "queued" /\ promise'[p].state = "preparing"
          => ahead[p] = {}]_vars

(* If every runner is eventually told to stop, every wake promise settles:  *)
(* no promise is left behind one that has gone, whatever fails on the way.  *)
WakesResolve ==
    (\A r \in Runners : (runner[r].state = "up") ~> (runner[r].state # "up"))
        => \A p \in Promises : InFlight(p) ~> ~InFlight(p)

=============================================================================
