----------------------------- MODULE SessionQueue -----------------------------
(***************************************************************************)
(* One session: the inbound rows the host writes, the acknowledgements the *)
(* runner writes, the runner's poll loop (container/agent-runner/src/      *)
(* poll-loop.ts) and the host sweep that syncs, wakes, kills and retries   *)
(* (src/src/host-sweep.ts).                                                *)
(*                                                                         *)
(* Clocks are abstracted to what the code tests: whether a row's           *)
(* process_after lies in the future, whether a claim is older than its     *)
(* tolerance, whether the heartbeat is younger than the claim, and whether *)
(* it is older than the ceiling.  Each may turn as time passes.  Message   *)
(* text, routing and the provider's session are left out; of the spawn     *)
(* only its await is kept (RunnerLifecycle has the rest).                  *)
(***************************************************************************)
EXTENDS Naturals, FiniteSets

CONSTANTS
    MaxMessages,    \* bound: rows ever inserted; a message is its seq order
    Kinds,          \* kinds that may arrive, among the four of AllKinds
    MaxTries,       \* MAX_TRIES of the sweep
    FaultKinds,     \* what may fail, among the three of AllFaults
    MaxFaults,      \* bound: faults that happen
    Setups          \* pairs of the host's runtime and the group's setting

Messages == 1..MaxMessages
(* "context" is a chat row with trigger=0, "clear" a /clear command. *)
AllKinds == {"chat", "context", "task", "clear"}
AllFaults == {"crash", "hang", "spawn"}

ASSUME BoundsAssumption ==
    MaxMessages \in Nat /\ MaxTries \in Nat /\ MaxFaults \in Nat
ASSUME KindsAssumption == Kinds \subseteq AllKinds /\ FaultKinds \subseteq AllFaults
ASSUME SetupsAssumption ==
    Setups \subseteq [singleProcess : BOOLEAN, limit : Nat \ {0}]

VARIABLES
    singleProcess, \* RUNTIME of the host: a wake resolves at the runner's exit
    limit,      \* maxMessagesPerPrompt of the agent group
    row,        \* inbound.db messages_in: status, kind, tries, deferred
    ack,        \* outbound.db processing_ack
    claimOld,   \* the claim has outlived CLAIM_STUCK_MS
    beatSince,  \* the heartbeat is younger than the claim
    heartbeat,  \* heartbeat file: absent, recent or past the ceiling
    runner,     \* the session's runner
    doomed,     \* a kill was issued, the close event is outstanding
    hung,       \* the provider will emit no more events
    batch,      \* ids of the batch being prepared or in the open query
    open,       \* given to the open query and not yet answered by it
    sweep,      \* "idle", or "waking" in the await of wakeContainer
    handed,     \* history: how often a message was given to the provider
    answered,   \* history: messages whose turn came to a result or an error
    faults      \* faults so far

setup == <<singleProcess, limit>>
vars == <<setup, row, ack, claimOld, beatSince, heartbeat, runner, doomed,
          hung, batch, open, sweep, handed, answered, faults>>
clocks == <<claimOld, beatSince, heartbeat>>
history == <<handed, answered>>

RunnerStates == {"none", "spawning", "booting", "polling", "preparing", "query"}

TypeOK ==
    /\ [singleProcess |-> singleProcess, limit |-> limit] \in Setups
    /\ row \in [Messages -> [status : {"absent", "pending", "completed", "failed"},
                             kind : AllKinds, tries : 0..MaxTries, deferred : BOOLEAN]]
    /\ ack \in [Messages -> {"none", "processing", "completed"}]
    /\ claimOld \in [Messages -> BOOLEAN]
    /\ beatSince \in [Messages -> BOOLEAN]
    /\ heartbeat \in {"absent", "recent", "old"}
    /\ runner \in RunnerStates
    /\ doomed \in BOOLEAN
    /\ hung \in BOOLEAN
    /\ batch \subseteq Messages
    /\ open \subseteq Messages
    /\ sweep \in {"idle", "waking"}
    /\ handed \in [Messages -> Nat]
    /\ answered \subseteq Messages
    /\ faults \in 0..MaxFaults

Init ==
    /\ \E s \in Setups : singleProcess = s.singleProcess /\ limit = s.limit
    /\ row = [m \in Messages |-> [status |-> "absent", kind |-> "chat",
                                  tries |-> 0, deferred |-> FALSE]]
    /\ ack = [m \in Messages |-> "none"]
    /\ claimOld = [m \in Messages |-> FALSE]
    /\ beatSince = [m \in Messages |-> FALSE]
    /\ heartbeat = "absent"
    /\ runner = "none"
    /\ doomed = FALSE
    /\ hung = FALSE
    /\ batch = {}
    /\ open = {}
    /\ sweep = "idle"
    /\ handed = [m \in Messages |-> 0]
    /\ answered = {}
    /\ faults = 0

-----------------------------------------------------------------------------
(* What the SQL statements select *)

Triggers(m) == row[m].kind # "context"

Due == {m \in Messages : row[m].status = "pending" /\ ~row[m].deferred}

(* countDueMessages > 0 *)
WorkIsDue == \E m \in Due : Triggers(m)

(* The newest limit due rows, before the acknowledged ones are dropped.     *)
Window == {m \in Due : Cardinality({n \in Due : n > m}) < limit}

GetPendingMessages == {m \in Window : ack[m] = "none"}

Claims == {m \in Messages : ack[m] = "processing"}

Put(f, S, value) == [m \in Messages |-> IF m \in S THEN value ELSE f[m]]

(* A touch is younger than every claim there is. *)
TouchHeartbeat ==
    /\ heartbeat' = "recent"
    /\ beatSince' = [m \in Messages |-> ack[m] = "processing"]

(* The runner can act: not killed, or still obeying a SIGTERM.              *)
CanAct == ~doomed \/ singleProcess

Hand(S) == handed' = [m \in Messages |-> handed[m] + IF m \in S THEN 1 ELSE 0]

-----------------------------------------------------------------------------
(* The host: a new row, and the wake *)

IsRunning == runner \notin {"none", "spawning"}

Woken == IF runner = "none" THEN "spawning" ELSE runner

(* writeSessionMessage, and for a triggering row wakeContainer; a task is   *)
(* inserted for later and wakes nobody.                                     *)
Insert(m, kind) ==
    /\ row[m].status = "absent"
    /\ m - 1 \in Messages => row[m - 1].status # "absent"
    /\ row' = [row EXCEPT ![m] = [@ EXCEPT !.status = "pending", !.kind = kind,
                                          !.deferred = (kind = "task")]]
    /\ runner' = IF kind \in {"context", "task"} THEN runner ELSE Woken
    /\ UNCHANGED <<setup, ack, clocks, doomed, hung, batch, open, sweep,
                   history, faults>>

-----------------------------------------------------------------------------
(* The sweep's view of the session *)

(* syncProcessingAcks *)
Synced ==
    [m \in Messages |->
        IF ack[m] = "completed" THEN [row[m] EXCEPT !.status = "completed"] ELSE row[m]]

(* Slip: the backoff without the count. *)
RetriedUncounted(r) ==
    IF r.status # "pending" \/ r.deferred THEN r
    ELSE [r EXCEPT !.deferred = TRUE]

(* resetStuckProcessingRows on one claimed row. *)
Retried(r) ==
    IF r.status # "pending" \/ r.deferred THEN r
    ELSE IF r.tries >= MaxTries THEN [r EXCEPT !.status = "failed"]
    ELSE [r EXCEPT !.tries = @ + 1, !.deferred = TRUE]

ResetStuck(rows) == [m \in Messages |-> IF m \in Claims THEN Retried(rows[m]) ELSE rows[m]]

(* Slip: the ceiling alone. *)
StuckCeilingOnly(hb, beat) == hb = "old"

(* decideStuckAction: the ceiling, or a claim that outlived its tolerance   *)
(* without a heartbeat since.                                               *)
Stuck(hb, beat) == hb = "old" \/ \E m \in Claims : claimOld[m] /\ ~beat[m]

(* Steps 3 and 4 of sweepSession: kill and reset, or clean up, or nothing.  *)
SweepTail(rows, alive, hb, beat) ==
    /\ doomed' = (doomed \/ (alive /\ Stuck(hb, beat)))
    /\ row' = IF ~alive \/ Stuck(hb, beat) THEN ResetStuck(rows) ELSE rows

(* A tick that does not wait: nothing due, or the runner is registered.     *)
SweepTick ==
    /\ sweep = "idle"
    /\ LET rows == Synced
           due == \E m \in Messages : /\ rows[m].status = "pending"
                                      /\ ~rows[m].deferred /\ Triggers(m)
       IN  /\ ~due \/ IsRunning
           /\ SweepTail(rows, IsRunning, heartbeat, beatSince)
    /\ UNCHANGED <<setup, ack, clocks, runner, hung, batch, open, sweep,
                   history, faults>>

(* A tick that wakes the session, or joins its wake, and awaits it. *)
SweepWakes ==
    /\ sweep = "idle"
    /\ row' = Synced
    /\ \E m \in Messages : row'[m].status = "pending" /\ ~row'[m].deferred /\ Triggers(m)
    /\ ~IsRunning
    /\ runner' = Woken
    /\ sweep' = "waking"
    /\ UNCHANGED <<setup, ack, clocks, doomed, hung, batch, open,
                   history, faults>>

(* The rest of a sweep that awaited the wake runs as soon as it resolves.   *)
ResumeSweep(alive, hb, beat) ==
    IF sweep = "waking"
    THEN SweepTail(row, alive, hb, beat) /\ sweep' = "idle"
    ELSE UNCHANGED <<row, doomed, sweep>>

Fault(kind) ==
    /\ kind \in FaultKinds
    /\ faults < MaxFaults
    /\ faults' = faults + 1

(* The wake resolves to false. *)
SpawnFails ==
    /\ runner = "spawning"
    /\ Fault("spawn")
    /\ runner' = "none"
    /\ ResumeSweep(FALSE, heartbeat, beatSince)
    /\ UNCHANGED <<setup, ack, clocks, hung, batch, open, history>>

(* The heartbeat file is removed and the process started; in docker mode    *)
(* the wake resolves now.                                                   *)
Spawned ==
    /\ runner = "spawning"
    /\ runner' = "booting"
    /\ heartbeat' = "absent"
    /\ beatSince' = [m \in Messages |-> FALSE]
    /\ IF singleProcess THEN UNCHANGED <<row, doomed, sweep>>
       ELSE ResumeSweep(TRUE, "absent", beatSince')
    /\ UNCHANGED <<setup, ack, claimOld, hung, batch, open, history,
                   faults>>

(* The close event of a dead runner; in single-process mode the wake        *)
(* resolves now.                                                            *)
Close ==
    /\ runner' = "none"
    /\ hung' = FALSE
    /\ batch' = {}
    /\ open' = {}
    /\ IF singleProcess /\ sweep = "waking"
       THEN /\ row' = ResetStuck(row)
            /\ sweep' = "idle"
       ELSE UNCHANGED <<row, sweep>>
    /\ doomed' = FALSE
    /\ UNCHANGED <<setup, ack, clocks, history>>

KilledCloses == IsRunning /\ doomed /\ Close /\ UNCHANGED faults

(* The runner crashes. *)
Crash ==
    /\ IsRunning
    /\ Fault("crash")
    /\ Close

-----------------------------------------------------------------------------
(* The runner's poll loop *)

(* Slip: every acknowledgement cleared, the completed ones too. *)
ClearedAllAcks == [m \in Messages |-> "none"]

(* clearStaleProcessingAcks *)
ClearedStaleAcks == Put(ack, Claims, "none")

Boot ==
    /\ runner = "booting"
    /\ CanAct
    /\ runner' = "polling"
    /\ ack' = ClearedStaleAcks
    /\ claimOld' = [m \in Messages |-> FALSE]
    /\ beatSince' = [m \in Messages |-> FALSE]
    /\ UNCHANGED <<setup, row, heartbeat, doomed, hung, batch, open,
                   sweep, history, faults>>

(* Claim the pending rows if one of them triggers; /clear is done at once.  *)
PollOnce ==
    /\ runner = "polling"
    /\ CanAct
    /\ LET messages == GetPendingMessages
           clears == {m \in messages : row[m].kind = "clear"}
       IN  /\ \E m \in messages : Triggers(m)
           /\ ack' = Put(Put(ack, messages, "processing"), clears, "completed")
           /\ claimOld' = Put(claimOld, messages, FALSE)
           /\ beatSince' = Put(beatSince, messages, FALSE)
           /\ batch' = messages \ clears
           /\ runner' = IF messages = clears THEN "polling" ELSE "preparing"
           /\ answered' = answered \cup clears
    /\ UNCHANGED <<setup, row, heartbeat, doomed, hung, open, sweep,
                   handed, faults>>

(* The pre-task scripts are done: the tasks they skip are completed and the *)
(* rest is given to the provider.                                           *)
StartQuery(skipped) ==
    /\ runner = "preparing"
    /\ CanAct
    /\ skipped \subseteq {m \in batch : row[m].kind = "task"}
    /\ ack' = Put(ack, skipped, "completed")
    /\ IF \E m \in batch : row[m].kind = "task"
       THEN TouchHeartbeat ELSE UNCHANGED <<heartbeat, beatSince>>
    /\ batch' = batch \ skipped
    /\ runner' = IF batch = skipped THEN "polling" ELSE "query"
    /\ Hand(batch \ skipped)
    /\ open' = batch \ skipped
    /\ answered' = answered \cup skipped
    /\ UNCHANGED <<setup, row, claimOld, doomed, hung, sweep, faults>>

InQuery == runner = "query" /\ CanAct

(* The provider is at work: something it was given is unanswered. *)
Streaming == InQuery /\ ~hung /\ open # {}

(* A provider event that ends nothing. *)
Activity ==
    /\ Streaming
    /\ TouchHeartbeat
    /\ UNCHANGED <<setup, row, ack, claimOld, runner, doomed, hung,
                   batch, open, sweep, history, faults>>

(* What the loop does on any result event: it completes the initial batch.  *)
CompleteBatch ==
    /\ ack' = Put(ack, batch, "completed")
    /\ heartbeat' = "recent"
    /\ beatSince' = [m \in Messages |-> ack'[m] = "processing"]
    /\ UNCHANGED <<setup, row, claimOld, runner, doomed, hung, batch,
                   sweep, handed, faults>>

(* The end of a turn, which may cover follow-ups pushed meanwhile. *)
Result(covered) ==
    /\ Streaming
    /\ covered \subseteq open
    /\ CompleteBatch
    /\ answered' = answered \cup batch \cup covered
    /\ open' = open \ (batch \cup covered)

(* A compaction boundary reaches the loop as a result event as well. *)
CompactBoundary ==
    /\ Streaming
    /\ CompleteBatch
    /\ UNCHANGED <<setup, answered, open>>

(* The stream throws, and an error reply is written, or it just closes. *)
QueryEnds ==
    /\ InQuery /\ ~hung
    /\ ack' = Put(ack, batch, "completed")
    /\ runner' = "polling"
    /\ answered' \in {answered, answered \cup batch}
    /\ batch' = {}
    /\ open' = {}
    /\ UNCHANGED <<setup, row, clocks, doomed, hung, sweep, handed,
                   faults>>

(* The 500 ms poll of an open query: new rows but /clear are claimed,       *)
(* pushed and completed in one go.                                          *)
PushFollowUps ==
    /\ InQuery
    /\ LET new == {m \in GetPendingMessages : row[m].kind # "clear"}
       IN  /\ new # {}
           /\ ack' = Put(ack, new, "completed")
           /\ claimOld' = Put(claimOld, new, FALSE)
           /\ beatSince' = Put(beatSince, new, FALSE)
           /\ open' = open \cup new
           /\ Hand(new)
    /\ UNCHANGED <<setup, row, heartbeat, runner, doomed, hung, batch,
                   sweep, answered, faults>>

(* The provider goes silent. *)
Hang ==
    /\ InQuery /\ ~hung
    /\ Fault("hang")
    /\ hung' = TRUE
    /\ UNCHANGED <<setup, row, ack, clocks, runner, doomed, batch, open,
                   sweep, history>>

-----------------------------------------------------------------------------
(* Time *)

(* process_after is reached: a backoff or a task's time. *)
ProcessAfterElapses(m) ==
    /\ row[m].deferred
    /\ row' = [row EXCEPT ![m].deferred = FALSE]
    /\ UNCHANGED <<setup, ack, clocks, runner, doomed, hung, batch,
                   open, sweep, history, faults>>

ClaimAges(m) ==
    /\ ack[m] = "processing"
    /\ ~claimOld[m]
    /\ claimOld' = [claimOld EXCEPT ![m] = TRUE]
    /\ UNCHANGED <<setup, row, ack, beatSince, heartbeat, runner,
                   doomed, hung, batch, open, sweep, history, faults>>

HeartbeatAges ==
    /\ heartbeat = "recent"
    /\ heartbeat' = "old"
    /\ UNCHANGED <<setup, row, ack, claimOld, beatSince, runner, doomed,
                   hung, batch, open, sweep, history, faults>>

Arrive == \E m \in Messages, kind \in Kinds : Insert(m, kind)
Prepare == \E skipped \in SUBSET batch : StartQuery(skipped)
TurnEnds == \E covered \in SUBSET open : Result(covered)

Next ==
    \/ Arrive
    \/ SweepTick \/ SweepWakes \/ SpawnFails \/ Spawned \/ KilledCloses \/ Crash
    \/ Boot \/ PollOnce \/ Prepare
    \/ Activity \/ TurnEnds \/ CompactBoundary \/ QueryEnds \/ PushFollowUps \/ Hang
    \/ \E m \in Messages : ProcessAfterElapses(m) \/ ClaimAges(m)
    \/ HeartbeatAges

Spec == Init /\ [][Next]_vars

(* The sweep's timer, the runner's own loop, a process asked to exit and    *)
(* the clock go on.  Nothing makes a message arrive, a script skip, a       *)
(* stream end, or a provider that went silent answer.                       *)
Fairness ==
    /\ WF_vars(SweepTick \/ SweepWakes)
    /\ WF_vars(Spawned)
    /\ WF_vars(KilledCloses)
    /\ WF_vars(Boot)
    /\ WF_vars(PollOnce)
    /\ WF_vars(Prepare)
    /\ WF_vars(PushFollowUps)
    /\ WF_vars(\E covered \in SUBSET open : covered # {} /\ Result(covered))
    /\ \A m \in Messages : WF_vars(ProcessAfterElapses(m)) /\ WF_vars(ClaimAges(m))
    /\ WF_vars(HeartbeatAges)

FairSpec == Spec /\ Fairness

-----------------------------------------------------------------------------
(* Properties *)

(* No claim outlives the runner that made it: once a runner has booted, a   *)
(* row that is still 'processing' belongs to the batch in its hands.        *)
(* clearStaleProcessingAcks and every path out of a batch must agree.       *)
ClaimsAreHeld ==
    /\ runner = "polling" => Claims = {}
    /\ runner \in {"preparing", "query"} => Claims \subseteq batch

(* The host calls a row completed only if it was given to the agent or      *)
(* settled without it (/clear, a skipping script): a claim left by a dead   *)
(* runner never completes a row in syncProcessingAcks.                      *)
CompletedWasTaken ==
    \A m \in Messages : row[m].status = "completed" => handed[m] > 0 \/ m \in answered

(* Docker: a message is given to the agent again only after a retry that    *)
(* was counted or a runner that failed: how often it is given is bounded by *)
(* its tries and the faults, through any order of crashes, sweeps and       *)
(* wakes.                                                                   *)
HandoversAccounted ==
    ~singleProcess => \A m \in Messages : handed[m] <= 1 + row[m].tries + faults

(* What the rows and their acknowledgements tell of the hand-overs, the     *)
(* state being well typed.                                                  *)
RowsAreAccounted == TypeOK /\ ClaimsAreHeld /\ CompletedWasTaken /\ HandoversAccounted

(* Once its turn ended with a result or an error reply, a message is never  *)
(* given to the agent again, whatever crashes before the host has seen the  *)
(* acknowledgement; and, in docker, a row in backoff is not given to it,    *)
(* although the sweep may put it there while a runner is being spawned for  *)
(* it.                                                                      *)
HandedOverWhenDue ==
    [][\A m \in Messages :
          m \in answered \/ (row[m].deferred /\ ~singleProcess) => handed'[m] = handed[m]]_vars

(* Docker: a provider that went silent does not keep its session for ever:  *)
(* the sweep notices the claim or the heartbeat and replaces the runner.    *)
HungRunnerIsReplaced == (hung /\ ~singleProcess) ~> ~hung

Settled(m) == ack[m] = "completed" \/ row[m].status \in {"completed", "failed"}

(* The three ways a session gets stuck for good: a row given up with its    *)
(* claim in place, which makes every later sweep kill the runner it has     *)
(* just woken; in single-process mode, a silent provider whose runner the   *)
(* sweep itself is waiting for; and rows that fill the window of            *)
(* getPendingMessages before an older message that triggers: context, or,   *)
(* while that sweep waits, answered ones it has not taken note of.          *)
Wedged ==
    \/ \E m \in Claims : row[m].status = "failed"
    \/ singleProcess /\ hung
    \/ WorkIsDue /\ \A m \in Window :
           ~Triggers(m) \/ (singleProcess /\ sweep = "waking" /\ ack[m] = "completed")

(* Every triggering message is settled: acknowledged by a runner, or given  *)
(* up by the sweep after its retries, unless the session gets wedged first. *)
(* A /clear is left out: it waits until the open query ends, and nothing    *)
(* makes one end.                                                           *)
SettledUnlessWedged ==
    \A m \in Messages :
        (row[m].status = "pending" /\ Triggers(m) /\ row[m].kind # "clear")
            ~> (Settled(m) \/ Wedged)

(* host-sweep.ts on the rows it finds 'processing': they are reset with a   *)
(* backoff and the "existing retry machinery does the rest".  Docker: every *)
(* triggering message is settled.                                           *)
TriggersAreSettled ==
    \A m \in Messages :
        (row[m].status = "pending" /\ Triggers(m)) ~> Settled(m)

=============================================================================
