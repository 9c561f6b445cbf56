-------------------------- MODULE SessionQueueProofs --------------------------
(***************************************************************************)
(* Proofs about SessionQueue for any number of messages, tries and faults, *)
(* either runtime and any window: claims, acknowledgements and rows agree, *)
(* and how often a message is given to the agent is accounted for.         *)
(***************************************************************************)
EXTENDS SessionQueue, TLAPS

Rows == [status : {"absent", "pending", "completed", "failed"},
         kind : AllKinds, tries : 0..MaxTries, deferred : BOOLEAN]

(* While the pre-task scripts run every row of the batch is claimed, and    *)
(* every row of an open query's batch has been given to the agent.          *)
BatchIsHeld ==
    /\ runner = "preparing" => batch \subseteq Claims
    /\ runner = "query" => \A m \in batch : handed[m] > 0

(* What the provider still has to answer belongs to the batch or was        *)
(* completed when it was pushed; without a query there is none.             *)
OpenIsHeld ==
    /\ \A m \in open : m \in batch \/ ack[m] = "completed"
    /\ runner # "query" => open = {}

(* An answer has its acknowledgement, an acknowledgement its hand-over or   *)
(* its answer, and a row that was never inserted has neither.               *)
AcksAreEarned ==
    /\ \A m \in answered : ack[m] = "completed"
    /\ \A m \in Messages : ack[m] = "completed" => handed[m] > 0 \/ m \in answered
    /\ \A m \in Messages : row[m].status = "absent" => ack[m] = "none" /\ handed[m] = 0

(* Docker: the sweep touches a claim only when it kills the runner that     *)
(* made it, or when that runner is gone.                                    *)
LiveClaims ==
    ~singleProcess /\ runner \in {"preparing", "query"} /\ ~doomed =>
        \A m \in Claims : row[m].status = "pending" /\ row[m].deferred = FALSE

Paid(m) == handed[m] <= row[m].tries + faults
Gone(m) == row[m].status \in {"completed", "failed"}

(* A message that may yet be taken up, or that a dead or dying runner has   *)
(* claimed: the hand-overs it had are paid for by its tries and the faults, *)
(* or it will not be taken up.                                              *)
MayBeTaken(m) == ack[m] = "none" \/ (ack[m] = "processing" /\ (runner # "query" \/ doomed))
TakenIsPaid == ~singleProcess => \A m \in Messages : MayBeTaken(m) => Paid(m) \/ Gone(m)

IInv ==
    /\ TypeOK /\ ClaimsAreHeld /\ CompletedWasTaken /\ HandoversAccounted
    /\ BatchIsHeld /\ OpenIsHeld /\ AcksAreEarned /\ LiveClaims /\ TakenIsPaid

-----------------------------------------------------------------------------
(* What the sweep may do to a row *)

LEMMA RetriedRow ==
    ASSUME NEW r \in Rows
    PROVE  /\ Retried(r) \in Rows
           /\ Retried(r).tries >= r.tries
           /\ Retried(r).status = r.status \/ (r.status = "pending" /\ Retried(r).status = "failed")
           /\ r.status = "pending" /\ r.deferred = FALSE =>
                Retried(r).status = "failed" \/ Retried(r).tries = r.tries + 1
<1>1. MaxTries \in Nat /\ r.tries \in 0..MaxTries
  BY BoundsAssumption DEF Rows
<1>2. CASE r.status # "pending" \/ r.deferred
  <2>1. Retried(r) = r
    BY <1>2 DEF Retried
  <2> QED  BY <1>1, <1>2, <2>1 DEF Rows
<1>3. CASE r.status = "pending" /\ ~r.deferred /\ r.tries >= MaxTries
  <2>1. Retried(r) = [r EXCEPT !.status = "failed"]
    BY <1>3 DEF Retried
  <2> QED  BY <1>1, <1>3, <2>1 DEF Rows
<1>4. CASE r.status = "pending" /\ ~r.deferred /\ ~(r.tries >= MaxTries)
  <2>1. Retried(r) = [r EXCEPT !.tries = @ + 1, !.deferred = TRUE]
    BY <1>4 DEF Retried
  <2>2. r.tries + 1 \in 0..MaxTries
    BY <1>1, <1>4
  <2>3. Retried(r) = [status |-> r.status, kind |-> r.kind, tries |-> r.tries + 1,
                      deferred |-> TRUE]
    BY <2>1 DEF Rows
  <2>4. Retried(r) \in Rows
    BY <2>2, <2>3 DEF Rows
  <2> QED  BY <1>1, <2>3, <2>4
<1> QED  BY <1>2, <1>3, <1>4

LEMMA SyncedRows ==
    ASSUME TypeOK
    PROVE  /\ Synced \in [Messages -> Rows]
           /\ \A m \in Messages :
                /\ Synced[m].tries = row[m].tries
                /\ Synced[m] = row[m] \/ (ack[m] = "completed" /\ Synced[m].status = "completed")
                /\ ack[m] # "completed" => Synced[m] = row[m]
<1>1. \A m \in Messages : row[m] \in Rows
  BY DEF TypeOK, Rows
<1>2. \A m \in Messages :
        Synced[m] = IF ack[m] = "completed" THEN [row[m] EXCEPT !.status = "completed"]
                    ELSE row[m]
  BY DEF Synced
<1>3. \A r \in Rows : /\ [r EXCEPT !.status = "completed"] \in Rows
                      /\ [r EXCEPT !.status = "completed"].tries = r.tries
                      /\ [r EXCEPT !.status = "completed"].status = "completed"
  BY DEF Rows
<1>4. Synced \in [Messages -> Rows]
  BY <1>1, <1>2, <1>3 DEF Synced
<1>5. ASSUME NEW m \in Messages
      PROVE  /\ Synced[m].tries = row[m].tries
             /\ Synced[m] = row[m] \/ (ack[m] = "completed" /\ Synced[m].status = "completed")
             /\ ack[m] # "completed" => Synced[m] = row[m]
  <2> DEFINE done == [row[m] EXCEPT !.status = "completed"]
  <2>1. done.tries = row[m].tries /\ done.status = "completed"
    BY <1>1, <1>3
  <2>2. Synced[m] = IF ack[m] = "completed" THEN done ELSE row[m]
    BY <1>2
  <2> HIDE DEF done
  <2>3. CASE ack[m] = "completed"
    BY <2>1, <2>2, <2>3
  <2>4. CASE ack[m] # "completed"
    BY <2>2, <2>4
  <2> QED  BY <2>3, <2>4
<1> QED  BY <1>4, <1>5

(* A step of the sweep or of the wake it waited for.                        *)
RowMoves(m) ==
    /\ row'[m].tries >= row[m].tries
    /\ \/ row'[m].status = row[m].status
       \/ row'[m].status = "completed" /\ ack[m] = "completed"
       \/ row'[m].status = "failed" /\ ack[m] = "processing"
    /\ ack[m] # "processing" => row'[m].tries = row[m].tries

(* A sweep that kills a runner retries every claim, one that lets it live   *)
(* none.                                                                    *)
SweepMoves(alive) ==
    /\ row' \in [Messages -> Rows] /\ doomed' \in BOOLEAN
    /\ \A m \in Messages : RowMoves(m)
    /\ doomed => doomed'
    /\ ~alive => doomed' = doomed
    /\ alive /\ doomed' = FALSE => \A m \in Claims : row'[m] = row[m]
    /\ doomed' # doomed => \A m \in Claims : row'[m] = Retried(row[m])

LEMMA SweepTailMoves ==
    ASSUME TypeOK, NEW rows, rows \in {row, Synced}, NEW alive \in BOOLEAN,
           NEW hb, NEW beat, SweepTail(rows, alive, hb, beat)
    PROVE  SweepMoves(alive)
<1>1. /\ rows \in [Messages -> Rows]
      /\ \A m \in Messages : /\ rows[m].tries = row[m].tries
                             /\ \/ rows[m] = row[m]
                                \/ ack[m] = "completed" /\ rows[m].status = "completed"
                             /\ ack[m] # "completed" => rows[m] = row[m]
  <2>1. CASE rows = row
    BY <2>1 DEF TypeOK, Rows
  <2>2. CASE rows = Synced
    BY <2>2, SyncedRows
  <2> QED  BY <2>1, <2>2
<1>2. /\ row' = [m \in Messages |-> IF (~alive \/ Stuck(hb, beat)) /\ m \in Claims
                                    THEN Retried(rows[m]) ELSE rows[m]]
      /\ doomed' = (doomed \/ (alive /\ Stuck(hb, beat)))
  BY <1>1 DEF SweepTail, ResetStuck
<1>3. \A m \in Messages : Retried(rows[m]) \in Rows
  BY <1>1, RetriedRow
<1>4. row' \in [Messages -> Rows]
  BY <1>1, <1>2, <1>3
<1>5. ASSUME NEW m \in Messages PROVE RowMoves(m)
  <2>1. row[m] \in Rows /\ rows[m] \in Rows /\ row[m].tries \in Nat
    BY <1>1, BoundsAssumption DEF TypeOK, Rows
  <2>2. CASE m \in Claims /\ row'[m] = Retried(rows[m])
    <3>1. rows[m] = row[m] /\ ack[m] = "processing"
      BY <1>1, <2>2 DEF Claims
    <3> QED  BY <2>1, <2>2, <3>1, RetriedRow DEF RowMoves
  <2>3. CASE row'[m] = rows[m]
    BY <1>1, <2>1, <2>3 DEF RowMoves
  <2> QED  BY <1>2, <2>2, <2>3
<1>6. doomed' \in BOOLEAN /\ (doomed => doomed') /\ (~alive => doomed' = doomed)
  BY <1>2 DEF TypeOK
<1>7. \A m \in Claims : m \in Messages /\ rows[m] = row[m]
  BY <1>1 DEF Claims
<1>8. alive /\ doomed' = FALSE => \A m \in Claims : row'[m] = row[m]
  BY <1>2, <1>7
<1>9. doomed' # doomed => \A m \in Claims : row'[m] = Retried(row[m])
  BY <1>2, <1>7 DEF TypeOK
<1> QED  BY <1>4, <1>5, <1>6, <1>8, <1>9 DEF SweepMoves

-----------------------------------------------------------------------------
(* Steps of the host *)

(* TypeOK in pieces the provers digest.                                     *)
LEMMA Types ==
    ASSUME TypeOK
    PROVE  /\ faults \in Nat /\ MaxFaults \in Nat /\ MaxTries \in Nat
           /\ handed \in [Messages -> Nat]
           /\ row \in [Messages -> Rows]
           /\ \A m \in Messages : row[m].tries \in Nat
BY BoundsAssumption DEF TypeOK, Rows

(* Whatever the sweep does to the rows, no completed row is unearned and    *)
(* what was paid for, or gone, stays so.                                    *)
LEMMA RowsKeep ==
    ASSUME IInv, row' \in [Messages -> Rows], \A m \in Messages : RowMoves(m),
           UNCHANGED <<setup, ack, history>>, faults' \in Nat, faults' >= faults
    PROVE  /\ CompletedWasTaken' /\ HandoversAccounted' /\ AcksAreEarned'
           /\ \A m \in Messages : Paid(m) \/ Gone(m) => (Paid(m) \/ Gone(m))'
<1>1. /\ singleProcess' = singleProcess /\ ack' = ack /\ handed' = handed
      /\ answered' = answered
  BY DEF setup, history
<1>2. /\ faults \in Nat /\ \A m \in Messages : handed[m] \in Nat /\ row[m].tries \in Nat
      /\ \A m \in Messages : row'[m].tries \in Nat
  BY Types DEF IInv, Rows
<1>3. CompletedWasTaken'
  BY <1>1 DEF IInv, CompletedWasTaken, RowMoves, AcksAreEarned
<1>4. HandoversAccounted'
  BY <1>1, <1>2 DEF IInv, HandoversAccounted, RowMoves
<1>5. AcksAreEarned'
  BY <1>1 DEF IInv, AcksAreEarned, RowMoves
<1>6. \A m \in Messages : Paid(m) \/ Gone(m) => (Paid(m) \/ Gone(m))'
  BY <1>1, <1>2 DEF Paid, Gone, RowMoves
<1> QED  BY <1>3, <1>4, <1>5, <1>6

(* A sweep, or the wake of a session without a runner.                      *)
LEMMA SweepKeeps ==
    ASSUME IInv, NEW alive \in BOOLEAN, SweepMoves(alive),
           UNCHANGED <<setup, ack, batch, open, history>>,
           faults' \in Nat, faults' >= faults,
           runner \in {"preparing", "query"} => alive,
           runner' = runner \/ (runner \in {"none", "spawning"} /\
                               runner' \in {"none", "spawning", "booting"})
    PROVE  /\ ClaimsAreHeld' /\ CompletedWasTaken' /\ HandoversAccounted' /\ BatchIsHeld'
           /\ OpenIsHeld' /\ AcksAreEarned' /\ LiveClaims' /\ TakenIsPaid'
<1>1. /\ singleProcess' = singleProcess /\ ack' = ack /\ handed' = handed
      /\ answered' = answered /\ batch' = batch /\ open' = open
      /\ \A m \in Messages : RowMoves(m)
  BY DEF setup, history, SweepMoves
<1>2. /\ CompletedWasTaken' /\ HandoversAccounted' /\ AcksAreEarned'
      /\ \A m \in Messages : Paid(m) \/ Gone(m) => (Paid(m) \/ Gone(m))'
  BY RowsKeep DEF SweepMoves
<1>3. Claims' = Claims
  BY <1>1 DEF Claims
<1>4. ClaimsAreHeld' /\ BatchIsHeld' /\ OpenIsHeld'
  BY <1>1, <1>3 DEF IInv, ClaimsAreHeld, BatchIsHeld, OpenIsHeld
<1>5. LiveClaims'
  <2> SUFFICES ASSUME ~singleProcess', runner' \in {"preparing", "query"}, ~doomed',
                      NEW m \in Claims
               PROVE  row'[m].status = "pending" /\ row'[m].deferred = FALSE
    BY <1>3 DEF LiveClaims
  <2>1. runner' = runner /\ alive /\ doomed' = FALSE /\ ~doomed
    BY DEF SweepMoves
  <2>2. row'[m] = row[m]
    BY <2>1 DEF SweepMoves
  <2> QED  BY <1>1, <2>1, <2>2 DEF IInv, LiveClaims
<1>6. TakenIsPaid'
  <2> SUFFICES ASSUME ~singleProcess, NEW m \in Messages, MayBeTaken(m)'
               PROVE  (Paid(m) \/ Gone(m))'
    BY <1>1 DEF TakenIsPaid
  <2>1. CASE MayBeTaken(m)
    BY <1>2, <2>1 DEF IInv, TakenIsPaid
  <2>2. CASE ~MayBeTaken(m)
    <3>1. ack[m] = "processing" /\ runner = "query" /\ ~doomed /\ doomed' /\ m \in Claims
      BY <1>1, <2>2 DEF MayBeTaken, Claims
    <3>2. row'[m] = Retried(row[m])
      BY <3>1 DEF SweepMoves
    <3>3. row[m] \in Rows /\ row[m].status = "pending" /\ row[m].deferred = FALSE
      BY <3>1, Types DEF IInv, LiveClaims
    <3>4. row'[m].status = "failed" \/ row'[m].tries = row[m].tries + 1
      BY <3>2, <3>3, RetriedRow
    <3>5. /\ handed[m] <= 1 + row[m].tries + faults
          /\ handed[m] \in Nat /\ row[m].tries \in Nat /\ faults \in Nat
      BY Types DEF IInv, HandoversAccounted
    <3>6. CASE row'[m].status = "failed"
      BY <3>6 DEF Gone
    <3>7. CASE row'[m].tries = row[m].tries + 1
      BY <1>1, <3>5, <3>7 DEF Paid
    <3> QED  BY <3>4, <3>6, <3>7
  <2> QED  BY <2>1, <2>2
<1> QED  BY <1>2, <1>4, <1>5, <1>6

(* Rows and doom that do not change count as a sweep that did nothing.      *)
LEMMA NoSweep ==
    ASSUME TypeOK, UNCHANGED <<row, doomed>>, NEW alive \in BOOLEAN
    PROVE  SweepMoves(alive)
<1>1. row \in [Messages -> Rows] /\ \A m \in Messages : row[m].tries \in Nat
  BY Types
<1> QED  BY <1>1 DEF SweepMoves, RowMoves, TypeOK

LEMMA HostSteps ==
    ASSUME IInv, SweepTick \/ SweepWakes \/ SpawnFails \/ Spawned
    PROVE  IInv'
<1>0. TypeOK /\ runner \in RunnerStates
  BY DEF IInv, TypeOK
<1>1. CASE SweepTick
  <2>1. SweepMoves(IsRunning)
    BY <1>0, <1>1, SweepTailMoves DEF SweepTick, IsRunning
  <2>2. TypeOK'
    BY <1>0, <1>1, <2>1 DEF SweepTick, SweepMoves, TypeOK, Rows, setup, clocks, history
  <2>3. /\ UNCHANGED <<setup, ack, batch, open, history>> /\ runner' = runner
        /\ faults' \in Nat /\ faults' >= faults
    BY <1>0, <1>1, Types DEF SweepTick
  <2>4. IsRunning \in BOOLEAN /\ (runner \in {"preparing", "query"} => IsRunning)
    BY DEF IsRunning
  <2>5. /\ ClaimsAreHeld' /\ CompletedWasTaken' /\ HandoversAccounted' /\ BatchIsHeld'
        /\ OpenIsHeld' /\ AcksAreEarned' /\ LiveClaims' /\ TakenIsPaid'
    BY <2>1, <2>3, <2>4, SweepKeeps
  <2> QED  BY <2>2, <2>5 DEF IInv
<1>2. CASE SweepWakes
  <2>1. SweepMoves(FALSE)
    <3>1. /\ row' = Synced /\ doomed' = doomed
      BY <1>2 DEF SweepWakes
    <3> QED  BY <1>0, <3>1, SyncedRows, Types DEF SweepMoves, RowMoves, TypeOK
  <2>2. runner' \in {"none", "spawning"} /\ runner \in {"none", "spawning"}
    BY <1>2 DEF SweepWakes, IsRunning, Woken
  <2>3. TypeOK'
    BY <1>0, <1>2, <2>1, <2>2
    DEF SweepWakes, SweepMoves, TypeOK, Rows, RunnerStates, setup, clocks, history
  <2>4. /\ UNCHANGED <<setup, ack, batch, open, history>>
        /\ faults' \in Nat /\ faults' >= faults
    BY <1>0, <1>2, Types DEF SweepWakes
  <2>5. /\ ClaimsAreHeld' /\ CompletedWasTaken' /\ HandoversAccounted' /\ BatchIsHeld'
        /\ OpenIsHeld' /\ AcksAreEarned' /\ LiveClaims' /\ TakenIsPaid'
    BY <2>1, <2>2, <2>4, SweepKeeps
  <2> QED  BY <2>3, <2>5 DEF IInv
<1>3. CASE SpawnFails
  <2>1. SweepMoves(FALSE)
    BY <1>0, <1>3, SweepTailMoves, NoSweep DEF SpawnFails, ResumeSweep
  <2>2. faults' \in Nat /\ faults' >= faults /\ faults' \in 0..MaxFaults
    BY <1>0, <1>3, Types DEF SpawnFails, Fault
  <2>3. sweep' \in {"idle", "waking"}
    BY <1>0, <1>3 DEF SpawnFails, ResumeSweep, TypeOK
  <2>4. TypeOK'
    BY <1>0, <1>3, <2>1, <2>2, <2>3
    DEF SpawnFails, SweepMoves, TypeOK, Rows, RunnerStates, setup, clocks, history
  <2> QED  BY <1>3, <2>1, <2>2, <2>4, SweepKeeps DEF SpawnFails, IInv, setup, history
<1>4. CASE Spawned
  <2>1. SweepMoves(TRUE)
    BY <1>0, <1>4, SweepTailMoves, NoSweep DEF Spawned, ResumeSweep
  <2>2. sweep' \in {"idle", "waking"} /\ beatSince' \in [Messages -> BOOLEAN]
    BY <1>0, <1>4 DEF Spawned, ResumeSweep, TypeOK
  <2>3. TypeOK'
    BY <1>0, <1>4, <2>1, <2>2
    DEF Spawned, SweepMoves, TypeOK, Rows, RunnerStates, setup, history
  <2>4. /\ UNCHANGED <<setup, ack, batch, open, history>>
        /\ faults' \in Nat /\ faults' >= faults
        /\ runner \in {"none", "spawning"} /\ runner' \in {"none", "spawning", "booting"}
    BY <1>0, <1>4, Types DEF Spawned
  <2>5. /\ ClaimsAreHeld' /\ CompletedWasTaken' /\ HandoversAccounted' /\ BatchIsHeld'
        /\ OpenIsHeld' /\ AcksAreEarned' /\ LiveClaims' /\ TakenIsPaid'
    BY <2>1, <2>4, SweepKeeps
  <2> QED  BY <2>3, <2>5 DEF IInv
<1> QED  BY <1>1, <1>2, <1>3, <1>4

(* A new row has no acknowledgement and was given to nobody.                *)
LEMMA InsertStep ==
    ASSUME IInv, NEW m \in Messages, NEW kind \in Kinds, Insert(m, kind)
    PROVE  IInv'
<1>0. /\ TypeOK /\ row \in [Messages -> Rows] /\ kind \in AllKinds /\ row[m].status = "absent"
      /\ singleProcess' = singleProcess /\ ack' = ack /\ handed' = handed
      /\ answered' = answered /\ batch' = batch /\ open' = open /\ doomed' = doomed
      /\ faults' = faults
  BY Types, KindsAssumption DEF IInv, Insert, setup, history
<1>1. /\ row'[m] = [status |-> "pending", kind |-> kind, tries |-> row[m].tries,
                   deferred |-> (kind = "task")]
      /\ \A n \in Messages \ {m} : row'[n] = row[n]
  <2>1. row[m] = [status |-> row[m].status, kind |-> row[m].kind, tries |-> row[m].tries,
                  deferred |-> row[m].deferred]
    BY <1>0 DEF Rows
  <2> QED  BY <1>0, <2>1 DEF Insert
<1>2. row' \in [Messages -> Rows]
  <2>1. row'[m] \in Rows
    BY <1>0, <1>1 DEF Rows
  <2>2. row' = [row EXCEPT ![m] = row'[m]]
    BY <1>0 DEF Insert
  <2> QED  BY <1>0, <2>1, <2>2
<1>3. runner' \in RunnerStates /\ (runner' = runner \/ (runner = "none" /\ runner' = "spawning"))
  BY <1>0 DEF Insert, Woken, TypeOK, RunnerStates
<1>4. TypeOK'
  BY <1>0, <1>2, <1>3 DEF Insert, TypeOK, Rows, setup, clocks, history
<1>5. ack[m] = "none"
  BY <1>0 DEF IInv, AcksAreEarned
<1>6. Claims' = Claims /\ m \notin Claims
  BY <1>0, <1>5 DEF Claims
<1>7. ClaimsAreHeld' /\ BatchIsHeld' /\ OpenIsHeld'
  BY <1>0, <1>3, <1>6 DEF IInv, ClaimsAreHeld, BatchIsHeld, OpenIsHeld
<1>8. /\ \A n \in Messages : row'[n].tries = row[n].tries
      /\ \A n \in Messages : n = m \/ row'[n] = row[n]
      /\ row'[m].status = "pending"
  BY <1>1
<1>9. CompletedWasTaken' /\ HandoversAccounted' /\ AcksAreEarned'
  BY <1>0, <1>5, <1>8 DEF IInv, CompletedWasTaken, HandoversAccounted, AcksAreEarned
<1>10. LiveClaims'
  BY <1>0, <1>3, <1>6, <1>8 DEF IInv, LiveClaims, Claims
<1>11. TakenIsPaid'
  <2> SUFFICES ASSUME ~singleProcess, NEW n \in Messages, MayBeTaken(n)'
               PROVE  (Paid(n) \/ Gone(n))'
    BY <1>0 DEF TakenIsPaid
  <2>1. MayBeTaken(n)
    BY <1>0, <1>3 DEF MayBeTaken
  <2>2. Paid(n) \/ Gone(n)
    BY <2>1 DEF IInv, TakenIsPaid
  <2>3. Gone(n) => n # m
    BY <1>0 DEF Gone
  <2> QED  BY <1>0, <1>8, <2>2, <2>3 DEF Paid, Gone
<1> QED  BY <1>4, <1>7, <1>9, <1>10, <1>11 DEF IInv

(* The end of a runner: what it had claimed may be taken up again, which a  *)
(* kill has paid for with a try and a crash pays for now.                   *)
LEMMA CloseStep ==
    ASSUME IInv, KilledCloses \/ Crash
    PROVE  IInv'
<1>0. /\ TypeOK /\ runner' = "none" /\ batch' = {} /\ open' = {} /\ doomed' = FALSE
      /\ UNCHANGED <<setup, ack, clocks, history>>
      /\ faults' \in 0..MaxFaults /\ faults' >= faults /\ faults' \in Nat
      /\ doomed \/ faults' = faults + 1
  <2>1. CASE KilledCloses
    BY <2>1, Types DEF IInv, KilledCloses, Close, TypeOK
  <2>2. CASE Crash
    BY <2>2, Types DEF IInv, Crash, Close, Fault, TypeOK
  <2> QED  BY <2>1, <2>2
<1>1. Close
  BY DEF KilledCloses, Crash
<1>2. row' \in [Messages -> Rows] /\ \A m \in Messages : RowMoves(m)
  <2>1. \A m \in Messages : row[m] \in Rows /\ row[m].tries \in Nat
    BY <1>0, Types
  <2>2. \A m \in Messages : Retried(row[m]) \in Rows
    BY <2>1, RetriedRow
  <2>3. CASE row' = ResetStuck(row)
    <3>1. row' \in [Messages -> Rows]
      BY <2>1, <2>2, <2>3 DEF ResetStuck
    <3>2. ASSUME NEW m \in Messages PROVE RowMoves(m)
      <4>1. CASE m \in Claims
        <5>1. row'[m] = Retried(row[m]) /\ ack[m] = "processing"
          BY <2>3, <4>1 DEF ResetStuck, Claims
        <5> QED  BY <2>1, <5>1, RetriedRow DEF RowMoves
      <4>2. CASE m \notin Claims
        BY <2>1, <2>3, <4>2 DEF ResetStuck, RowMoves
      <4> QED  BY <4>1, <4>2
    <3> QED  BY <3>1, <3>2
  <2>4. CASE UNCHANGED row
    BY <1>0, <2>1, <2>4, Types DEF RowMoves
  <2> QED  BY <1>1, <2>3, <2>4 DEF Close
<1>3. TypeOK'
  <2>1. sweep' \in {"idle", "waking"} /\ hung' \in BOOLEAN
    BY <1>0, <1>1 DEF Close, TypeOK
  <2> QED  BY <1>0, <1>2, <2>1 DEF TypeOK, Rows, RunnerStates, setup, clocks, history
<1>4. /\ CompletedWasTaken' /\ HandoversAccounted' /\ AcksAreEarned'
      /\ \A m \in Messages : Paid(m) \/ Gone(m) => (Paid(m) \/ Gone(m))'
  BY <1>0, <1>2, RowsKeep
<1>5. ClaimsAreHeld' /\ BatchIsHeld' /\ OpenIsHeld' /\ LiveClaims'
  BY <1>0 DEF ClaimsAreHeld, BatchIsHeld, OpenIsHeld, LiveClaims
<1>6. TakenIsPaid'
  <2> SUFFICES ASSUME ~singleProcess, NEW m \in Messages, MayBeTaken(m)'
               PROVE  (Paid(m) \/ Gone(m))'
    BY <1>0 DEF TakenIsPaid, setup
  <2>1. CASE MayBeTaken(m)
    BY <1>4, <2>1 DEF IInv, TakenIsPaid
  <2>2. CASE ~MayBeTaken(m)
    <3>1. faults' = faults + 1
      BY <1>0, <2>2 DEF MayBeTaken
    <3>2. row'[m] = row[m]
      BY <1>1 DEF Close
    <3>3. handed[m] <= 1 + row[m].tries + faults
      BY DEF IInv, HandoversAccounted
    <3>4. faults \in Nat /\ handed[m] \in Nat /\ row[m].tries \in Nat
      BY <1>0, Types
    <3> QED  BY <1>0, <3>1, <3>2, <3>3, <3>4 DEF Paid, history
  <2> QED  BY <2>1, <2>2
<1> QED  BY <1>3, <1>4, <1>5, <1>6 DEF IInv

(* Clocks, a provider that says something or nothing: no claim, row or      *)
(* hand-over changes, but that a backoff may end.                           *)
LEMMA QuietSteps ==
    ASSUME IInv,
           \/ \E m \in Messages : ProcessAfterElapses(m) \/ ClaimAges(m)
           \/ HeartbeatAges \/ Activity \/ Hang \/ UNCHANGED vars
    PROVE  IInv'
<1>0. /\ TypeOK
      /\ UNCHANGED <<setup, ack, runner, doomed, batch, open, sweep, history>>
      /\ faults' \in 0..MaxFaults /\ faults' >= faults /\ faults' \in Nat
  <2>1. CASE Hang
    BY <2>1, Types DEF IInv, Hang, Fault
  <2>2. CASE ~Hang
    <3>1. UNCHANGED <<setup, ack, runner, doomed, batch, open, sweep, history, faults>>
      BY <2>2 DEF ProcessAfterElapses, ClaimAges, HeartbeatAges, Activity, vars, history
    <3> QED  BY <3>1, Types DEF IInv, TypeOK
  <2> QED  BY <2>1, <2>2
<1>1. /\ row' \in [Messages -> Rows]
      /\ \A m \in Messages : /\ row'[m].status = row[m].status /\ row'[m].tries = row[m].tries
                             /\ row[m].deferred = FALSE => row'[m].deferred = FALSE
  <2>0. row \in [Messages -> Rows]
    BY <1>0, Types
  <2>1. ASSUME NEW m \in Messages, ProcessAfterElapses(m)
        PROVE  /\ row' \in [Messages -> Rows]
               /\ \A n \in Messages :
                     /\ row'[n].status = row[n].status /\ row'[n].tries = row[n].tries
                     /\ row[n].deferred = FALSE => row'[n].deferred = FALSE
    <3>1. row' = [row EXCEPT ![m] = [row[m] EXCEPT !.deferred = FALSE]]
      BY <2>1 DEF ProcessAfterElapses
    <3>2. /\ [row[m] EXCEPT !.deferred = FALSE] \in Rows
          /\ [row[m] EXCEPT !.deferred = FALSE].status = row[m].status
          /\ [row[m] EXCEPT !.deferred = FALSE].tries = row[m].tries
          /\ [row[m] EXCEPT !.deferred = FALSE].deferred = FALSE
      BY <2>0 DEF Rows
    <3> QED  BY <2>0, <3>1, <3>2
  <2>2. CASE UNCHANGED row
    BY <2>0, <2>2
  <2> QED  BY <2>1, <2>2 DEF ClaimAges, HeartbeatAges, Activity, Hang, vars
<1>2. TypeOK'
  <2>1. /\ claimOld' \in [Messages -> BOOLEAN] /\ beatSince' \in [Messages -> BOOLEAN]
        /\ heartbeat' \in {"absent", "recent", "old"} /\ hung' \in BOOLEAN
    BY <1>0 DEF TypeOK, ProcessAfterElapses, ClaimAges, HeartbeatAges, Activity, Hang,
                TouchHeartbeat, vars, clocks
  <2> QED  BY <1>0, <1>1, <2>1 DEF TypeOK, Rows, setup, history
<1>3. \A m \in Messages : RowMoves(m)
  BY <1>0, <1>1, Types DEF RowMoves
<1>4. /\ CompletedWasTaken' /\ HandoversAccounted' /\ AcksAreEarned'
      /\ \A m \in Messages : Paid(m) \/ Gone(m) => (Paid(m) \/ Gone(m))'
  BY <1>0, <1>1, <1>3, RowsKeep
<1>5. Claims' = Claims
  BY <1>0 DEF Claims
<1>6. ClaimsAreHeld' /\ BatchIsHeld' /\ OpenIsHeld'
  BY <1>0, <1>5 DEF IInv, ClaimsAreHeld, BatchIsHeld, OpenIsHeld, history
<1>7. LiveClaims'
  BY <1>0, <1>1, <1>5 DEF IInv, LiveClaims, Claims, setup
<1>8. TakenIsPaid'
  BY <1>0, <1>4 DEF IInv, TakenIsPaid, MayBeTaken, setup
<1> QED  BY <1>2, <1>4, <1>6, <1>7, <1>8 DEF IInv

-----------------------------------------------------------------------------
(* Steps of the runner.  None of them changes a row, the doom or the faults *)

LEMMA PutValue ==
    ASSUME NEW f, NEW S, NEW v, NEW m \in Messages
    PROVE  Put(f, S, v)[m] = IF m \in S THEN v ELSE f[m]
BY DEF Put

(* What getPendingMessages returns is due and has no acknowledgement.       *)
LEMMA PendingMessages ==
    ASSUME NEW m \in GetPendingMessages
    PROVE  m \in Messages /\ ack[m] = "none" /\ row[m].status = "pending" /\ ~row[m].deferred
BY DEF GetPendingMessages, Window, Due

LEMMA BootStep ==
    ASSUME IInv, Boot
    PROVE  IInv'
<1>0. /\ TypeOK /\ runner = "booting" /\ runner' = "polling"
      /\ UNCHANGED <<setup, row, doomed, batch, open, history, faults>>
  BY DEF IInv, Boot
<1>1. \A m \in Messages : ack'[m] = IF ack[m] = "processing" THEN "none" ELSE ack[m]
  BY PutValue DEF Boot, ClearedStaleAcks, Claims
<1>2. TypeOK'
  <2>1. ack' \in [Messages -> {"none", "processing", "completed"}]
    BY <1>0 DEF Boot, ClearedStaleAcks, Put, TypeOK
  <2> QED  BY <1>0, <2>1 DEF Boot, TypeOK, RunnerStates, setup, history
<1>3. ClaimsAreHeld' /\ BatchIsHeld' /\ OpenIsHeld' /\ LiveClaims'
  BY <1>0, <1>1 DEF IInv, ClaimsAreHeld, BatchIsHeld, OpenIsHeld, LiveClaims, Claims
<1>4. CompletedWasTaken' /\ HandoversAccounted'
  BY <1>0 DEF IInv, CompletedWasTaken, HandoversAccounted, setup, history
<1>5. AcksAreEarned'
  BY <1>0, <1>1 DEF IInv, AcksAreEarned, TypeOK, history
<1>6. TakenIsPaid'
  BY <1>0, <1>1 DEF IInv, TakenIsPaid, MayBeTaken, Paid, Gone, setup, history
<1> QED  BY <1>2, <1>3, <1>4, <1>5, <1>6 DEF IInv

LEMMA PollOnceStep ==
    ASSUME IInv, PollOnce
    PROVE  IInv'
<1> DEFINE messages == GetPendingMessages
           clears == {m \in messages : row[m].kind = "clear"}
<1>0. /\ TypeOK /\ runner = "polling" /\ runner' = IF messages = clears THEN "polling" ELSE "preparing"
      /\ batch' = messages \ clears /\ answered' = answered \cup clears
      /\ UNCHANGED <<setup, row, doomed, open, handed, faults>>
  BY DEF IInv, PollOnce
<1>1. \A m \in Messages : ack'[m] = IF m \in clears THEN "completed"
                                   ELSE IF m \in messages THEN "processing" ELSE ack[m]
  BY PutValue DEF PollOnce
<1>2. \A m \in messages : /\ m \in Messages /\ ack[m] = "none"
                          /\ row[m].status = "pending" /\ row[m].deferred = FALSE
  BY <1>0, PendingMessages, Types DEF Rows
<1>3. clears \subseteq messages
  OBVIOUS
<1> HIDE DEF messages, clears
<1>4. Claims = {} /\ Claims' = messages \ clears
  <2>1. Claims = {}
    BY <1>0 DEF IInv, ClaimsAreHeld
  <2> QED  BY <1>1, <1>2, <1>3, <2>1 DEF Claims
<1>5. TypeOK'
  <2>1. /\ ack' \in [Messages -> {"none", "processing", "completed"}]
        /\ claimOld' \in [Messages -> BOOLEAN] /\ beatSince' \in [Messages -> BOOLEAN]
    BY <1>0 DEF PollOnce, Put, TypeOK
  <2>2. batch' \subseteq Messages /\ answered' \subseteq Messages
    BY <1>0, <1>2, <1>3 DEF TypeOK
  <2>3. UNCHANGED <<heartbeat, hung, sweep>>
    BY DEF PollOnce
  <2> QED  BY <1>0, <2>1, <2>2, <2>3 DEF TypeOK, RunnerStates, setup
<1>6. ClaimsAreHeld' /\ BatchIsHeld' /\ OpenIsHeld'
  BY <1>0, <1>3, <1>4 DEF IInv, ClaimsAreHeld, BatchIsHeld, OpenIsHeld
<1>7. CompletedWasTaken' /\ HandoversAccounted'
  BY <1>0 DEF IInv, CompletedWasTaken, HandoversAccounted, setup
<1>8. AcksAreEarned'
  <2>1. \A m \in answered' : ack'[m] = "completed"
    BY <1>0, <1>1, <1>2, <1>3 DEF IInv, AcksAreEarned, TypeOK
  <2>2. \A m \in Messages : ack'[m] = "completed" => handed'[m] > 0 \/ m \in answered'
    BY <1>0, <1>1 DEF IInv, AcksAreEarned
  <2>3. \A m \in Messages :
          row'[m].status = "absent" => ack'[m] = "none" /\ handed'[m] = 0
    BY <1>0, <1>1, <1>2, <1>3 DEF IInv, AcksAreEarned
  <2> QED  BY <2>1, <2>2, <2>3 DEF AcksAreEarned
<1>9. LiveClaims'
  BY <1>0, <1>2, <1>4 DEF LiveClaims
<1>10. TakenIsPaid'
  <2>1. \A m \in Messages : MayBeTaken(m)' => MayBeTaken(m)
    BY <1>0, <1>1, <1>2 DEF MayBeTaken
  <2> QED  BY <1>0, <2>1 DEF IInv, TakenIsPaid, Paid, Gone, setup
<1> QED  BY <1>5, <1>6, <1>7, <1>8, <1>9, <1>10 DEF IInv

LEMMA StartQueryStep ==
    ASSUME IInv, NEW skipped \in SUBSET batch, StartQuery(skipped)
    PROVE  IInv'
<1>0. /\ TypeOK /\ runner = "preparing" /\ CanAct
      /\ runner' = IF batch = skipped THEN "polling" ELSE "query"
      /\ batch' = batch \ skipped /\ open' = batch \ skipped
      /\ answered' = answered \cup skipped
      /\ UNCHANGED <<setup, row, doomed, faults>>
      /\ batch \subseteq Messages /\ batch \subseteq Claims /\ Claims \subseteq batch
  BY DEF IInv, StartQuery, TypeOK, BatchIsHeld, ClaimsAreHeld
<1>1. /\ \A m \in Messages : ack'[m] = IF m \in skipped THEN "completed" ELSE ack[m]
      /\ \A m \in Messages : handed'[m] = handed[m] + IF m \in batch \ skipped THEN 1 ELSE 0
      /\ \A m \in Messages : ack[m] = "processing" <=> m \in batch
      /\ \A m \in Messages : handed[m] \in Nat /\ row[m].tries \in Nat
      /\ faults \in Nat
  BY <1>0, PutValue, Types DEF StartQuery, Hand, Claims
<1>2. Claims' = batch \ skipped
  BY <1>0, <1>1 DEF Claims
<1>3. TypeOK'
  <2>1. /\ ack' \in [Messages -> {"none", "processing", "completed"}]
        /\ beatSince' \in [Messages -> BOOLEAN] /\ heartbeat' \in {"absent", "recent", "old"}
    BY <1>0 DEF StartQuery, Put, TouchHeartbeat, TypeOK
  <2>2. handed' \in [Messages -> Nat]
    BY <1>1 DEF StartQuery, Hand
  <2>3. UNCHANGED <<claimOld, hung, sweep>>
    BY DEF StartQuery
  <2> QED  BY <1>0, <2>1, <2>2, <2>3 DEF TypeOK, RunnerStates, setup
<1>4. ClaimsAreHeld' /\ OpenIsHeld'
  BY <1>0, <1>2 DEF ClaimsAreHeld, OpenIsHeld
<1>5. BatchIsHeld'
  BY <1>0, <1>1 DEF BatchIsHeld
<1>6. CompletedWasTaken'
  BY <1>0, <1>1 DEF IInv, CompletedWasTaken
<1>7. AcksAreEarned'
  BY <1>0, <1>1 DEF IInv, AcksAreEarned, TypeOK
<1>8. LiveClaims'
  BY <1>0, <1>2 DEF IInv, LiveClaims, setup
<1>9. HandoversAccounted'
  <2> SUFFICES ASSUME ~singleProcess, NEW m \in Messages
               PROVE  handed'[m] <= 1 + row[m].tries + faults
    BY <1>0 DEF HandoversAccounted, setup
  <2>1. CASE m \in batch \ skipped
    <3>1. ~doomed /\ row[m].status = "pending"
      BY <1>0, <2>1 DEF CanAct, IInv, LiveClaims
    <3>2. Paid(m)
      BY <1>0, <1>1, <2>1, <3>1 DEF IInv, TakenIsPaid, MayBeTaken, Gone
    <3> QED  BY <1>1, <2>1, <3>2 DEF Paid
  <2>2. CASE m \notin batch \ skipped
    BY <1>1, <2>2 DEF IInv, HandoversAccounted
  <2> QED  BY <2>1, <2>2
<1>10. TakenIsPaid'
  <2> SUFFICES ASSUME ~singleProcess, NEW m \in Messages, MayBeTaken(m)'
               PROVE  (Paid(m) \/ Gone(m))'
    BY <1>0 DEF TakenIsPaid, setup
  <2>1. ~doomed
    BY <1>0 DEF CanAct
  <2>2. m \notin batch
    BY <1>0, <1>1, <1>2, <2>1 DEF MayBeTaken, Claims
  <2>3. ack[m] = "none" /\ handed'[m] = handed[m]
    BY <1>0, <1>1, <2>2 DEF MayBeTaken
  <2> QED  BY <1>0, <2>3 DEF IInv, TakenIsPaid, MayBeTaken, Paid, Gone
<1> QED  BY <1>3, <1>4, <1>5, <1>6, <1>7, <1>8, <1>9, <1>10 DEF IInv

(* A result, a compaction boundary or the end of a stream completes the     *)
(* batch; what is answered then was in the batch or pushed.                 *)
LEMMA BatchCompleted ==
    ASSUME IInv, runner = "query", ack' = Put(ack, batch, "completed"),
           UNCHANGED <<setup, row, doomed, handed, faults>>,
           answered \subseteq answered', answered' \subseteq answered \cup batch \cup open,
           \/ runner' = "query" /\ batch' = batch /\ open' \subseteq open
           \/ runner' = "polling" /\ batch' = {} /\ open' = {}
    PROVE  /\ ClaimsAreHeld' /\ CompletedWasTaken' /\ HandoversAccounted' /\ BatchIsHeld'
           /\ OpenIsHeld' /\ AcksAreEarned' /\ LiveClaims' /\ TakenIsPaid'
<1>0. TypeOK /\ Claims \subseteq batch /\ batch \subseteq Messages /\ open \subseteq Messages
  BY DEF IInv, ClaimsAreHeld, TypeOK
<1>1. \A m \in Messages : ack'[m] = IF m \in batch THEN "completed" ELSE ack[m]
  BY PutValue
<1>2. Claims' = {}
  BY <1>0, <1>1 DEF Claims
<1>3. ClaimsAreHeld' /\ BatchIsHeld' /\ LiveClaims'
  BY <1>2 DEF IInv, ClaimsAreHeld, BatchIsHeld, LiveClaims
<1>4. OpenIsHeld'
  BY <1>0, <1>1 DEF IInv, OpenIsHeld
<1>5. CompletedWasTaken' /\ HandoversAccounted'
  BY DEF IInv, CompletedWasTaken, HandoversAccounted, setup
<1>6. AcksAreEarned'
  <2>1. \A m \in answered' : ack'[m] = "completed"
    BY <1>0, <1>1 DEF IInv, AcksAreEarned, OpenIsHeld, TypeOK
  <2>2. \A m \in Messages : ack'[m] = "completed" => handed'[m] > 0 \/ m \in answered'
    BY <1>1 DEF IInv, AcksAreEarned, BatchIsHeld
  <2>3. \A m \in Messages :
          row'[m].status = "absent" => ack'[m] = "none" /\ handed'[m] = 0
    BY <1>1 DEF IInv, AcksAreEarned, BatchIsHeld
  <2> QED  BY <2>1, <2>2, <2>3 DEF AcksAreEarned
<1>7. TakenIsPaid'
  <2>1. \A m \in Messages : ack'[m] # "completed" => ack[m] = "none" /\ ack'[m] = "none"
    BY <1>0, <1>1 DEF Claims, TypeOK
  <2> QED  BY <2>1 DEF IInv, TakenIsPaid, MayBeTaken, Paid, Gone, setup
<1> QED  BY <1>3, <1>4, <1>5, <1>6, <1>7

LEMMA TurnSteps ==
    ASSUME IInv,
           \/ \E covered \in SUBSET open : Result(covered)
           \/ CompactBoundary \/ QueryEnds
    PROVE  IInv'
<1>0. TypeOK /\ batch \subseteq Messages /\ open \subseteq Messages /\ answered \subseteq Messages
  BY DEF IInv, TypeOK
<1>1. /\ runner = "query" /\ ack' = Put(ack, batch, "completed")
      /\ UNCHANGED <<setup, row, doomed, handed, faults>>
      /\ answered \subseteq answered' /\ answered' \subseteq answered \cup batch \cup open
      /\ \/ runner' = "query" /\ batch' = batch /\ open' \subseteq open
         \/ runner' = "polling" /\ batch' = {} /\ open' = {}
  BY DEF Result, CompactBoundary, QueryEnds, CompleteBatch, Streaming, InQuery
<1>2. /\ ClaimsAreHeld' /\ CompletedWasTaken' /\ HandoversAccounted' /\ BatchIsHeld'
      /\ OpenIsHeld' /\ AcksAreEarned' /\ LiveClaims' /\ TakenIsPaid'
  BY <1>1, BatchCompleted
<1>3. TypeOK'
  <2>1. /\ ack' \in [Messages -> {"none", "processing", "completed"}]
        /\ runner' \in RunnerStates /\ batch' \subseteq Messages /\ open' \subseteq Messages
        /\ answered' \subseteq Messages
    BY <1>0, <1>1 DEF Put, TypeOK, RunnerStates
  <2>2. /\ claimOld' = claimOld /\ hung' = hung /\ sweep' = sweep
        /\ heartbeat' \in {"absent", "recent", "old"} /\ beatSince' \in [Messages -> BOOLEAN]
    BY <1>0 DEF Result, CompactBoundary, QueryEnds, CompleteBatch, TypeOK, clocks
  <2> QED  BY <1>0, <1>1, <2>1, <2>2 DEF TypeOK, setup
<1> QED  BY <1>2, <1>3 DEF IInv

LEMMA PushStep ==
    ASSUME IInv, PushFollowUps
    PROVE  IInv'
<1> DEFINE new == {m \in GetPendingMessages : row[m].kind # "clear"}
<1>0. /\ TypeOK /\ runner = "query" /\ CanAct /\ open' = open \cup new
      /\ UNCHANGED <<setup, row, doomed, runner, batch, answered, faults>>
      /\ batch \subseteq Messages
  BY DEF IInv, PushFollowUps, InQuery, TypeOK
<1>1. /\ \A m \in Messages : ack'[m] = IF m \in new THEN "completed" ELSE ack[m]
      /\ \A m \in Messages : handed'[m] = handed[m] + IF m \in new THEN 1 ELSE 0
      /\ \A m \in Messages : handed[m] \in Nat /\ row[m].tries \in Nat
      /\ faults \in Nat
  BY <1>0, PutValue, Types DEF PushFollowUps, Hand
<1>2. \A m \in new : m \in Messages /\ ack[m] = "none" /\ row[m].status = "pending"
  BY PendingMessages
<1>3. TypeOK'
  <2>1. /\ ack' \in [Messages -> {"none", "processing", "completed"}]
        /\ claimOld' \in [Messages -> BOOLEAN] /\ beatSince' \in [Messages -> BOOLEAN]
    BY <1>0 DEF PushFollowUps, Put, TypeOK
  <2>2. handed' \in [Messages -> Nat] /\ open' \subseteq Messages
    BY <1>0, <1>1, <1>2 DEF PushFollowUps, Hand, TypeOK
  <2>3. UNCHANGED <<heartbeat, hung, sweep>>
    BY DEF PushFollowUps
  <2> QED  BY <1>0, <2>1, <2>2, <2>3 DEF TypeOK, setup
<1> HIDE DEF new
<1>4. Claims' = Claims
  BY <1>1, <1>2 DEF Claims
<1>5. ClaimsAreHeld' /\ BatchIsHeld'
  BY <1>0, <1>1, <1>4 DEF IInv, ClaimsAreHeld, BatchIsHeld
<1>6. OpenIsHeld'
  BY <1>0, <1>1, <1>2 DEF IInv, OpenIsHeld, TypeOK
<1>7. CompletedWasTaken'
  BY <1>0, <1>1 DEF IInv, CompletedWasTaken
<1>8. AcksAreEarned'
  BY <1>0, <1>1, <1>2 DEF IInv, AcksAreEarned, TypeOK
<1>9. LiveClaims'
  BY <1>0, <1>4 DEF IInv, LiveClaims, setup
<1>10. HandoversAccounted'
  <2> SUFFICES ASSUME ~singleProcess, NEW m \in Messages
               PROVE  handed'[m] <= 1 + row[m].tries + faults
    BY <1>0 DEF HandoversAccounted, setup
  <2>1. CASE m \in new
    <3>1. Paid(m)
      BY <1>2, <2>1 DEF IInv, TakenIsPaid, MayBeTaken, Gone
    <3> QED  BY <1>1, <2>1, <3>1 DEF Paid
  <2>2. CASE m \notin new
    BY <1>1, <2>2 DEF IInv, HandoversAccounted
  <2> QED  BY <2>1, <2>2
<1>11. TakenIsPaid'
  <2>1. \A m \in Messages : MayBeTaken(m)' => MayBeTaken(m) /\ handed'[m] = handed[m]
    BY <1>0, <1>1 DEF MayBeTaken
  <2> QED  BY <1>0, <2>1 DEF IInv, TakenIsPaid, Paid, Gone, setup
<1> QED  BY <1>3, <1>5, <1>6, <1>7, <1>8, <1>9, <1>10, <1>11 DEF IInv

-----------------------------------------------------------------------------
(* The theorems *)

(* The strengthened invariant: claims, batch, open query and                *)
(* acknowledgements agree, and a message that may be taken up again has its *)
(* hand-overs paid for.                                                     *)
THEOREM Inductive == Spec => []IInv
<1>1. Init => IInv
  <2> SUFFICES ASSUME Init PROVE IInv
    OBVIOUS
  <2>1. TypeOK
    <3>1. PICK s \in Setups : singleProcess = s.singleProcess /\ limit = s.limit
      BY DEF Init
    <3>2. [singleProcess |-> singleProcess, limit |-> limit] \in Setups
      BY <3>1, SetupsAssumption
    <3>3. /\ row \in [Messages -> [status : {"absent", "pending", "completed", "failed"},
                                  kind : AllKinds, tries : 0..MaxTries, deferred : BOOLEAN]]
          /\ ack \in [Messages -> {"none", "processing", "completed"}]
          /\ claimOld \in [Messages -> BOOLEAN] /\ beatSince \in [Messages -> BOOLEAN]
          /\ handed \in [Messages -> Nat] /\ faults \in 0..MaxFaults
      BY BoundsAssumption DEF Init, AllKinds
    <3>4. /\ heartbeat \in {"absent", "recent", "old"} /\ runner \in RunnerStates
          /\ doomed \in BOOLEAN /\ hung \in BOOLEAN /\ sweep \in {"idle", "waking"}
          /\ batch \subseteq Messages /\ open \subseteq Messages /\ answered \subseteq Messages
      BY DEF Init, RunnerStates
    <3> QED  BY <3>2, <3>3, <3>4 DEF TypeOK
  <2>2. Claims = {}
    BY DEF Init, Claims
  <2>3. \A m \in Messages : /\ row[m].status = "absent" /\ row[m].tries = 0 /\ ack[m] = "none"
                           /\ handed[m] = 0
    BY DEF Init
  <2> QED
    BY <2>1, <2>2, <2>3, BoundsAssumption
    DEF Init, IInv, ClaimsAreHeld, CompletedWasTaken, HandoversAccounted, BatchIsHeld,
        OpenIsHeld, AcksAreEarned, LiveClaims, TakenIsPaid, Paid
<1>2. IInv /\ [Next]_vars => IInv'
  <2> SUFFICES ASSUME IInv, [Next]_vars PROVE IInv'
    OBVIOUS
  <2>1. CASE Arrive
    BY <2>1, InsertStep DEF Arrive
  <2>2. CASE SweepTick \/ SweepWakes \/ SpawnFails \/ Spawned
    BY <2>2, HostSteps
  <2>3. CASE KilledCloses \/ Crash
    BY <2>3, CloseStep
  <2>4. CASE Boot
    BY <2>4, BootStep
  <2>5. CASE PollOnce
    BY <2>5, PollOnceStep
  <2>6. CASE Prepare
    BY <2>6, StartQueryStep DEF Prepare
  <2>7. CASE TurnEnds \/ CompactBoundary \/ QueryEnds
    BY <2>7, TurnSteps DEF TurnEnds
  <2>8. CASE PushFollowUps
    BY <2>8, PushStep
  <2>9. CASE \/ \E m \in Messages : ProcessAfterElapses(m) \/ ClaimAges(m)
             \/ HeartbeatAges \/ Activity \/ Hang \/ UNCHANGED vars
    BY <2>9, QuietSteps
  <2> QED
    BY <2>1, <2>2, <2>3, <2>4, <2>5, <2>6, <2>7, <2>8, <2>9 DEF Next
<1> QED  BY <1>1, <1>2, PTL DEF Spec

(* Through any order of crashes, kills, retries and syncs no claim outlives *)
(* its runner, no row is completed that nobody was given, and in docker the *)
(* hand-overs of a message are bounded by its tries and the faults.         *)
THEOREM RowsAccounted == Spec => []RowsAreAccounted
<1>1. IInv => RowsAreAccounted
  BY DEF IInv, RowsAreAccounted
<1> QED  BY <1>1, Inductive, PTL

(* No step gives the agent a message whose turn has ended or, in docker,    *)
(* one that is in backoff.                                                  *)
THEOREM HandoversAreDue == Spec => HandedOverWhenDue
<1>1. IInv /\ [Next]_vars =>
        [\A m \in Messages :
            m \in answered \/ (row[m].deferred /\ ~singleProcess) => handed'[m] = handed[m]]_vars
  <2> SUFFICES ASSUME IInv, Next, NEW m \in Messages,
                      m \in answered \/ (row[m].deferred /\ ~singleProcess)
               PROVE  handed'[m] = handed[m]
    OBVIOUS
  <2>1. CASE Prepare
    <3>1. PICK skipped \in SUBSET batch : StartQuery(skipped)
      BY <2>1 DEF Prepare
    <3>2. /\ runner = "preparing" /\ CanAct
          /\ \A n \in batch : n \in Messages /\ ack[n] = "processing"
      BY <3>1 DEF StartQuery, IInv, BatchIsHeld, Claims, TypeOK
    <3>3. CASE m \in batch
      <4>1. m \notin answered
        BY <3>2, <3>3 DEF IInv, AcksAreEarned
      <4>2. row[m].deferred /\ ~singleProcess
        BY <4>1
      <4>3. row[m].deferred = FALSE
        BY <3>2, <3>3, <4>2 DEF IInv, LiveClaims, CanAct, Claims
      <4> QED  BY <4>2, <4>3
    <3>4. CASE m \notin batch
      <4>1. handed' = [n \in Messages |-> handed[n] + IF n \in batch \ skipped THEN 1 ELSE 0]
        BY <3>1 DEF StartQuery, Hand
      <4> QED  BY <3>4, <4>1, Types DEF IInv
    <3> QED  BY <3>3, <3>4
  <2>2. CASE PushFollowUps
    <3>1. handed' = [n \in Messages |-> handed[n] +
                       IF n \in {k \in GetPendingMessages : row[k].kind # "clear"} THEN 1 ELSE 0]
      BY <2>2 DEF PushFollowUps, Hand
    <3>2. m \notin GetPendingMessages
      BY PendingMessages DEF IInv, AcksAreEarned
    <3> QED  BY <3>1, <3>2, Types DEF IInv
  <2>3. CASE UNCHANGED handed
    BY <2>3
  <2>4. Prepare \/ PushFollowUps \/ UNCHANGED handed
    BY DEF Next, Arrive, Insert, SweepTick, SweepWakes, SpawnFails, Spawned, KilledCloses,
           Crash, Close, Boot, PollOnce, Activity, TurnEnds, Result, CompactBoundary,
           CompleteBatch, QueryEnds, Hang, ProcessAfterElapses, ClaimAges, HeartbeatAges,
           history
  <2> QED  BY <2>1, <2>2, <2>3, <2>4
<1> QED  BY <1>1, Inductive, PTL DEF Spec, HandedOverWhenDue
=============================================================================
