----------------------- MODULE SchedulingApprovalsProofs -----------------------
(***************************************************************************)
(* Proofs about the two components whose work is handed from the agent to  *)
(* the host and finished there much later: Scheduling, for any number of   *)
(* occurrences and of crashes, and Approvals, for any questions, actions   *)
(* and credentials and any number of clicks, repeated deliveries and       *)
(* restarts.  They share nothing and the two parts are independent.        *)
(*                                                                         *)
(* Scheduling: a series has one occurrence to run, is kept until somebody  *)
(* ends it, and stays ended once a cancel hit its live row.  The heart is  *)
(* that a row the sweep is about to clone still is what it was when it was *)
(* read, before the awaits: the commands and the sync touch live rows      *)
(* only, and a row to clone is completed.                                  *)
(*                                                                         *)
(* Approvals: every answer, every application of an action and every       *)
(* release of a credential is paid for by a card that was delivered, a     *)
(* click on it, or an overlap with an awaited build.                       *)
(***************************************************************************)
EXTENDS Scheduling, Approvals, FiniteSetTheorems, TLAPS

-----------------------------------------------------------------------------
(* SCHEDULING *)

Present == {r \in Rows : status[r] # "absent"}

(* Rows are numbered as they are inserted.                                  *)
Numbered == \E k \in 0..MaxRows : Present = 1..k

(* What the runner acknowledged is there, and a series begins once.         *)
AcksOfRows == \A r \in Rows : ack[r] # "none" => r \in Present
Begun == wish = "none" => Present = {} /\ ended = "no"

(* A row to clone is completed and has its cron expression.                 *)
TodoIsStill ==
    /\ todo \subseteq CompletedRecurring
    /\ sweep # "cloning" => todo = {}

(* A live row of a series nobody ended recurs.                              *)
LiveRecurs == ended = "no" => \A r \in Live : recurs[r] = TRUE

FewHolders == Cardinality(Holders) <= 1 + faults

IInv == /\ TypeOK /\ Numbered /\ AcksOfRows /\ Begun /\ TodoIsStill /\ LiveRecurs
        /\ FewHolders /\ CancelOfLiveIsFinal /\ SeriesIsKept

-----------------------------------------------------------------------------
(* Rows *)

LEMMA RowsAreFinite ==
    ASSUME NEW S, S \subseteq Rows
    PROVE  IsFiniteSet(S) /\ Cardinality(S) \in Nat
<1>1. IsFiniteSet(Rows)
  BY FS_Interval, RowsAssumption DEF Rows
<1> QED  BY <1>1, FS_Subset, FS_CardinalityType

(* The row that is inserted next is the first that is absent.               *)
LEMMA NextIsAbsent ==
    ASSUME Numbered, NextRow \in Rows
    PROVE  /\ NextRow \notin Present
           /\ \E k \in 0..MaxRows : Present \cup {NextRow} = 1..k
<1>1. PICK k \in 0..MaxRows : Present = 1..k
  BY DEF Numbered
<1>2. k \in Nat /\ 1 \in Int /\ k \in Int
  BY <1>1, RowsAssumption
<1>3. Cardinality(1..k) = IF 1 > k THEN 0 ELSE k - 1 + 1
  BY <1>2, FS_Interval
<1>4. NextRow = k + 1
  <2>1. NextRow = Cardinality(Present) + 1
    BY DEF NextRow, Present
  <2>2. Cardinality(Present) = k
    BY <1>1, <1>2, <1>3
  <2> QED  BY <2>1, <2>2
<1>5. k + 1 \in 0..MaxRows /\ 1..(k + 1) = (1..k) \cup {k + 1}
  BY <1>1, <1>2, <1>4, RowsAssumption DEF Rows
<1> QED  BY <1>1, <1>2, <1>4, <1>5

(* Two rows are not one.                                                    *)
LEMMA OneAtMost ==
    ASSUME NEW S, S \subseteq Rows, Cardinality(S) <= 1, NEW r \in S, NEW s \in S
    PROVE  r = s
<1>1. IsFiniteSet(S) /\ IsFiniteSet(S \ {r})
  BY RowsAreFinite
<1>2. Cardinality(S \ {r}) = Cardinality(S) - 1 /\ Cardinality(S) \in Nat
  BY <1>1, FS_RemoveElement, RowsAreFinite
<1>3. Cardinality(S \ {r}) = 0
  BY <1>1, <1>2, FS_CardinalityType
<1> QED  BY <1>1, <1>3, FS_EmptySet

-----------------------------------------------------------------------------
(* Types and rows *)

LEMMA TypeStep == ASSUME TypeOK, [Next]_vars PROVE TypeOK'
<1>1. ASSUME NEW r \in Rows, RowStep(r) PROVE TypeOK'
  <2>1. ASSUME Insert(r) PROVE status' \in [Rows -> Statuses]
    BY <2>1 DEF Insert, TypeOK, Statuses
  <2>2. CASE SweepClones(r)
    BY <2>1, <2>2 DEF SweepClones, Copied, Cleared, TypeOK, Insert
  <2>3. CASE HostDiesCloning(r)
    BY <2>1, <2>3, RowsAssumption DEF HostDiesCloning, Copied, Fault, TypeOK, Insert
  <2>4. CASE SweepGivesUp(r) \/ CloneFails(r)
    BY <2>4 DEF SweepGivesUp, CloneFails, TypeOK, Statuses
  <2>5. CASE ComesDue(r) \/ Claim(r) \/ Complete(r) \/ RunnerDies(r)
    BY <2>5 DEF ComesDue, Claim, Complete, RunnerDies, TypeOK
  <2> QED  BY <1>1, <2>2, <2>3, <2>4, <2>5 DEF RowStep
<1>2. CASE ScheduleTask
  BY <1>2, RowsAssumption DEF ScheduleTask, TypeOK, Statuses
<1>3. CASE CancelTask
  BY <1>3 DEF CancelTask, Cancelled, TypeOK, Statuses
<1>4. CASE PauseTask \/ ResumeTask
  BY <1>4 DEF PauseTask, ResumeTask, TypeOK, Statuses
<1>5. CASE Postpone \/ MakeOneShot
  BY <1>5 DEF Postpone, MakeOneShot, TypeOK
<1>6. CASE SweepSyncs \/ SweepReads
  BY <1>6 DEF SweepSyncs, Synced, SweepReads, CompletedRecurring, TypeOK, Statuses
<1>7. CASE HostDies
  BY <1>7, RowsAssumption DEF HostDies, Fault, TypeOK
<1>8. CASE UNCHANGED vars
  BY <1>8 DEF vars, TypeOK
<1> QED  BY <1>1, <1>2, <1>3, <1>4, <1>5, <1>6, <1>7, <1>8 DEF Next

(* Every step but the first command and an insert keeps the rows there are. *)
LEMMA PresentStep ==
    ASSUME TypeOK, AcksOfRows, [Next]_vars, ~ScheduleTask,
           \A r \in Rows : ~SweepClones(r) /\ ~HostDiesCloning(r)
    PROVE  Present' = Present
<1>1. ASSUME NEW r \in Rows, RowStep(r) PROVE Present' = Present
  <2>1. CASE SweepGivesUp(r)
    BY <2>1 DEF SweepGivesUp, TypeOK, Present
  <2>2. CASE ~SweepGivesUp(r)
    BY <1>1, <2>2
    DEF RowStep, ComesDue, Claim, Complete, RunnerDies, CloneFails, Present
  <2> QED  BY <2>1, <2>2
<1>2. CASE SweepSyncs
  BY <1>2 DEF SweepSyncs, Synced, Present, AcksOfRows
<1>3. CASE CancelTask \/ PauseTask \/ ResumeTask
  BY <1>3 DEF CancelTask, PauseTask, ResumeTask, Present, Live
<1>4. CASE Postpone \/ MakeOneShot \/ SweepReads \/ HostDies \/ UNCHANGED vars
  BY <1>4 DEF Postpone, MakeOneShot, SweepReads, HostDies, vars, Present
<1> QED  BY <1>1, <1>2, <1>3, <1>4 DEF Next
-----------------------------------------------------------------------------
(* The sweep inserts an occurrence *)

(* What an insert does, whether the host survives it or not.                *)
LEMMA InsertStep ==
    ASSUME IInv, NEW r \in Rows, SweepClones(r) \/ HostDiesCloning(r)
    PROVE  /\ NextRow \notin Present /\ NextRow # r /\ NextRow \in Live' /\ recurs'[NextRow] = TRUE
           /\ r \in CompletedRecurring /\ r \notin Live' /\ r \in Present'
           /\ \A s \in Rows : s # NextRow =>
                 status'[s] = status[s] /\ (s # r => recurs'[s] = recurs[s])
           /\ Present' = Present \cup {NextRow} /\ Numbered'
           /\ UNCHANGED <<ack, wish, ended>> /\ wish # "none"
<1> USE DEF IInv
<1>1. Insert(r)
  BY DEF SweepClones, HostDiesCloning
<1>2. r \in CompletedRecurring /\ r \in Present
  BY <1>1 DEF Insert, TodoIsStill, CompletedRecurring, Present
<1>3. NextRow \in Rows /\ NextRow \notin Present /\ \E k \in 0..MaxRows : Present \cup {NextRow} = 1..k
  BY <1>1, NextIsAbsent DEF Insert
<1>4. status' = [status EXCEPT ![NextRow] = "pending"]
  BY <1>1 DEF Insert
<1>5. NextRow # r
  BY <1>2, <1>3
<1>6. /\ NextRow \in Live'
      /\ \A s \in Rows : s # NextRow => status'[s] = status[s]
  BY <1>3, <1>4 DEF Live, TypeOK
<1>7. /\ recurs'[NextRow] = TRUE
      /\ \A s \in Rows : s # NextRow /\ s # r => recurs'[s] = recurs[s]
  <2>1. CASE recurs' = [recurs EXCEPT ![NextRow] = TRUE]
    BY <1>3, <2>1 DEF TypeOK
  <2>2. CASE recurs' = [[recurs EXCEPT ![NextRow] = TRUE] EXCEPT ![r] = FALSE]
    BY <1>3, <1>5, <2>2 DEF TypeOK
  <2> QED  BY <2>1, <2>2 DEF SweepClones, HostDiesCloning, Cleared, Copied
<1>8. Present' = Present \cup {NextRow}
  BY <1>3, <1>4, <1>6 DEF Present, TypeOK
<1>9. Numbered'
  BY <1>3, <1>8 DEF Numbered
<1>10. r \notin Live' /\ r \in Present'
  BY <1>2, <1>5, <1>6, <1>8 DEF CompletedRecurring, Live
<1>11. UNCHANGED <<ack, wish, ended>> /\ wish # "none"
  BY <1>2 DEF SweepClones, HostDiesCloning, Begun
<1> QED  BY <1>2, <1>3, <1>5, <1>6, <1>7, <1>8, <1>9, <1>10, <1>11

(* A completed clone passes the series on; a crash in the middle leaves it  *)
(* with one row more.                                                       *)
LEMMA InsertHolders ==
    ASSUME IInv, NEW r \in Rows, SweepClones(r) \/ HostDiesCloning(r)
    PROVE  FewHolders' /\ NextRow \in Holders' /\ r \in Holders
<1>1. /\ NextRow \notin Present /\ NextRow # r /\ NextRow \in Live' /\ recurs'[NextRow] = TRUE
      /\ r \in CompletedRecurring /\ r \notin Live' /\ r \in Present'
      /\ \A s \in Rows : s # NextRow =>
            status'[s] = status[s] /\ (s # r => recurs'[s] = recurs[s])
  BY InsertStep
<1>2. NextRow \in Holders' /\ NextRow \notin Holders /\ r \in Holders
  BY <1>1 DEF Holders, Live, Present, CompletedRecurring
<1>3. \A s \in Rows : s # NextRow /\ s # r => (s \in Holders' <=> s \in Holders)
  BY <1>1 DEF Holders, Live
<1>4. IsFiniteSet(Holders) /\ IsFiniteSet(Holders \ {r}) /\ Cardinality(Holders) \in Nat
  BY RowsAreFinite DEF Holders
<1>5. Cardinality(Holders \ {r}) = Cardinality(Holders) - 1
  BY <1>2, <1>4, FS_RemoveElement
<1>6. Cardinality(Holders) <= 1 + faults /\ faults \in Nat
  BY DEF IInv, FewHolders, TypeOK
<1>7. CASE SweepClones(r)
  <2>1. r \notin Holders' /\ faults' = faults
    <3>1. recurs'[r] = FALSE
      BY <1>7 DEF SweepClones, Cleared, Copied, IInv, TypeOK
    <3> QED  BY <1>1, <1>7, <3>1 DEF Holders, SweepClones
  <2>2. Holders' = (Holders \ {r}) \cup {NextRow}
    BY <1>2, <1>3, <2>1 DEF Holders
  <2>3. Cardinality(Holders') = Cardinality(Holders \ {r}) + 1
    BY <1>2, <1>4, <2>2, FS_AddElement
  <2>4. Cardinality(Holders') <= 1 + faults'
    BY <1>4, <1>5, <1>6, <2>1, <2>3
  <2> QED  BY <1>2, <2>4 DEF FewHolders
<1>8. CASE HostDiesCloning(r)
  <2>1. Holders' \subseteq Holders \cup {NextRow} /\ Holders \cup {NextRow} \subseteq Rows
    BY <1>2, <1>3 DEF Holders
  <2>2. Cardinality(Holders \cup {NextRow}) = Cardinality(Holders) + 1
    BY <1>2, <1>4, FS_AddElement
  <2>3. Cardinality(Holders') <= Cardinality(Holders \cup {NextRow}) /\ Cardinality(Holders') \in Nat
    BY <2>1, RowsAreFinite, FS_Subset
  <2>4. faults' = faults + 1
    BY <1>8 DEF HostDiesCloning, Fault
  <2>5. Cardinality(Holders') <= 1 + faults'
    BY <1>4, <1>6, <2>2, <2>3, <2>4
  <2> QED  BY <1>2, <2>5 DEF FewHolders
<1> QED  BY <1>7, <1>8

LEMMA CloneStep ==
    ASSUME IInv, NEW r \in Rows, SweepClones(r) \/ HostDiesCloning(r), TypeOK'
    PROVE  IInv'
<1>1. /\ NextRow \notin Present /\ NextRow # r /\ NextRow \in Live' /\ recurs'[NextRow] = TRUE
      /\ r \in CompletedRecurring /\ r \notin Live' /\ r \in Present'
      /\ \A s \in Rows : s # NextRow =>
            status'[s] = status[s] /\ (s # r => recurs'[s] = recurs[s])
      /\ Present' = Present \cup {NextRow} /\ Numbered'
      /\ UNCHANGED <<ack, wish, ended>> /\ wish # "none"
  BY InsertStep
<1>2. FewHolders' /\ NextRow \in Holders' /\ r \in Holders
  BY InsertHolders
<1>3. AcksOfRows' /\ Begun'
  BY <1>1 DEF IInv, AcksOfRows, Begun
<1>4. TodoIsStill'
  <2>1. todo' \subseteq todo \ {r} /\ (sweep' # "cloning" => todo' = {})
    BY DEF SweepClones, HostDiesCloning, IInv, TypeOK
  <2>2. \A s \in todo : s \in Rows /\ s \in CompletedRecurring /\ s # NextRow
    BY <1>1 DEF IInv, TodoIsStill, CompletedRecurring, Present
  <2> QED  BY <1>1, <2>1, <2>2 DEF TodoIsStill, CompletedRecurring
<1>5. LiveRecurs'
  BY <1>1 DEF IInv, LiveRecurs, Live
<1>6. SeriesIsKept'
  BY <1>2 DEF SeriesIsKept
<1>7. CancelOfLiveIsFinal'
  <2>1. faults' \in Nat /\ faults \in Nat /\ faults' >= faults
    BY RowsAssumption DEF SweepClones, HostDiesCloning, Fault, IInv, TypeOK
  <2> QED  BY <1>1, <1>2, <2>1 DEF IInv, CancelOfLiveIsFinal
<1> QED  BY <1>1, <1>2, <1>3, <1>4, <1>5, <1>6, <1>7 DEF IInv

-----------------------------------------------------------------------------
(* Every other step *)

(* A set of rows that only shrinks.                                         *)
LEMMA FewStay ==
    ASSUME TypeOK, FewHolders, Holders' \subseteq Holders, faults' = faults \/ faults' = faults + 1
    PROVE  FewHolders'
<1>1. Holders \subseteq Rows /\ Holders' \subseteq Rows
  BY DEF Holders
<1>2. /\ Cardinality(Holders') <= Cardinality(Holders)
      /\ Cardinality(Holders) \in Nat /\ Cardinality(Holders') \in Nat
  BY <1>1, RowsAreFinite, FS_Subset
<1> QED  BY <1>2 DEF TypeOK, FewHolders

LEMMA ScheduleStep == ASSUME IInv, ScheduleTask, TypeOK' PROVE IInv'
<1> USE DEF IInv
<1>1. Present = {} /\ ended = "no" /\ 1 \in Rows
  BY RowsAssumption DEF ScheduleTask, Begun, Rows
<1>2. \A r \in Rows : status[r] = "absent"
  BY <1>1 DEF Present
<1>3. /\ \A r \in Rows : status'[r] = IF r = 1 THEN "pending" ELSE "absent"
      /\ recurs'[1] = TRUE
      /\ UNCHANGED <<ack, sweep, todo, ended, faults>> /\ wish' = "active"
  BY <1>1, <1>2 DEF ScheduleTask, TypeOK
<1>4. Present' = {1} /\ Holders' = {1} /\ Live' = {1}
  BY <1>1, <1>3 DEF Present, Holders, Live
<1>5. Numbered'
  <2>1. 1 \in 0..MaxRows /\ 1..1 = {1}
    BY RowsAssumption
  <2> QED  BY <1>4, <2>1 DEF Numbered
<1>6. FewHolders'
  <2>1. Cardinality({1}) = 1
    BY FS_Singleton
  <2> QED  BY <1>3, <1>4, <2>1 DEF FewHolders, TypeOK
<1>7. AcksOfRows' /\ Begun' /\ LiveRecurs' /\ SeriesIsKept' /\ CancelOfLiveIsFinal'
  BY <1>1, <1>3, <1>4
  DEF AcksOfRows, Begun, LiveRecurs, SeriesIsKept, CancelOfLiveIsFinal
<1>8. TodoIsStill'
  <2>1. todo = {}
    BY <1>2 DEF TodoIsStill, CompletedRecurring
  <2> QED  BY <1>3, <2>1 DEF TodoIsStill
<1> QED  BY <1>5, <1>6, <1>7, <1>8
(* A cancel completes the live row and takes its cron expression.           *)
LEMMA CancelStep == ASSUME IInv, CancelTask, TypeOK' PROVE IInv'
<1> USE DEF IInv
<1>1. /\ \A r \in Rows : status'[r] = IF r \in Live THEN "completed" ELSE status[r]
      /\ \A r \in Rows : r \notin Live => recurs'[r] = recurs[r]
      /\ \A r \in Rows : r \in Live => recurs'[r] = FALSE
      /\ UNCHANGED <<ack, sweep, todo, faults>> /\ wish' = "cancelled" /\ wish # "none"
      /\ ended' = IF Live = {} THEN ended ELSE "cancelled"
  BY DEF CancelTask, Cancelled, TypeOK
<1>2. Present' = Present /\ Live' = {}
  BY <1>1 DEF Present, Live
<1>3. Holders' = Holders \ Live
  BY <1>1, <1>2 DEF Holders, Live
<1>4. Numbered' /\ AcksOfRows' /\ Begun' /\ LiveRecurs' /\ SeriesIsKept'
  BY <1>1, <1>2 DEF Numbered, AcksOfRows, Begun, LiveRecurs, SeriesIsKept
<1>5. FewHolders'
  BY <1>1, <1>3, FewStay
<1>6. TodoIsStill'
  BY <1>1 DEF TodoIsStill, CompletedRecurring, Live
<1>7. CancelOfLiveIsFinal'
  <2> SUFFICES ASSUME ended' = "cancelled", faults = 0 PROVE Holders' = {}
    BY <1>1 DEF CancelOfLiveIsFinal
  <2>1. CASE Live = {}
    BY <1>1, <1>3, <2>1 DEF CancelOfLiveIsFinal
  <2>2. ASSUME NEW r \in Live PROVE Holders' = {}
    <3>1. Cardinality(Holders) <= 1 /\ r \in Holders /\ Holders \subseteq Rows
      BY <2>2 DEF FewHolders, Holders, Live
    <3>2. \A s \in Holders : s = r
      BY <3>1, OneAtMost
    <3> QED  BY <1>3, <2>2, <3>2
  <2> QED  BY <2>1, <2>2
<1> QED  BY <1>4, <1>5, <1>6, <1>7

(* What the rest of the steps does to the rows: a live row stays live or    *)
(* completes, a completed one stays as it is, and no row begins to recur.   *)
Calm ==
    /\ \A r \in Rows :
          /\ r \in Live => r \in Live' \/ status'[r] = "completed" \/ ended' = "lapsed"
          /\ r \in Live' => r \in Live
          /\ status[r] = "completed" => status'[r] = "completed" /\ recurs'[r] = recurs[r]
          /\ recurs'[r] = TRUE => recurs[r] = TRUE
          /\ recurs'[r] = recurs[r] \/ ended' = "lapsed"
          /\ ack'[r] # "none" => ack[r] # "none" \/ r \in Live
    /\ todo' \subseteq todo \/ todo' = CompletedRecurring
    /\ sweep' # "cloning" => todo' = {}
    /\ faults' = faults \/ faults' = faults + 1
    /\ wish' = wish \/ (wish' \in {"active", "paused"} /\ wish \in {"active", "paused"})
    /\ ended' = ended \/ (ended' = "lapsed" /\ Live # {})

LEMMA CalmStep ==
    ASSUME TypeOK, AcksOfRows, TodoIsStill, [Next]_vars, ~ScheduleTask, ~CancelTask,
           \A r \in Rows : ~SweepClones(r) /\ ~HostDiesCloning(r)
    PROVE  Calm
<1>1. CASE SweepSyncs
  BY <1>1 DEF SweepSyncs, Synced, Calm, Live, TypeOK, TodoIsStill
<1>2. CASE PauseTask \/ ResumeTask
  BY <1>2 DEF PauseTask, ResumeTask, Calm, Live, TypeOK, TodoIsStill
<1>3. CASE Postpone \/ MakeOneShot
  <2>1. \A r \in Rows : status[r] = "completed" => r \notin Live
    BY DEF Live
  <2>2. Live' = Live /\ UNCHANGED <<status, ack, sweep, todo, wish, faults>>
    BY <1>3 DEF Postpone, MakeOneShot, Live
  <2>3. CASE Postpone
    BY <2>2, <2>3 DEF Postpone, Calm, TodoIsStill
  <2>4. CASE MakeOneShot
    <3>1. /\ ended' = "lapsed" /\ Live # {}
          /\ \A r \in Rows : r \notin Live => recurs'[r] = recurs[r]
          /\ \A r \in Rows : r \in Live => recurs'[r] = FALSE
      BY <2>4 DEF MakeOneShot, TypeOK
    <3> QED  BY <2>1, <2>2, <3>1 DEF Calm, TodoIsStill
  <2> QED  BY <1>3, <2>3, <2>4
<1>4. CASE SweepReads \/ HostDies
  BY <1>4 DEF SweepReads, HostDies, Fault, Calm, Live, TypeOK, TodoIsStill, CompletedRecurring
<1>5. ASSUME NEW r \in Rows, RowStep(r) PROVE Calm
  <2>1. CASE ComesDue(r) \/ Claim(r) \/ Complete(r) \/ RunnerDies(r)
    BY <2>1 DEF ComesDue, Claim, Complete, RunnerDies, Calm, Live, TypeOK, TodoIsStill
  <2>2. CASE SweepGivesUp(r)
    BY <2>2 DEF SweepGivesUp, Calm, Live, TypeOK, TodoIsStill
  <2>3. CASE CloneFails(r)
    BY <2>3 DEF CloneFails, Calm, Live, TypeOK, TodoIsStill
  <2> QED  BY <1>5, <2>1, <2>2, <2>3 DEF RowStep
<1>6. CASE UNCHANGED vars
  BY <1>6 DEF vars, Calm, Live, TodoIsStill
<1> QED  BY <1>1, <1>2, <1>3, <1>4, <1>5, <1>6 DEF Next

LEMMA QuietStep ==
    ASSUME IInv, [Next]_vars, ~ScheduleTask, ~CancelTask,
           \A r \in Rows : ~SweepClones(r) /\ ~HostDiesCloning(r), TypeOK'
    PROVE  IInv'
<1>1. IInv /\ Present' = Present /\ Calm
  BY PresentStep, CalmStep DEF IInv
<1> USE DEF IInv
<1>2. Numbered' /\ AcksOfRows'
  BY <1>1 DEF Numbered, AcksOfRows, Calm, Present, Live
<1>3. Begun'
  <2>1. Live \subseteq Present
    BY DEF Live, Present
  <2> QED  BY <1>1, <2>1 DEF Begun, Calm
<1>4. TodoIsStill'
  BY <1>1 DEF TodoIsStill, Calm, CompletedRecurring
<1>5. LiveRecurs'
  BY <1>1 DEF LiveRecurs, Calm, Live
<1>6. Holders' \subseteq Holders
  BY <1>1 DEF Holders, Calm, Present
<1>7. FewHolders'
  BY <1>1, <1>6, FewStay DEF Calm
<1>8. CancelOfLiveIsFinal'
  BY <1>1, <1>6 DEF CancelOfLiveIsFinal, Calm, TypeOK
<1>9. SeriesIsKept'
  <2> SUFFICES ASSUME wish' \in {"active", "paused"}, ended' = "no" PROVE Holders' # {}
    BY DEF SeriesIsKept
  <2>1. wish \in {"active", "paused"} /\ ended = "no"
    BY <1>1 DEF Calm
  <2>2. PICK r \in Rows : r \in Holders
    BY <2>1 DEF SeriesIsKept, Holders
  <2>3. r \in Live => recurs[r] = TRUE
    BY <2>1 DEF LiveRecurs
  <2>4. recurs[r] = TRUE /\ recurs'[r] = recurs[r] /\ r \in Present'
    BY <1>1, <2>2, <2>3 DEF Calm, Holders, Present, Live, TypeOK
  <2>5. r \in Holders'
    BY <2>4 DEF Holders, Present
  <2> QED  BY <2>5
<1> QED  BY <1>2, <1>3, <1>4, <1>5, <1>7, <1>8, <1>9

-----------------------------------------------------------------------------
(* The theorems *)

(* Rows are numbered, a row to clone is what it was when it was read, and   *)
(* the three properties hold together: each needs the others.               *)
THEOREM Inductive == Spec => []IInv
<1>1. Init => IInv
  <2> SUFFICES ASSUME Init PROVE IInv
    OBVIOUS
  <2>1. TypeOK
    BY RowsAssumption DEF Init, TypeOK, Statuses
  <2>2. Present = {} /\ Holders = {} /\ Live = {}
    BY DEF Init, Present, Holders, Live
  <2>3. Numbered
    <3>1. 0 \in 0..MaxRows /\ 1..0 = {}
      BY RowsAssumption
    <3> QED  BY <2>2, <3>1 DEF Numbered
  <2>4. FewHolders
    BY <2>2, FS_EmptySet DEF Init, FewHolders
  <2>5. AcksOfRows /\ Begun /\ TodoIsStill /\ LiveRecurs /\ CancelOfLiveIsFinal /\ SeriesIsKept
    BY <2>2
    DEF Init, AcksOfRows, Begun, TodoIsStill, LiveRecurs, CancelOfLiveIsFinal, SeriesIsKept
  <2> QED  BY <2>1, <2>3, <2>4, <2>5 DEF IInv
<1>2. IInv /\ [Next]_vars => IInv'
  <2> SUFFICES ASSUME IInv, [Next]_vars PROVE IInv'
    OBVIOUS
  <2>1. TypeOK'
    BY TypeStep DEF IInv
  <2>2. ASSUME NEW r \in Rows, SweepClones(r) \/ HostDiesCloning(r) PROVE IInv'
    BY <2>1, <2>2, CloneStep
  <2> QED  BY <2>1, <2>2, QuietStep, ScheduleStep, CancelStep
<1> QED  BY <1>1, <1>2, PTL DEF Spec

(* However the agent's commands fall into the sweep's awaits, the series    *)
(* has one occurrence to run, and one more for a crash between              *)
(* insertRecurrence and clearRecurrence at most (handleRecurrence).         *)
THEOREM SeriesRunsOnce == Spec => []OneOccurrence
<1>1. IInv => OneOccurrence
  BY DEF IInv, FewHolders, OneOccurrence
<1> QED  BY <1>1, Inductive, PTL

(* A cancel that hit the live row is final: no clone is on its way then     *)
(* (cancelTask clears the cron expression the recurrence step reads).       *)
THEOREM CancelIsFinal == Spec => []CancelOfLiveIsFinal
<1>1. IInv => CancelOfLiveIsFinal
  BY DEF IInv
<1> QED  BY <1>1, Inductive, PTL

(* A series nobody ended is not lost, wherever the host dies: the successor *)
(* is inserted before the predecessor lets go.                              *)
THEOREM SeriesGoesOn == Spec => []SeriesIsKept
<1>1. IInv => SeriesIsKept
  BY DEF IInv
<1> QED  BY <1>1, Inductive, PTL

-----------------------------------------------------------------------------
(* APPROVALS *)

(* A question that is remembered has a card delivered that is not answered. *)
CardsCoverAnswers ==
    \A q \in Questions :
        /\ answers[q] <= shown[q]
        /\ q \in question => answers[q] < shown[q]

(* Before its row there is nothing to click; while the row is there and no  *)
(* handler runs, every click so far is paid for by an overlap.              *)
ClicksArePaid ==
    \A a \in Actions :
        /\ applied[a] + refusals[a] <= 1 + overlap[a]
        /\ approval[a] \in {"idle", "looking"} =>
              applied[a] = 0 /\ refusals[a] = 0 /\ running[a] = 0
        /\ approval[a] = "row" /\ running[a] = 0 => applied[a] + refusals[a] <= overlap[a]

(* The gateway is undecided until a click or the timer, and a row lives     *)
(* from the card's delivery to the end of the request, or to the restart.   *)
CardsAreOpen ==
    \A c \in Credentials :
        /\ decision[c] = "approve" => c \in consent
        /\ credential[c] \in {"idle", "looking", "showing", "held"} => decision[c] = NoDecision
        /\ c \in row => credential[c] \in {"held", "expiring", "left"}

ApprovalsInv == ApprovalsTypeOK /\ CardsCoverAnswers /\ ClicksArePaid /\ CardsAreOpen

-----------------------------------------------------------------------------
(* Questions *)

LEMMA QuestionStep ==
    ASSUME ApprovalsInv, NEW q \in Questions,
           \/ Ask(q) \/ Deliver(q) \/ ClickAnswer(q) \/ ReadAnswer(q) \/ TimesOut(q)
    PROVE  ApprovalsInv'
<1> USE DEF ApprovalsInv
<1>1. UNCHANGED <<approvals, credentials, restarts>>
  BY DEF Ask, Deliver, ClickAnswer, ReadAnswer, TimesOut
<1>2. ClicksArePaid' /\ CardsAreOpen'
  BY <1>1 DEF ClicksArePaid, CardsAreOpen, approvals, credentials
<1>3. ASSUME Ask(q) PROVE ApprovalsTypeOK' /\ CardsCoverAnswers'
  BY <1>3 DEF ApprovalsTypeOK, CardsCoverAnswers, Ask, approvals, credentials
<1>4. ASSUME Deliver(q) PROVE ApprovalsTypeOK' /\ CardsCoverAnswers'
  <2>1. ApprovalsTypeOK'
    BY <1>4, BoundsAssumption DEF ApprovalsTypeOK, Deliver, approvals, credentials
  <2>2. CardsCoverAnswers'
    BY <1>4 DEF ApprovalsTypeOK, CardsCoverAnswers, Deliver
  <2> QED  BY <2>1, <2>2
<1>5. ASSUME ClickAnswer(q) PROVE ApprovalsTypeOK' /\ CardsCoverAnswers'
  <2>1. ApprovalsTypeOK'
    BY <1>5, BoundsAssumption
    DEF ApprovalsTypeOK, ClickAnswer, Answered, IdleClick, approvals, credentials
  <2>2. CardsCoverAnswers'
    BY <1>5 DEF ApprovalsTypeOK, CardsCoverAnswers, ClickAnswer, Answered
  <2> QED  BY <2>1, <2>2
<1>6. ASSUME ReadAnswer(q) PROVE ApprovalsTypeOK' /\ CardsCoverAnswers'
  BY <1>6 DEF ApprovalsTypeOK, CardsCoverAnswers, ReadAnswer, approvals, credentials
<1>7. ASSUME TimesOut(q) PROVE ApprovalsTypeOK' /\ CardsCoverAnswers'
  BY <1>7 DEF ApprovalsTypeOK, CardsCoverAnswers, TimesOut, approvals, credentials
<1> QED  BY <1>2, <1>3, <1>4, <1>5, <1>6, <1>7

-----------------------------------------------------------------------------
(* Approvals *)

LEMMA ApprovalStep ==
    ASSUME ApprovalsInv, NEW a \in Actions,
           \/ Request(a) \/ LookedUp(a) \/ ClickApprove(a) \/ ClickReject(a)
           \/ HandlerEnds(a) \/ ClickOrphan(a)
    PROVE  ApprovalsInv'
<1> USE DEF ApprovalsInv
<1>1. UNCHANGED <<questions, credentials, restarts, session>>
  BY DEF Request, LookedUp, ClickApprove, ClickReject, HandlerEnds, ClickOrphan
<1>2. CardsCoverAnswers' /\ CardsAreOpen'
  BY <1>1 DEF CardsCoverAnswers, CardsAreOpen, questions, credentials
<1>3. clicks' \in 0..MaxClicks
  BY BoundsAssumption
  DEF ApprovalsTypeOK, Request, LookedUp, ClickApprove, ClickReject, HandlerEnds, ClickOrphan,
      Overlaps, IdleClick
<1>4. Settled(a) = [approval EXCEPT ![a] = "gone"]
  BY DEF Settled
<1>5. ASSUME Request(a) PROVE ApprovalsTypeOK' /\ ClicksArePaid'
  BY <1>1, <1>3, <1>5 DEF ApprovalsTypeOK, ClicksArePaid, Request, questions, credentials
<1>6. ASSUME LookedUp(a) PROVE ApprovalsTypeOK' /\ ClicksArePaid'
  <2>1. ApprovalsTypeOK'
    BY <1>1, <1>3, <1>6 DEF ApprovalsTypeOK, LookedUp, questions, credentials
  <2>2. ClicksArePaid'
    BY <1>6 DEF ApprovalsTypeOK, ClicksArePaid, LookedUp
  <2> QED  BY <2>1, <2>2
<1>7. ASSUME ClickApprove(a) PROVE ApprovalsTypeOK' /\ ClicksArePaid'
  <2>1. ApprovalsTypeOK'
    BY <1>1, <1>3, <1>4, <1>7 DEF ApprovalsTypeOK, ClickApprove, Overlaps, questions, credentials
  <2>2. ASSUME NEW b \in Actions, b # a
        PROVE  UNCHANGED <<applied[b], refusals[b], overlap[b], running[b], approval[b]>>
    BY <1>4, <1>7, <2>2 DEF ApprovalsTypeOK, ClickApprove, Overlaps
  <2>3. /\ applied'[a] = applied[a] + 1 /\ refusals'[a] = refusals[a]
        /\ overlap'[a] = IF running[a] > 0 THEN overlap[a] + 1 ELSE overlap[a]
    BY <1>7 DEF ApprovalsTypeOK, ClickApprove, Overlaps
  <2>4. \/ approval'[a] = "gone"
        \/ approval'[a] = "row" /\ running'[a] = running[a] + 1
    BY <1>4, <1>7 DEF ApprovalsTypeOK, ClickApprove
  <2>5. applied[a] + refusals[a] <= 1 + overlap[a]
          /\ (running[a] = 0 => applied[a] + refusals[a] <= overlap[a])
    BY <1>7 DEF ClicksArePaid, ClickApprove
  <2>6. /\ applied[a] \in Nat /\ refusals[a] \in Nat /\ overlap[a] \in Nat
        /\ running[a] \in Nat
    BY DEF ApprovalsTypeOK
  <2>7. applied'[a] + refusals'[a] <= 1 + overlap'[a]
    BY <2>3, <2>5, <2>6
  <2>8. approval'[a] \notin {"idle", "looking"} /\ ~(approval'[a] = "row" /\ running'[a] = 0)
    BY <2>4, <2>6
  <2>9. ClicksArePaid'
    BY <2>2, <2>7, <2>8 DEF ClicksArePaid
  <2> QED  BY <2>1, <2>9
<1>8. ASSUME ClickReject(a) PROVE ApprovalsTypeOK' /\ ClicksArePaid'
  <2>1. ApprovalsTypeOK'
    BY <1>1, <1>3, <1>4, <1>8 DEF ApprovalsTypeOK, ClickReject, Overlaps, questions, credentials
  <2>2. ClicksArePaid'
    BY <1>4, <1>8 DEF ApprovalsTypeOK, ClicksArePaid, ClickReject, Overlaps
  <2> QED  BY <2>1, <2>2
<1>9. ASSUME HandlerEnds(a) \/ ClickOrphan(a) PROVE ApprovalsTypeOK' /\ ClicksArePaid'
  <2>1. ApprovalsTypeOK'
    BY <1>1, <1>3, <1>4, <1>9 DEF ApprovalsTypeOK, HandlerEnds, ClickOrphan, questions, credentials
  <2>2. ClicksArePaid'
    BY <1>4, <1>9 DEF ApprovalsTypeOK, ClicksArePaid, HandlerEnds, ClickOrphan
  <2> QED  BY <2>1, <2>2
<1> QED  BY <1>2, <1>5, <1>6, <1>7, <1>8, <1>9

-----------------------------------------------------------------------------
(* Credentials *)

LEMMA CredentialSteps ==
    ASSUME ApprovalsInv, NEW c \in Credentials,
           \/ AskCredential(c) \/ Found(c) \/ Carded(c) \/ Expires(c) \/ Expired(c) \/ Sweep(c)
           \/ \E d \in {"approve", "deny"} : ClickCredential(c, d)
           \/ ClickStale(c)
    PROVE  ApprovalsInv'
<1> USE DEF ApprovalsInv
<1>1. UNCHANGED <<questions, approvals, restarts>>
  BY DEF AskCredential, Found, Carded, Expires, Expired, Sweep, ClickCredential, ClickStale
<1>2. CardsCoverAnswers' /\ ClicksArePaid'
  BY <1>1 DEF CardsCoverAnswers, ClicksArePaid, questions, approvals
<1>3. ASSUME AskCredential(c) \/ Found(c) PROVE ApprovalsTypeOK' /\ CardsAreOpen'
  <2>1. ApprovalsTypeOK'
    BY <1>1, <1>3
    DEF ApprovalsTypeOK, AskCredential, Found, CredentialStep, Tell, questions, approvals
  <2>2. CardsAreOpen'
    BY <1>3 DEF ApprovalsTypeOK, CardsAreOpen, AskCredential, Found, CredentialStep, Tell
  <2> QED  BY <2>1, <2>2
<1>4. ASSUME Carded(c) PROVE ApprovalsTypeOK' /\ CardsAreOpen'
  <2>1. ApprovalsTypeOK'
    BY <1>1, <1>4 DEF ApprovalsTypeOK, Carded, CredentialStep, Tell, questions, approvals
  <2>2. CardsAreOpen'
    BY <1>4 DEF ApprovalsTypeOK, CardsAreOpen, Carded, CredentialStep, Tell
  <2> QED  BY <2>1, <2>2
<1>5. ASSUME Expires(c) \/ Expired(c) PROVE ApprovalsTypeOK' /\ CardsAreOpen'
  <2>1. ApprovalsTypeOK'
    BY <1>1, <1>5
    DEF ApprovalsTypeOK, Expires, Expired, CredentialStep, Tell, OnTimeout, questions, approvals
  <2>2. CardsAreOpen'
    BY <1>5 DEF ApprovalsTypeOK, CardsAreOpen, Expires, Expired, CredentialStep, Tell, OnTimeout
  <2> QED  BY <2>1, <2>2
<1>6. ASSUME NEW d \in {"approve", "deny"}, ClickCredential(c, d)
      PROVE  ApprovalsTypeOK' /\ CardsAreOpen'
  <2>1. ApprovalsTypeOK'
    BY <1>1, <1>6
    DEF ApprovalsTypeOK, ClickCredential, CredentialStep, Tell, Resolved, questions, approvals
  <2>2. CardsAreOpen'
    BY <1>6 DEF ApprovalsTypeOK, CardsAreOpen, ClickCredential, CredentialStep, Tell, Resolved
  <2> QED  BY <2>1, <2>2
<1>7. ASSUME Sweep(c) \/ ClickStale(c) PROVE ApprovalsTypeOK' /\ CardsAreOpen'
  <2>1. ApprovalsTypeOK'
    BY <1>1, <1>7, BoundsAssumption
    DEF ApprovalsTypeOK, Sweep, Swept, Resolved, ClickStale, IdleClick, questions, approvals
  <2>2. CardsAreOpen'
    BY <1>7 DEF ApprovalsTypeOK, CardsAreOpen, Sweep, Swept, Resolved, ClickStale
  <2> QED  BY <2>1, <2>2
<1> QED  BY <1>2, <1>3, <1>4, <1>5, <1>6, <1>7

-----------------------------------------------------------------------------

LEMMA RestartStep == ASSUME ApprovalsInv, HostRestarts PROVE ApprovalsInv'
<1> USE DEF ApprovalsInv
<1>1. ApprovalsTypeOK'
  BY BoundsAssumption DEF ApprovalsTypeOK, HostRestarts
<1>2. CardsCoverAnswers'
  BY DEF CardsCoverAnswers, HostRestarts
<1>3. ClicksArePaid'
  <2> SUFFICES ASSUME NEW a \in Actions
               PROVE  /\ applied'[a] + refusals'[a] <= 1 + overlap'[a]
                      /\ approval'[a] \in {"idle", "looking"} =>
                            applied'[a] = 0 /\ refusals'[a] = 0 /\ running'[a] = 0
                      /\ approval'[a] = "row" /\ running'[a] = 0 =>
                            applied'[a] + refusals'[a] <= overlap'[a]
    BY DEF ClicksArePaid
  <2> QED  BY DEF ApprovalsTypeOK, ClicksArePaid, HostRestarts
<1>4. CardsAreOpen'
  BY DEF ApprovalsTypeOK, CardsAreOpen, HostRestarts
<1> QED  BY <1>1, <1>2, <1>3, <1>4

(* Questions, approvals and credentials are well typed, every answer and    *)
(* every application of an action is paid for by a delivered card or an     *)
(* overlap, and no credential is decided before a click or the timer.       *)
THEOREM ApprovalsInductive == ApprovalsSpec => []ApprovalsInv
<1>1. ApprovalsInit => ApprovalsInv
  BY BoundsAssumption, NoDecisionAssumption
  DEF ApprovalsInit, ApprovalsInv, ApprovalsTypeOK, CardsCoverAnswers, ClicksArePaid, CardsAreOpen
<1>2. ApprovalsInv /\ [ApprovalsNext]_approvalsVars => ApprovalsInv'
  <2> SUFFICES ASSUME ApprovalsInv, [ApprovalsNext]_approvalsVars PROVE ApprovalsInv'
    OBVIOUS
  <2>1. CASE Disconnect
    BY <2>1 DEF ApprovalsInv, ApprovalsTypeOK, CardsCoverAnswers, ClicksArePaid, CardsAreOpen,
                Disconnect, questions, credentials
  <2>2. CASE UNCHANGED approvalsVars
    BY <2>2 DEF ApprovalsInv, ApprovalsTypeOK, CardsCoverAnswers, ClicksArePaid, CardsAreOpen,
                approvalsVars, questions, approvals, credentials
  <2> QED
    BY <2>1, <2>2, QuestionStep, ApprovalStep, CredentialSteps, RestartStep DEF ApprovalsNext
<1> QED  BY <1>1, <1>2, PTL DEF ApprovalsSpec

(* A question has at most one answer for every card that was delivered,     *)
(* however often the delivery is repeated and the card clicked              *)
(* (handleInteractiveResponse).                                             *)
THEOREM AnswersAreBounded == ApprovalsSpec => []AnswersMatchCards
<1>1. ApprovalsInv => AnswersMatchCards
  BY DEF ApprovalsInv, CardsCoverAnswers, AnswersMatchCards
<1> QED  BY <1>1, ApprovalsInductive, PTL

(* An approved action is applied once, and never beside a refusal, but for  *)
(* clicks and restarts in the awaited build (handleApprovalsResponse).      *)
THEOREM ActionsAreApplied == ApprovalsSpec => []AppliedOnceUnlessRaced
<1>1. ApprovalsInv => AppliedOnceUnlessRaced
  BY DEF ApprovalsInv, ClicksArePaid, AppliedOnceUnlessRaced
<1> QED  BY <1>1, ApprovalsInductive, PTL

(* No credential is released but by an approving click on the held card of  *)
(* that request, and no card outlives its decision but while it is marked   *)
(* as expired (resolveOneCLIApproval, the expiry timer, the sweep at start).*)
THEOREM NoGrantUnasked == ApprovalsSpec => []GrantsAreConsented
<1>1. ApprovalsInv => GrantsAreConsented
  BY DEF ApprovalsInv, CardsAreOpen, GrantsAreConsented
<1> QED  BY <1>1, ApprovalsInductive, PTL
=============================================================================
