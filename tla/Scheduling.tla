------------------------------ MODULE Scheduling ------------------------------
(***************************************************************************)
(* One recurring task of a session (src/src/modules/scheduling): the row   *)
(* of the current occurrence in messages_in, the agent's commands, which   *)
(* reach the host as system actions and are applied by the delivery polls, *)
(* and the host sweep, which first copies the runner's acknowledgements to *)
(* the rows, then may await a wake, and then inserts the next occurrence   *)
(* of every completed row that still has its cron expression.              *)
(*                                                                         *)
(* Rows are numbered in the order they are inserted; all have the series   *)
(* id of the first.  Cron arithmetic, prompts and scripts are left out.    *)
(***************************************************************************)
EXTENDS Naturals, FiniteSets

CONSTANTS
    MaxRows,        \* bound: occurrences ever inserted
    MaxFaults       \* bound: crashes of the host

ASSUME RowsAssumption == MaxRows \in Nat \ {0} /\ MaxFaults \in Nat

Rows == 1..MaxRows

VARIABLES
    status,     \* status of a row
    recurs,     \* the row has a recurrence
    due,        \* its process_after has passed
    ack,        \* its row in processing_ack
    sweep,      \* "idle", "synced" (in the awaits after the sync), "cloning"
    todo,       \* rows getCompletedRecurring returned, not cloned yet
    wish,       \* history: the agent's last command
    ended,      \* history: how the series ended, if it did: "cancelled" when
                \* a cancel hit a live row, "lapsed" when it was given up or
                \* made one-shot
    faults      \* crashes of the host so far

vars == <<status, recurs, due, ack, sweep, todo, wish, ended, faults>>

Statuses == {"absent", "pending", "paused", "completed", "failed"}

TypeOK ==
    /\ status \in [Rows -> Statuses]
    /\ recurs \in [Rows -> BOOLEAN]
    /\ due \in [Rows -> BOOLEAN]
    /\ ack \in [Rows -> {"none", "processing", "completed"}]
    /\ sweep \in {"idle", "synced", "cloning"}
    /\ todo \subseteq Rows
    /\ wish \in {"none", "active", "paused", "cancelled"}
    /\ ended \in {"no", "cancelled", "lapsed"}
    /\ faults \in 0..MaxFaults

Init ==
    /\ status = [r \in Rows |-> "absent"]
    /\ recurs = [r \in Rows |-> FALSE]
    /\ due = [r \in Rows |-> FALSE]
    /\ ack = [r \in Rows |-> "none"]
    /\ sweep = "idle"
    /\ todo = {}
    /\ wish = "none"
    /\ ended = "no"
    /\ faults = 0

Live == {r \in Rows : status[r] \in {"pending", "paused"}}

-----------------------------------------------------------------------------
(* The agent's commands, as the delivery polls apply them *)

(* insertTask with a recurrence *)
ScheduleTask ==
    /\ wish = "none"
    /\ status' = [status EXCEPT ![1] = "pending"]
    /\ recurs' = [recurs EXCEPT ![1] = TRUE]
    /\ wish' = "active"
    /\ UNCHANGED <<due, ack, sweep, todo, ended, faults>>

(* Slip: the recurrence is left on the cancelled row. *)
CancelledKeepsRecurrence == recurs
Cancelled == [r \in Rows |-> recurs[r] /\ r \notin Live]

CancelTask ==
    /\ wish # "none"
    /\ status' = [r \in Rows |-> IF r \in Live THEN "completed" ELSE status[r]]
    /\ recurs' = Cancelled
    /\ wish' = "cancelled"
    /\ ended' = IF Live = {} THEN ended ELSE "cancelled"
    /\ UNCHANGED <<due, ack, sweep, todo, faults>>

PauseTask ==
    /\ wish # "none"
    /\ status' = [r \in Rows |-> IF status[r] = "pending" THEN "paused" ELSE status[r]]
    /\ wish' = IF wish = "cancelled" THEN wish ELSE "paused"
    /\ UNCHANGED <<recurs, due, ack, sweep, todo, ended, faults>>

ResumeTask ==
    /\ wish # "none"
    /\ status' = [r \in Rows |-> IF status[r] = "paused" THEN "pending" ELSE status[r]]
    /\ wish' = IF wish = "cancelled" THEN wish ELSE "active"
    /\ UNCHANGED <<recurs, due, ack, sweep, todo, ended, faults>>

(* updateTask with a new time, or with an empty recurrence. *)
Postpone ==
    /\ Live # {}
    /\ due' = [r \in Rows |-> due[r] /\ r \notin Live]
    /\ UNCHANGED <<status, recurs, ack, sweep, todo, wish, ended, faults>>

MakeOneShot ==
    /\ Live # {}
    /\ recurs' = [r \in Rows |-> recurs[r] /\ r \notin Live]
    /\ ended' = "lapsed"
    /\ UNCHANGED <<status, due, ack, sweep, todo, wish, faults>>

-----------------------------------------------------------------------------
(* Time and the runner *)

ComesDue(r) ==
    /\ r \in Live
    /\ ~due[r]
    /\ due' = [due EXCEPT ![r] = TRUE]
    /\ UNCHANGED <<status, recurs, ack, sweep, todo, wish, ended, faults>>

Claim(r) ==
    /\ status[r] = "pending" /\ due[r]
    /\ ack[r] = "none"
    /\ ack' = [ack EXCEPT ![r] = "processing"]
    /\ UNCHANGED <<status, recurs, due, sweep, todo, wish, ended, faults>>

(* The turn ends, or the pre-task script skips it. *)
Complete(r) ==
    /\ ack[r] = "processing"
    /\ ack' = [ack EXCEPT ![r] = "completed"]
    /\ UNCHANGED <<status, recurs, due, sweep, todo, wish, ended, faults>>

(* The runner dies; the next one clears its claim. *)
RunnerDies(r) ==
    /\ ack[r] = "processing"
    /\ ack' = [ack EXCEPT ![r] = "none"]
    /\ UNCHANGED <<status, recurs, due, sweep, todo, wish, ended, faults>>

-----------------------------------------------------------------------------
(* The sweep *)

(* syncProcessingAcks, which asks only that a row is not completed yet. *)
Synced == [r \in Rows |-> IF ack[r] = "completed" THEN "completed" ELSE status[r]]

SweepSyncs ==
    /\ sweep = "idle"
    /\ status' = Synced
    /\ sweep' = "synced"
    /\ UNCHANGED <<recurs, due, ack, todo, wish, ended, faults>>

(* The reset path gives a claimed row up after its last try. *)
SweepGivesUp(r) ==
    /\ sweep = "synced"
    /\ ack[r] = "processing" /\ status[r] = "pending"
    /\ status' = [status EXCEPT ![r] = "failed"]
    /\ ended' = "lapsed"
    /\ UNCHANGED <<recurs, due, ack, sweep, todo, wish, faults>>

(* getCompletedRecurring *)
CompletedRecurring == {r \in Rows : status[r] = "completed" /\ recurs[r]}

SweepReads ==
    /\ sweep = "synced"
    /\ todo' = CompletedRecurring
    /\ sweep' = IF CompletedRecurring = {} THEN "idle" ELSE "cloning"
    /\ UNCHANGED <<status, recurs, due, ack, wish, ended, faults>>

NextRow == Cardinality({r \in Rows : status[r] # "absent"}) + 1

(* Slip: the cron expression is not copied. *)
CopiedNoRecurrence(r) == [recurs EXCEPT ![NextRow] = FALSE]
(* insertRecurrence copies the cron expression read before the awaits. *)
Copied(r) == [recurs EXCEPT ![NextRow] = TRUE]

(* Slip: clearRecurrence is missing. *)
NotCleared(f, r) == f
Cleared(f, r) == [f EXCEPT ![r] = FALSE]

Insert(r) ==
    /\ sweep = "cloning"
    /\ r \in todo
    /\ NextRow \in Rows
    /\ status' = [status EXCEPT ![NextRow] = "pending"]

(* handleRecurrence for one row, after its await. *)
SweepClones(r) ==
    /\ Insert(r)
    /\ recurs' = Cleared(Copied(r), r)
    /\ todo' = todo \ {r}
    /\ sweep' = IF todo = {r} THEN "idle" ELSE "cloning"
    /\ UNCHANGED <<due, ack, wish, ended, faults>>

(* The cron expression does not parse, or the insert throws: the row is left *)
(* to the next sweep. *)
CloneFails(r) ==
    /\ sweep = "cloning"
    /\ r \in todo
    /\ todo' = todo \ {r}
    /\ sweep' = IF todo = {r} THEN "idle" ELSE "cloning"
    /\ UNCHANGED <<status, recurs, due, ack, wish, ended, faults>>

Fault == faults < MaxFaults /\ faults' = faults + 1

(* The host dies at an await of the sweep, or between the two statements of *)
(* handleRecurrence. *)
HostDies ==
    /\ Fault
    /\ sweep # "idle"
    /\ sweep' = "idle"
    /\ todo' = {}
    /\ UNCHANGED <<status, recurs, due, ack, wish, ended>>

HostDiesCloning(r) ==
    /\ Fault
    /\ Insert(r)
    /\ recurs' = Copied(r)
    /\ sweep' = "idle"
    /\ todo' = {}
    /\ UNCHANGED <<due, ack, wish, ended>>

RowStep(r) ==
    \/ ComesDue(r) \/ Claim(r) \/ Complete(r) \/ RunnerDies(r)
    \/ SweepGivesUp(r) \/ SweepClones(r) \/ CloneFails(r) \/ HostDiesCloning(r)

Next ==
    \/ ScheduleTask \/ CancelTask \/ PauseTask \/ ResumeTask \/ Postpone \/ MakeOneShot
    \/ SweepSyncs \/ SweepReads \/ HostDies
    \/ \E r \in Rows : RowStep(r)

Spec == Init /\ [][Next]_vars

-----------------------------------------------------------------------------
(* Properties *)

(* Rows that are, or will become, an occurrence still to run. *)
Holders == {r \in Rows : r \in Live \/ (status[r] # "absent" /\ recurs[r])}

(* The series has at most one occurrence to run, and at most one more for   *)
(* each crash of the host: whatever the commands do while the sweep is at   *)
(* its awaits, a row is cloned once and none is cloned that has a live      *)
(* successor.  The state is well typed.                                     *)
OneOccurrence == TypeOK /\ Cardinality(Holders) <= 1 + faults

(* A cancel that hits the live row ends the series: neither the sync nor    *)
(* the recurrence nor a completed turn brings it back, unless a crash had   *)
(* left a second row of it.                                                 *)
CancelOfLiveIsFinal == ended = "cancelled" /\ faults = 0 => Holders = {}

(* A series nobody ended is never lost, even when the host dies in the      *)
(* middle of a sweep: insertRecurrence comes before clearRecurrence.        *)
SeriesIsKept == wish \in {"active", "paused"} /\ ended = "no" => Holders # {}

=============================================================================
