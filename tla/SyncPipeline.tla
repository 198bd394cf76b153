---------------------------- MODULE SyncPipeline ----------------------------
(***************************************************************************)
(* One DataSync or ResourceSync from its trigger to the end of its         *)
(* restore: the sync controller, the AppBackup it drives, the AppRestores  *)
(* it creates, and the operation that triggered it and waits for it.       *)
(***************************************************************************)
EXTENDS AppBackup, Sequences

CONSTANTS
  Scenarios,      \* what a behaviour may meet
  MaxRetries      \* spec.retryPolicy.maxRetries of a sync operation

ASSUME PipelineAssumption ==
  /\ \A s \in Scenarios :
       /\ s.plan = <<"data">> \/ s.plan \in Seq({"legacy", "cluster", "namespace"})
       /\ s.faults \in [FaultKind -> Nat]
       /\ s.operations \subseteq {"sync", "final"}
       /\ s.users \subseteq {"Retry", "Cancel", "Delete"}
       /\ s.triggers \in Nat /\ s.until \in Time
  /\ MaxRetries \in Nat

VARIABLES
  scenario,       \* the scenario of this behaviour
  sync,           \* spec.trigger and status of the sync
  restores,       \* AppRestores, by backup and restore phase
  primary,        \* the source of the sync: status.primaryCluster
  storage,        \* the StorageRepository is Available
  op,             \* the operation that waits for the sync
  triggers        \* cron and manual triggers and user actions that may still come

vars == <<now, ab, history, velero, faults, scenario, sync, restores, primary, storage, op, triggers>>

plan == scenario.plan               \* the restore phases, in order; <<"data">> is a DataSync
users == scenario.users             \* the actions users may put on the AppBackup
Operations == scenario.operations   \* the operations that may wait
exchanges == scenario.faults["flip"]
lostWrites == scenario.faults["lostWrite"]

Phases == {plan[i] : i \in DOMAIN plan}
IsData == plan = <<"data">>
FailureType == {"SyncFailed", "BackupFailed", "BuildRestoreSpecFailed", "RestoreFailed"}

NoRestore == [status |-> "none", at |-> None, target |-> primary]

Init ==
  /\ scenario \in Scenarios
  /\ faults = scenario.faults /\ triggers = scenario.triggers
  /\ now = 1
  /\ ab = NoAppBackup
  /\ history = [n \in Time |-> NoRecord]
  /\ velero = [c \in Cluster |-> [n \in Time |-> NoBackup]]
  /\ primary = CHOOSE c \in Cluster : TRUE
  /\ sync = [state |-> "", manual |-> None, last |-> None, backup |-> None, paused |-> FALSE,
             failedAt |-> [t \in FailureType |-> None]]
  /\ restores = [n \in Time |-> [p \in Phases |-> NoRestore]]
  /\ storage = TRUE
  /\ op = [type |-> "none", state |-> "none", trig |-> None, retries |-> 0, retryAt |-> None]

(***************************************************************************)
(* Triggers.                                                               *)
(***************************************************************************)

\* Cron, unless paused; or a user, who may write spec.trigger.manual any time.
triggerSync ==
  /\ triggers > 0 /\ triggers' = triggers - 1
  /\ ~sync.paused /\ sync.state # "InProgress"
  /\ sync' = [sync EXCEPT !.manual = now]

ManualTrigger ==
  /\ triggers > 0 /\ triggers' = triggers - 1
  /\ sync' = [sync EXCEPT !.manual = now]

PauseOrResume ==
  /\ triggers > 0 /\ triggers' = triggers - 1
  /\ sync' = [sync EXCEPT !.paused = ~@]

TriggerStep ==
  /\ triggerSync \/ ManualTrigger \/ PauseOrResume
  /\ UNCHANGED <<now, ab, history, velero, faults, scenario, restores, primary, storage, op>>

shouldSync ==
  \/ sync.manual # None /\ sync.manual > sync.last
  \/ sync.state = "InProgress"
  \/ ~sync.paused /\ sync.last = None

(***************************************************************************)
(* executeSync.                                                            *)
(***************************************************************************)

\* Mutant: a run that fails does not set LastSyncTime.
failSyncTimeless(type) ==
  sync' = [sync EXCEPT !.state = "Failed", !.failedAt[type] = IF @ = None THEN now ELSE @]

\* The end of a run: LastSyncTime is set whether it failed or not.  A
\* condition that is already True keeps its transition time.
failSync(type) ==
  sync' = [sync EXCEPT !.state = "Failed", !.last = now,
                       !.failedAt[type] = IF @ = None THEN now ELSE @]

finishSync == sync' = [sync EXCEPT !.state = "Ready", !.last = now]

\* Only DataSync takes its failure conditions back.
ClearedConditions == IF IsData THEN [t \in FailureType |-> None] ELSE sync.failedAt

InitializeState ==
  /\ sync.state = ""
  /\ sync' = [sync EXCEPT !.state = "Ready"]
  /\ UNCHANGED <<ab, restores, faults>>

\* The request of this run: none, or one made after the last run ended.
CurrentAction == ab.action.type = "Backup" /\ ab.action.at > sync.last

\* DataSync looks for volumes until it has made its request.
shouldRunNoPVCPreflight ==
  /\ IsData
  /\ \/ sync.state # "InProgress"
     \/ sync.backup = None /\ (ab.exists => ~CurrentAction)

NoPVC ==
  /\ shouldRunNoPVCPreflight
  /\ sync' = [sync EXCEPT !.state = "Ready", !.last = now, !.failedAt = ClearedConditions]
  /\ UNCHANGED <<ab, restores, faults>>

DependencyFails ==
  /\ \/ ~storage /\ NoFault
     \/ Fault("callError")
  /\ failSync("SyncFailed")
  /\ UNCHANGED <<ab, restores>>

\* Mutant: LastBackupName of the previous run is kept.
BeginRunKeepsBackup ==
  /\ storage /\ sync.state # "InProgress"
  /\ sync' = [sync EXCEPT !.state = "InProgress", !.failedAt = ClearedConditions]
  /\ UNCHANGED <<ab, restores, faults>>

BeginRun ==
  /\ storage /\ sync.state # "InProgress"
  /\ sync' = [sync EXCEPT !.state = "InProgress", !.backup = None, !.failedAt = ClearedConditions]
  /\ UNCHANGED <<ab, restores, faults>>

NewAction == [type |-> "Backup", at |-> now, target |-> None]

CreateAppBackup ==
  /\ ~ab.exists
  /\ ab' = [NoAppBackup EXCEPT !.exists = TRUE, !.cluster = primary, !.queued = TRUE,
                               !.action = NewAction]
  /\ UNCHANGED <<sync, restores, faults>>

SpecCurrent == ab.exists /\ ab.cluster = primary

Following == [ab EXCEPT !.cluster = primary, !.queued = @ \/ ab.cluster # primary]

AdoptRequested ==
  /\ SpecCurrent /\ sync.backup = None /\ CurrentAction
  /\ history[ab.action.at] # NoRecord
  /\ sync' = [sync EXCEPT !.backup = ab.action.at]
  /\ UNCHANGED <<ab, restores, faults>>

\* Records of this run when no request can be matched: they started after the
\* last run ended.  Before the first end there are none.
StartedForRun == {n \in Time : sync.last # None /\ history[n].start > sync.last}

AdoptStarted ==
  /\ SpecCurrent /\ sync.backup = None /\ ~CurrentAction
  /\ \E n \in StartedForRun :
       /\ \A m \in StartedForRun : history[m].start <= history[n].start
       /\ sync' = [sync EXCEPT !.backup = n]
  /\ UNCHANGED <<ab, restores, faults>>

AppBackupFailed ==
  /\ SpecCurrent /\ sync.backup = None /\ ab.phase = "Failed"
  /\ IF CurrentAction THEN history[ab.action.at] = NoRecord ELSE StartedForRun = {}
  /\ failSync("SyncFailed")
  /\ UNCHANGED <<ab, restores, faults>>

\* Mutant: a request that waits for its record is made again.
SendActionAgain ==
  /\ SpecCurrent /\ sync.backup = None /\ ab.phase # "Failed"
  /\ ~CurrentAction \/ history[ab.action.at] = NoRecord
  /\ StartedForRun = {}
  /\ ab' = [ab EXCEPT !.action = NewAction, !.queued = TRUE]
  /\ UNCHANGED <<sync, restores, faults>>

SendAction ==
  /\ SpecCurrent /\ sync.backup = None /\ ab.phase # "Failed"
  /\ ~CurrentAction /\ StartedForRun = {}
  /\ ab' = [ab EXCEPT !.action = NewAction, !.queued = TRUE]
  /\ UNCHANGED <<sync, restores, faults>>

\* Mutant: a backup that timed out does not count as failed.
BackupRecordFailedPhase(rec) == rec.phase = "Failed"

BackupRecordFailed(rec) == rec.phase \in {"Failed", "TimeoutFailed"} \/ rec.managed = "Failed"

BackupFails ==
  /\ history[sync.backup].phase # "Completed"
  /\ BackupRecordFailed(history[sync.backup])
  /\ failSync("BackupFailed")
  /\ UNCHANGED <<restores, faults>>

(***************************************************************************)
(* handleRestore: the phases in order, each with an AppRestore named after *)
(* the backup, created if absent and awaited.                              *)
(***************************************************************************)
RestoreOf(i) == restores[sync.backup][plan[i]]

ReachedPhase(i) == \A j \in 1..(i - 1) : RestoreOf(j).status = "Succeeded"

CreateRestore(i) ==
  /\ ReachedPhase(i) /\ RestoreOf(i).status = "none"
  /\ \/ /\ NoFault
        /\ restores' = [restores EXCEPT ![sync.backup][plan[i]] =
                          [status |-> "Running", at |-> now,
                           target |-> CHOOSE c \in Cluster : c # primary]]
        /\ UNCHANGED sync
     \/ /\ Fault("callError")
        /\ \E t \in {"BuildRestoreSpecFailed"} \cup (IF IsData THEN {"SyncFailed"} ELSE {}) : failSync(t)
        /\ UNCHANGED restores

\* DataSync also waits for the restored volumes and for the end of its helper
\* pods, and fails the run when they fail or when a timeout of these waits is
\* over.  A pass that goes on waiting changes nothing, or the spec (UpdateSpec).
RestoreFails(i) ==
  /\ ReachedPhase(i)
  /\ RestoreOf(i).status = "Failed" \/ (IsData /\ RestoreOf(i).status = "Succeeded")
  /\ failSync("RestoreFailed")
  /\ UNCHANGED <<restores, faults>>

RestoreDone ==
  /\ ReachedPhase(Len(plan) + 1)
  /\ finishSync
  /\ UNCHANGED <<restores, faults>>

handleRestore ==
  /\ history[sync.backup].phase = "Completed"
  /\ \/ \E i \in DOMAIN plan : CreateRestore(i) \/ RestoreFails(i)
     \/ RestoreDone

\* The spec follows the roles.  The pass ends there, except for a DataSync
\* that has its backup: it goes on and, unless the backup failed, may wait: for
\* the backup, the restore, its volumes, or helper pods of this or an older run.
BackupWaits ==
  LET rec == history[sync.backup]
  IN rec.phase = "Completed" \/ ~BackupRecordFailed(rec)

UpdateSpec ==
  /\ ab.exists /\ ab.cluster # primary
  /\ IsData /\ sync.backup # None => BackupWaits
  /\ ab' = Following
  /\ UNCHANGED <<sync, restores, faults>>

AwaitBackup ==
  /\ ab.exists /\ sync.backup # None
  /\ IsData \/ SpecCurrent
  /\ BackupFails \/ handleRestore
  /\ ab' = Following

ContinueRun ==
  /\ storage /\ sync.state = "InProgress"
  /\ \/ CreateAppBackup
     \/ UpdateSpec
     \/ AdoptRequested
     \/ AdoptStarted
     \/ AppBackupFailed
     \/ SendAction
     \/ AwaitBackup

ReconcileSync ==
  /\ \/ InitializeState
     \/ /\ sync.state # "" /\ shouldSync
        /\ NoPVC \/ DependencyFails \/ BeginRun \/ ContinueRun
  /\ UNCHANGED <<now, history, velero, scenario, primary, storage, op, triggers>>

(***************************************************************************)
(* The operation that waits: a sync operation (handleSync), or the step    *)
(* FinalSync of a failover (executeFinalSync), which triggers until a run  *)
(* ends after the step began.                                              *)
(***************************************************************************)
SubmitOperation ==
  /\ op.type = "none"
  /\ \E type \in Operations :
       op' = [op EXCEPT !.type = type, !.state = "Running",
                        !.trig = IF type = "final" THEN now ELSE None]
  /\ UNCHANGED <<sync, faults>>

Triggered == IF sync.state = "InProgress" THEN sync ELSE [sync EXCEPT !.manual = now]

\* Mutant: the time of the trigger is not recorded.
TriggerUnrecorded ==
  /\ op.type = "sync" /\ op.trig = None /\ now >= op.retryAt
  /\ sync' = Triggered
  /\ op' = [op EXCEPT !.retryAt = None]
  /\ NoFault

TriggerOnce ==
  /\ op.type = "sync" /\ op.trig = None /\ now >= op.retryAt
  /\ sync' = Triggered
  /\ \/ NoFault /\ op' = [op EXCEPT !.trig = now, !.retryAt = None]
     \/ Fault("lostWrite") /\ UNCHANGED op

hasSyncFailureSince ==
  \/ sync.state = "Failed" /\ sync.last >= op.trig
  \/ /\ ~(IsData /\ op.type = "sync")
     /\ \E t \in FailureType \ (IF IsData THEN {"BuildRestoreSpecFailed"} ELSE {}) :
          sync.failedAt[t] >= op.trig

shouldRetry == op.type = "sync" /\ op.retries < MaxRetries /\ now < scenario.until

\* The mark of the trigger is deleted first, and the retry counted next.
RetryOperation ==
  /\ hasSyncFailureSince /\ shouldRetry
  /\ \/ NoFault /\ op' = [op EXCEPT !.retries = @ + 1, !.trig = None, !.retryAt = now + 1]
     \/ Fault("lostWrite") /\ op' = [op EXCEPT !.trig = None]
  /\ UNCHANGED sync

FailOperation ==
  /\ hasSyncFailureSince /\ ~shouldRetry
  /\ op' = [op EXCEPT !.state = "Failed"]
  /\ UNCHANGED <<sync, faults>>

\* spec.timeoutMinutes of a sync operation, the step's timeout of a final sync.
TimeoutOperation ==
  /\ op.state = "Running" /\ op.trig # None /\ ~hasSyncFailureSince
  /\ op' = [op EXCEPT !.state = "Failed"]
  /\ UNCHANGED <<sync, faults>>

TriggerAgain ==
  /\ op.type = "final" /\ ~hasSyncFailureSince
  /\ sync.last < op.trig /\ sync.state # "InProgress"
  /\ sync' = Triggered
  /\ UNCHANGED <<op, faults>>

CompleteOperation ==
  /\ ~hasSyncFailureSince
  /\ sync.last >= op.trig /\ sync.state = "Ready"
  /\ op' = [op EXCEPT !.state = "Completed"]
  /\ UNCHANGED <<sync, faults>>

WaitForSync ==
  /\ op.state = "Running"
  /\ \/ TriggerOnce
     \/ /\ op.trig # None
        /\ RetryOperation \/ FailOperation \/ TriggerAgain \/ CompleteOperation

OperationStep ==
  /\ SubmitOperation \/ WaitForSync \/ TimeoutOperation
  /\ UNCHANGED <<now, ab, history, velero, scenario, restores, primary, storage, triggers>>

(***************************************************************************)
(* The environment.                                                        *)
(***************************************************************************)
Tick ==
  /\ now < scenario.until /\ now' = now + 1
  /\ UNCHANGED <<ab, history, velero, faults, scenario, sync, restores, primary, storage, op, triggers>>

\* An AppRestore ends.
RestoreEnds ==
  /\ \E n \in Time, p \in Phases :
       /\ restores[n][p].status = "Running"
       /\ \E s \in {"Succeeded", "Failed"} : restores' = [restores EXCEPT ![n][p].status = s]
  /\ UNCHANGED <<now, ab, history, velero, faults, scenario, sync, primary, storage, op, triggers>>

\* A user cancels an AppRestore.  Both controllers take it for one at work.
RestoreCancelled ==
  /\ Fault("cancelRestore")
  /\ \E n \in Time, p \in Phases :
       /\ restores[n][p].status = "Running"
       /\ restores' = [restores EXCEPT ![n][p].status = "Cancelled"]
  /\ UNCHANGED <<now, ab, history, velero, scenario, sync, primary, storage, op, triggers>>

\* A restart lists every object again: an AppBackup comes back to the queue.
Disturbance ==
  /\ \/ Fault("storage") /\ storage /\ storage' = FALSE /\ UNCHANGED <<ab, primary>>
     \/ ~storage /\ storage' = TRUE /\ UNCHANGED <<ab, primary, faults>>
     \/ Fault("flip") /\ primary' \in Cluster \ {primary} /\ UNCHANGED <<ab, storage>>
     \/ Fault("restart") /\ ab.exists /\ ab' = [ab EXCEPT !.queued = TRUE] /\ UNCHANGED <<primary, storage>>
  /\ UNCHANGED <<now, history, velero, scenario, sync, restores, op, triggers>>

UserAction ==
  /\ ab.exists /\ triggers > 0 /\ triggers' = triggers - 1
  /\ \E type \in users, n \in {m \in Time : history[m] # NoRecord} \cup {None} :
       ab' = [ab EXCEPT !.action = [type |-> type, at |-> now, target |-> n], !.queued = TRUE]
  /\ UNCHANGED <<now, history, velero, faults, scenario, sync, restores, primary, storage, op>>

BackupStep ==
  /\ ReconcileAppBackup \/ VeleroStep
  /\ UNCHANGED <<scenario, sync, restores, primary, storage, op, triggers>>

Next ==
  \/ TriggerStep
  \/ ReconcileSync
  \/ BackupStep
  \/ OperationStep
  \/ RestoreEnds
  \/ RestoreCancelled
  \/ Disturbance
  \/ UserAction
  \/ Tick

Spec == Init /\ [][Next]_vars

(***************************************************************************)
(* Fairness: the controllers requeue what is not final, AppBackup, the     *)
(* waits of DataSync around its restore, and ordinary AppRestores have     *)
(* timeouts, and time passes.  Nothing is assumed of the AppRestore of a   *)
(* DataSync: it is a trafficless one, whose final Failed is not stored     *)
(* (ConfirmedMeansFailed of module AppRestore).  Nor is anything of        *)
(* Velero, the users, the schedule, the storage or the timeout of an       *)
(* operation, which is optional.                                           *)
(***************************************************************************)
BackupTimesOut ==
  /\ ab.exists /\ ab.queued /\ ab.phase = "Ready" /\ TimeoutBackups
  /\ UNCHANGED <<now, scenario, sync, restores, primary, storage, op, triggers>>

Fairness ==
  /\ WF_vars(ReconcileSync)
  /\ WF_vars(ReconcileAppBackup /\ UNCHANGED <<scenario, sync, restores, primary, storage, op, triggers>>)
  /\ WF_vars(BackupTimesOut)
  /\ WF_vars(WaitForSync /\ UNCHANGED <<now, ab, history, velero, scenario, restores, primary, storage, triggers>>)
  /\ WF_vars(~IsData /\ RestoreEnds)
  /\ WF_vars(Tick)

FairSpec == Spec /\ Fairness

(***************************************************************************)
(* Properties.                                                             *)
(***************************************************************************)

\* A run that ends in Ready restored something new: its backup completed,
\* started after the previous run had ended, also when users retry, cancel and
\* delete backups meanwhile, and every restore phase succeeded; if no user
\* retried the backup, each was created after it had started.  Not more than
\* one exchange of the roles: a second one brings the AppBackup back to a
\* cluster where a backup of this name may be older; and with a lost write one
\* is enough to make the backup again in the other cluster, after its restore.
SyncAdvances ==
  [][LET b == sync.backup
     IN exchanges <= 1 /\ sync.state = "InProgress" /\ sync'.state = "Ready" /\ b # None
          => /\ history[b].phase = "Completed" /\ history[b].start > sync.last
             /\ \A p \in Phases :
                  /\ restores[b][p].status = "Succeeded"
                  /\ users = {} /\ (exchanges = 0 \/ lostWrites = 0)
                       => restores[b][p].at >= history[b].start]_vars

\* One run makes one Velero backup, whatever writes were lost on the way, as
\* long as no user replaces its request: no two requests of the sync are newer
\* than its last end.
OneBackupPerRun ==
  users = {} =>
  Cardinality({n \in Time : n > sync.last /\ \E c \in Cluster : velero[c][n].phase # "none"}) <= 1

\* A backup that a user cancelled is not restored, unless it was retried.  A
\* retry whose status write is lost leaves the record of a completed backup to
\* one that runs, and so does a return to a cluster.
CancelHolds ==
  [][exchanges <= 1 /\ lostWrites = 0 =>
       \A n \in Time, p \in Phases :
         restores[n][p].status = "none" /\ restores'[n][p].status = "Running"
           => history[n].managed # "Canceled"]_vars

\* An operation that reports its sync as completed got the result of its own
\* trigger: the backup that was restored started no earlier.
SyncIsCurrent ==
  [][op.state = "Running" /\ op'.state = "Completed" /\ sync.backup # None
       => history[sync.backup].start >= op.trig]_vars

\* A run without a timeout of its own waits: for a restore that a user cancelled,
\* or for the trafficless restore of a DataSync, which may never be seen to end.
HeldUp ==
  /\ sync.state = "InProgress" /\ sync.backup # None
  /\ \E i \in DOMAIN plan :
       RestoreOf(i).status = "Cancelled" \/ (IsData /\ RestoreOf(i).status = "Running")

\* Every run ends: executeSync sees the end of its backup and of its restores,
\* by a timeout if Velero never finishes, and gets to Ready or Failed; unless
\* from some time on it is held up by its restore.
SyncEnds ==
  \/ <>[]HeldUp
  \/ (sync.state = "InProgress" ~> sync.state # "InProgress")

\* Every trigger is answered by a run that ends no earlier, unless a run is held
\* up for ever: shouldSync does not lose a trigger that comes during a run or a
\* pause.
TriggerAnswered ==
  \/ <>[]HeldUp
  \/ \A t \in Time : (sync.manual = t ~> sync.last >= t)

\* Every operation that waits for a sync ends, also when handleSync dropped its
\* trigger or the sync failed and is retried, unless a run is held up for ever.
OperationEnds ==
  \/ <>[]HeldUp
  \/ (op.state = "Running" ~> op.state # "Running")
=============================================================================
