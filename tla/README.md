# Verification of the testudo operator

testudo-operator is a Kubernetes operator for disaster recovery: it keeps a copy
of an application in a second cluster (backups of resources and volumes, restored
with zero replicas), switches the application over on demand, and switches back.
This directory holds TLA+ modules of its control logic, TLC configurations, and
TLAPS proofs. Paths below are relative to `src/internal/controller/` unless they
start with `src/`.

## 1. The system

| component | state it keeps | operations | interacts with |
|---|---|---|---|
| DisasterInstance controller (`disasterinstance/`) | `status.fsmState`, primary/secondary cluster, reason, last stable state | state handlers, configuration guard, role-drift guard, watchdogs of FailingOver and FailingBack | reads DisasterConfig, the syncs and the operations; samples replica counts in both clusters |
| DisasterOperation controller (`disasteroperation/`) | per operation: state, steps, automatic compensation, role status | failover, reprotect, cancel, undo, pause, resume, sync, drill, group | writes the instance status, pauses and triggers the syncs, scales workloads in both clusters |
| workload scaling (`disasteroperation/`, `resourcesync/`) | replica counts, the annotation `original-replicas`, the ConfigMap `replicas-*` | record, scale down, scale up, check | both clusters |
| DataSync, ResourceSync (`datasync/`, `resourcesync/`) | sync state, phase, last sync time, pause flag | cron or manual trigger, backup, restore, finalize | SyncScheduler, AppBackup, AppRestore |
| SyncScheduler (`scheduler/`) | in-memory cron jobs by namespace and name | add or update, remove, callback | the passes of the syncs keep it up to date |
| AppBackup, AppRestore (`appbackup/`, `apprestore/`) | phase and action of one backup or restore; retry counts in labels | action handlers over Velero objects in the remote cluster, automatic retries | Velero |
| restore policy (`restore/`) | none | resource modifiers, image rewriting, submission checks | used by AppRestore and the syncs |
| DisasterGroup, group operations (`disastergroup/`, `disasteroperation/`) | level reached, child operations; added-up status of the instances | create children level by level, supersede, delete | child DisasterOperations, DisasterInstances |
| DisasterDrill, drill operations (`disasterdrill/`) | drill state, target, mode, its operation | validate, confirm, restore to a drill namespace, clean up, restart | AppRestore, operations |
| Cluster controller and license gate (`cluster_controller.go`, `cluster_license_gate.go`) | cluster status, acceptance, generation last applied | admit by license, install and upgrade Velero, delete | remote clusters, license library |
| StorageRepository, DisasterConfig | availability, dependencies | validate, bring the storage location to both clusters | Clusters, Velero BackupStorageLocation |
| legacy jobs, policies, backups | phase | schedules | Velero |
| runtime configuration (`runtimeconfig/`) | active snapshot, in memory; status of OperatorRuntimeConfig | merge, validate, activate, reject | every controller |

What is hard in it: all these controllers share API objects and are scheduled
independently; a reconciliation changes remote clusters first, the instance next
and its own status last, so that every one of these writes can be lost after the
earlier ones took effect; operations can be superseded, deleted and retried at any
step; and the two records of the replica counts are written by two controllers
while the counts themselves are being changed.

What makes it correct: the application runs in one cluster only; a switch or a
rollback moves it in full; finished operations are final; intermediate states are
always left; roles name two different clusters and agree with where the
application runs; a configuration error never loses the state to return to; a sync
that ends in Ready restored, in full, a backup newer than the last one; every run of
a sync ends and every trigger is answered by a run. The levels of a group are an order; a
drill runs only when it was confirmed and takes down what it brought up; an ended restore
does not run again unasked; no Cluster gets past the license gate; what is only in memory
follows the API objects, also after a restart. The
full list of hazards, with lines, is in `PROJECT.json`.

## 2. Modules

`ClusterWorkloads` - two clusters, one namespace, a set of workloads. `up[c]` is the
set of workloads with a non-zero count in cluster c, `annot[c]` those that carry the
annotation, `cm` the ConfigMap. A scaling pass that returns an error has scaled any
subset (`Scaled`). A count is abstracted to zero or non-zero because the code only
compares it with 0 and copies it.

`DisasterInstance` - `inst` is the status of one DisasterInstance; one action per
state handler of `disasterinstance/controller.go`. `paused` is `spec.paused` of the
two syncs, `configReady` and `syncFailed` are what `evaluateConfigHealth` and
`evaluateSteadySyncHealth` return.

`DisasterOperation` - `ops[o]` is the spec and status of one DisasterOperation. One
reconciliation is one action: `Start`, `Reject`, `LockRoles`, `InitSteps`, `StartStep`,
`StepDone`, `StepWaits`, `FailFailoverStep`, `FailStep`, the four actions of the
automatic compensation, `Finish`, `FinishRetried`, `CancelProtected`, `handlePause`,
`handleResume`. `step` is the index of the first step that is not Completed, 0 before
`status.steps` is filled; `at` is the progress time the watchdogs compare, as a rank; `late` is
history: when the operation was submitted, one that supersedes its type was in flight.

`FailoverSystem` - composes the three with the replica record of ResourceSync, the
health of the dependencies and the users; states the specification, the fairness and
the properties. `MCFailoverSystem` gives the constants their values for TLC.

`OperationLifecycle` - the abstract specification: what a DisasterOperation promises to
those who wait for it (groups, drills, users). Its one variable is the state of each
operation; an operation is accepted, runs and ends once. `FailoverSystem` implements it with
its operations (`OperationsFollowLifecycle`), `GroupSystem` with the group operations and
with their children (`FollowsLifecycle`); both by `INSTANCE ... WITH` and a mapping of `state`.

`AppBackup` - one AppBackup without a schedule. `ab` is its spec and status, `history`
its backup records, `velero` the Velero backups of each cluster; a backup is named by the
second of its request, as `GenVeleroBackupName` does. One action per phase handler, and in Ready one per action a user
or a sync may request (Backup, Retry, Cancel, Delete) and one for the observation of
Velero. `ab.queued` says whether the object is in the work queue: its own status updates are
filtered, so that it is reconciled again only by a requeue, an error or a change of its
spec. Of the phases of a Velero backup, `Finalizing` stands for all those in which it runs on and yet
can no longer be cancelled by the AppBackup (`WaitingForPluginOperations` and the `Finalizing` ones).

`SyncPipeline` - a DataSync or a ResourceSync over that AppBackup and its AppRestores, and a
DisasterOperation that waits for it. The two controllers have the same shape and are one
module with the restore phases as its parameter `plan`; `<<"data">>` is DataSync, which
also checks for volumes first. `sync` is the status of the sync, `restores` the AppRestores
by name, `op` the operation: `handleSync`, with its retries, or `executeFinalSync`, which
triggers again when the sync is not Ready. Times are whole seconds (`now`), as in the API.
What a DataSync waits for around its restore - PodVolumeRestores, PVCs and helper pods - ends in success or
failure within `RestoreFails` and `RestoreDone`, because each of these waits has a timeout
(`datasync/trafficless_lifecycle.go:265-270`, 409-431, `datasync/controller.go:955-968`); the end of the AppRestore itself has none.
`MCSyncPipeline` names the plans for TLC.

`GroupSystem` - the operations on a DisasterGroup. `gop[g]` is a group operation, `child[g][i]`
the operation `<g>-<i>` it creates for instance i, `group` the spec of the group. One
reconciliation of a group operation is one action: it works on its level, creates or adopts
children, waits, skips or fails by `failPolicy`, and passes on to the next level; failovers
that a cancel supersedes are failed in the same step. `gop[g].skipped`, history, are the instances
that did not exist when g passed their level. What a child does to its instance is the
subject of `FailoverSystem`; here it starts, supersedes, ends and moves `fsm[i]`.

`DrillSystem` - a DisasterDrill (`spec`, `drill`), the drill and cleanup operations it creates
(`op`, numbered in order of creation), their AppRestores (`restore`) and what they leave in the
drill namespaces (`env`). `world` is what the drill depends on: roles, backups, the cluster,
the instance, and pods that are ready and gone when a step waits for it (`world.pods`). One action per state
handler of the drill and per step of an operation. `op[o].due` says that something brings the operation
back: `handleDrill` ignores the error of the status write that fails or completes it and returns without a requeue,
so that an operation whose last write is lost is parked.
`confirms` and `op[o].quiet` are history, and an operation that was deleted keeps its type,
so that the drill operations of its lifetime can be counted.

`AppRestore` - one AppRestore, the Velero Restore it drives (`v`) and the user. The
controller polls, and every wait is a choice of the pass. Status and metadata are two writes
(`Persist`), of which a pass makes one or both: what a handler computes is not what is stored. `wanted` is
history.

`ClusterFleet` - the Clusters and the license gate. A pass is cut where the code reads the
Cluster again: Read, Gate, Work; users edit and delete in between. `cl[c]` is metadata, spec
and status of a Cluster, `target[c]` Velero and its storage location in the target, `seen` what
the informer cache shows of the acceptances, `lag` whether it ever lagged, `top` the highest
limit so far (history).

`OperatorMemory` - what is only in the memory of the process: the active runtime
configuration (`active`) against OperatorRuntimeConfig (`rc`), and the cron jobs (`jobs`)
against the syncs (`sync`). `queued` says that a pass is due; `Restart` forgets the memory and
queues every object.

`Platform` - composes the two with the StorageRepository, the DisasterConfig and the
aggregated status of a DisasterGroup; `group.missed` says that the event of an instance was lost, because the
groups could not be listed. `part` chooses what a behaviour is about, since the
parts that do not share state need no interleaving: `fleet`, `config` (Clusters that are Ready,
with storage), `group`, `memory`.

The `MC` modules give the constants their values for TLC. The theorems are in
`FailoverSystemProofs`, `NoDualActiveProofs` and `FailoverOutcomeProofs`, each of which extends the one
before it, `SyncPipelineProofs`, `GroupSystemProofs`, `DrillSystemProofs`, `AppRestoreProofs` and
`PlatformProofs`.

Abstractions of the failover modules. A handler is one atomic action: its status write carries the resource
version it read, so that a concurrent change makes it start again; the watchdogs
re-read the state in their write. Reads are live, not from the informer cache. The
operation controller has one worker. Pod and PVC readiness, and the outcome of the
two syncs of FinalSync, are nondeterministic; so is every timeout. `Faults` says what
the environment may do:

* `lostWrite` - the last status write of a reconciliation is refused or the operator
  stops before it; the effects of the reconciliation stay;
* `stepError` - a call inside a step fails after part of the work (together with
  `lostWrite`: the operator stops in the middle of a step);
* `timeout` - a step exceeds its timeout;
* `config`, `sync` - DisasterConfig, or a sync, becomes unhealthy and recovers.

The sync modules make the same assumptions. A scenario says how often each of their faults may occur:

* `lostWrite` - the status write that ends a reconciliation is lost, its effects stay;
* `callError` - a call to the remote cluster fails;
* `storage` - the StorageRepository becomes unavailable, and may recover;
* `restart` - the operator restarts: every object is queued again;
* `flip` - the roles of the instance are exchanged;
* `cancelRestore` - a user cancels an AppRestore.

The other modules count what users and the environment do against named bounds:

* `GroupSystem` - `lostWrite`, `callError`, and users who delete a child, a group operation, an
  instance or the group, or edit the levels between operations (`edit`);
* `DrillSystem` - `lostWrite`, `callError`, an exchange of the roles (`switch`), backups and
  the cluster that come and go (`backup`, `cluster`), pods that are not ready or not gone (`pods`), cancelled
  restores, and deletions of the instance, an operation, a restore or the drill;
* `AppRestore` - `lostWrite`, `client` (the kube client of the target cannot be built), `call`,
  `stall` (Velero stops making progress), `restart` (of Velero), `vanish` (the Velero Restore
  is deleted), `noCluster` (the Cluster is gone);
* `Platform` - every failed call, lost status write, lagging cache, Velero that goes down, restart of
  the operator and user edit is a `Change` or an `Upset`.

## 3. Runs

| run | what happens | bounds | checks |
|---|---|---|---|
| failover_safety | a failover of a new instance with a second failover, a cancel, an undo, a reprotect, a pause or a resume; a pause with a resume; skipScaleDownSource allowed; lostWrite, stepError, timeout | 2 operations, 2 workloads | TypeOK, NoDualActive, RolesDistinct, FailoverExclusive, RollbackRestores, SwitchServes, UndoOfSwitchRestores, OperationsFollowLifecycle |
| failover_live | two failovers, two reprotects, or a failover with its cancel, of an instance protected in the reverse direction; operations may be deleted; timeout, sync, config | 2 operations, 1 workload | ConfigErrorRemembers, OperationsEnd, SwitchesEnd |
| v_reversed_rollback | one failover of an instance protected in the reverse direction; timeout | 1 operation, 2 workloads | RollbackRestores, refuted |
| sync_safety | a DataSync that is triggered twice under a lostWrite or a flip; a ResourceSync with two phases and a sync operation under a lostWrite, flip, storage or cancelRestore; and a small ResourceSync whose backups users retry, cancel and delete, under a callError or restart | 3 and 2 seconds, each fault once | OneBackupPerRun, SyncAdvances, CancelHolds |
| sync_live | a DataSync, and a ResourceSync with two phases; sync operation and final sync; cancelRestore | 2 seconds | SyncEnds, TriggerAnswered, OperationEnds |
| v_sync_stale | a small ResourceSync and a sync operation | 2 seconds | SyncIsCurrent, refuted |
| group | a group failover with its cancel, and a group drill, over two levels or one level of two instances, Continue or Stop; all faults | 2 group operations, 2 disturbances | LevelsInOrder, CompletedMeansAll, CancelEndsFailovers, FollowsLifecycle, GroupEnds |
| drill | drills of an instance and a group, with a given or resolved target, and an invalid one; all faults | 4 edits, 4 operations, 2 faults | OneDrillInFlight, EveryRunConfirmed, CompletedMeansRestored, CleanedUpMeansDown, DrillEnds |
| v_drill_cleanup | a drill that is cleaned up, restarted and cleaned up again | 6 edits, no faults | EveryCleanupScalesDown, refuted |
| restore | an ordinary and a trafficless restore; all faults | 2 requests, 2 faults, 1 automatic retry per stall | CancelledMeansStopped, DeletedMeansCleaned, RerunOnlyOnRequest, RestoreEnds |
| v_restore_failed | a trafficless restore that fails | no faults | ConfirmedMeansFailed, refuted |
| platform | the fleet, the storage configuration, the status of a group and the memory | 2 Clusters, 2 instances, 1 sync, 2 changes, 3 upsets | InstalledMeansAccepted, LimitHolds, ReadyMeansApplied, DeletedMeansUninstalled, GroupStatusCurrent, JobsFollowSpecs, FleetSettles, ConfigSettles, RuntimeCurrent |

Bounds. Two workloads are the least for which a pass can be partial; the liveness
run uses one. Two operation objects are the least for every pair of types to
overlap; `Mixes` says how many of each type users submit, and a mix for each pair keeps the
pairs apart. `MaxTime` bounds the
progress times: each failover and reprotect is stamped at most twice, at most four stamps with
two of them. `CHECK_DEADLOCK FALSE` because the system is quiet once users submit nothing more.
Operations and workloads are interchangeable, so that the safety run uses symmetry;
the liveness runs do not. The sync runs last two or three seconds: two runs of a sync in
different seconds, and a third one for what two runs leave behind, while
any number of steps fits in a second. Two restore phases are the least with an order;
`triggers` bounds cron triggers, manual triggers and user actions together. At the end of
the clock a failed sync operation is not retried (`shouldRetry`), since its retry would wait
for a later second. Two instances make a level of two, or two levels; two group operations let
one supersede the other. Two disturbances of a group are the deletion of an instance and its return.
A second failover, or one after the cancel, triples the states: what the theorems say of these (section 5)
is for all operations, only GroupEnds is not checked for them. Four edits of a drill are a confirmation, a cleanup, a restart and a
second confirmation; v_drill_cleanup needs six for the second round. Two faults of a restore let one
hit the recovery from the other. Of the two Clusters, one may be older than the gate, the other has an expired token, a registry
and a Velero of its own; the limits 1 and 2 are exceeded, met and raised; generation 2 is
one edit. The five runtime configurations set different fields, one is out of range and one is
invalid only over the startup values; three upsets are an edit, a restart and a failed write.

Fairness. Each operation's reconciliation and the instance's are weakly fair: every
result that is not final asks for a requeue or returns an error, which controller-runtime
retries. Nothing is assumed of users, dependencies or the syncs' schedules. A lost write
can repeat for ever, so OperationsEnd is checked without `lostWrite`. In sync_live, the sync,
the AppBackup while it is queued and the operation are weakly fair for the same reason; time
passes; and the timeouts of AppBackup and of the AppRestores of a ResourceSync, which always have a value, expire.
Nothing is assumed of the AppRestore of a DataSync: it is a trafficless one, and its final Failed is never stored
(v_restore_failed). Nor is anything of Velero, users, the schedule or the storage, or of the timeout of the
operation, which is optional. In group and drill, each reconciliation that changes something is weakly fair,
and so is the end of what it waits for, a child (failover_live) or an AppRestore of a drill, which is an ordinary one
(restore), unless a user cancels it. An operation of a drill that is parked is not reconciled: that an event, a restart or
the resync of the informers brings it back (`Requeued`) may happen and is not assumed. There and below, faults are bounded,
so that a lost write whose error is returned is retried in the end. In restore, the
controller requeues, and Velero lets a Restore that is being deleted go; that it ever
finishes one is not assumed. In platform the work queue is strongly fair to each Cluster, since one worker
serves them all and controller-runtime does not starve a key, and Velero comes up and
looks at its locations. The memory part has safety properties only.

What a property leaves out. A property that is conditional says so in its comment; the
reasons are in section 4.

* SwitchServes and NoDualActive say nothing when an operation asked to skip the scale-down.
  NoDualActive is about disciplined users (`Disciplined`): no failover is submitted while a cancel or
  an undo is in flight; an undo comes with one failover and nothing else; a pause or a resume does not
  come with a reprotect. Section 4 says how a late failover, a cancel with an undo and two undos break
  it. The rest of the discipline is what the proof asks for: of an undo with a reprotect or a second
  failover, and of a reprotect with a pause or a resume, no violation is known.
  RollbackRestores and SwitchServes are about one failover, RollbackRestores about it alone or with a cancel.
* OneBackupPerRun is about runs in which users send no request. SyncAdvances is about one exchange of the roles
  at most, its last part (the restores came after the backup) about runs without users and without an exchange
  and a lost write together; CancelHolds is about one exchange at most and no lost writes. SyncEnds, TriggerAnswered and OperationEnds are
  checked without lost writes, failing calls, an exchange of roles and user actions on the backups, and exclude
  a run that is held up for ever by its restore (`HeldUp`): a cancelled one, or one of a DataSync that is not seen to end.
* LevelsInOrder and CompletedMeansAll do not count on an instance that was skipped because it did
  not exist: one that comes back with its child in flight is waited for by nobody. An instance that users
  list in a later level too is not behind the operation yet. Levels are edited between operations only
  (section 4 says what an edit during one does). That every member has an answer, and what
  CancelEndsFailovers says, is for undisturbed operations.
* EveryRunConfirmed allows one more operation for each lost write. CompletedMeansRestored and
  CleanedUpMeansDown are about drills whose target does not change under them. DrillEnds excludes a drill whose
  operation is held up for ever (`HeldUp`): parked, waiting for a cancelled restore, or for pods.
* RestoreEnds is for ordinary restores, and lets Velero stall and lose its Restore at most
  `MaxFaults` times.
* LimitHolds is for a cache that has not lagged. ReadyMeansApplied excludes a spec that was edited before
  the first Ready. DeletedMeansUninstalled is for accepted Clusters. FleetSettles and
  ConfigSettles exclude a signal to apply a location that never becomes available, and FleetSettles says
  of a Cluster with an expired token only that its generation is observed.
* GroupStatusCurrent is for a group of which no event was lost since its last pass. RuntimeCurrent says
  that an invalid configuration displaces nothing while the operator runs on (`SnapshotKept`); after a restart the startup values are active until a valid configuration is.

## 4. Divergences from what the repository says

Four are runs of their own and are listed under `findings`:

* the compensation of a failover names the clusters of the DisasterConfig, not the
  current roles (`executeCancelStep`): for an instance protected in the reverse
  direction it scales the primary down and the standby up;
* a sync operation takes every result with LastSyncTime >= TriggeredAt for its own, but its
  trigger is dropped while a run is under way and starts none in the second of
  LastSyncTime: it reports a backup that started before it was submitted;
* a drill that is restarted takes the ended cleanup of its first round for that of the
  second and is CleanedUp while its copy still runs (`disasterdrill/controller.go:602`);
* the final Failed of a trafficless restore is never stored: the answer to the write of its annotations
  is decoded over it (`apprestore/apprestore_controller.go:229`).

The model also reaches these, each a few steps from the initial state:

* after a restart with an invalid runtime configuration the startup values are active, although
  `src/docs/runtime-configuration.md:41` says that the last valid snapshot is kept, and the status still names the
  generation that was active (`runtimeconfig/config.go:186`, `src/cmd/main.go:490`);
* a Cluster whose token has expired becomes Ready: the pass goes on and overwrites the status NotReady that
  `refreshClusterTokenExpiration` has set (`cluster_controller.go:727`), which
  `src/openspec/specs/cluster/spec.md:24` asks for; every such pass upgrades Velero;
* `handleActive` and `handleProtected` run the role-drift guard while an undo is between
  its scale-down and its scale-up, and fail the instance
  (`src/openspec/changes/add-instance-role-drift-condition/design.md:6` exempts the window);
* a failover that is submitted while another is under way makes the older one be
  rejected half-way and takes over; if its own PreCheck fails it reports the rollback as
  Succeeded with the schedules paused or the source scaled down;
* a ResourceSync triggered by hand while the source is partly scaled down records zero
  for the workloads that are down, and the rollback keeps them down
  (`ManualSync = TRUE` and `stepError` make RollbackRestores fail);
* `skipScaleDownSource` also skips the scale-down of an undo (the comment at
  `disasteroperation/controller.go:2250` says failovers only);
* a cancel is admitted in Failed whatever the cause, also after a successful switch
  (`"sync"` in Faults makes RollbackRestores fail), and on an instance that never synced, which
  it makes Protected;
* a pause is accepted in every state, and completes although an update of a sync failed;
* a resume of a Pending instance makes it Protected without roles; a failover of it
  requeues for ever at `LockRoles`.
* a failover whose last status write is lost fails on its retry, although the comment
  at its end expects the retry to find the instance Active: the guard at its start
  rejects Active first (`disasteroperation/controller.go:1110`, 1254); if a reprotect is submitted in that moment
  the roles are exchanged twice;
* both clusters run, at least in part, after any of: a failover that is submitted while a cancel or an
  undo is in flight, which supersedes it only in its own next reconciliation, so that the two scale in
  turn; a cancel and an undo of one failover; two undos of one failover
  (`disasteroperation/controller.go:1130`, 2250; without that part of `Disciplined`, TLC refutes
  NoDualActive with three operations and timeouts only);
* pause and resume are admitted in FailingOver: a resume there makes the instance Protected under the
  failover, and a second operation, a reprotect too, is let in before the failover has ended;
* an undo admitted in FailingOver scales the only running cluster down; if the watchdog
  then rolls back, the instance is Protected with nothing running;
* a second failover after a scale-down that failed half-way records zero counts for what is down.

And in the syncs:

* the roles are exchanged during a run: the AppBackup moves to the other cluster, the record
  of the backup is dropped and the run never ends, or the backup of the old source is
  restored under the new roles;
* the backup a sync waits for is cancelled, or its record disappears (a timeout that
  terminates the Velero backup and loses its status write has that effect): the sync has no
  case for it, stays InProgress for ever and ignores all triggers;
* a Failed AppBackup goes to Pending without a requeue, although the comment at
  `appbackup/appbackup_state.go` expects that the failure asked for one, and its own status
  update is filtered;
* a Retry without a target that fails between its delete and its create deletes the next
  older backup when it is tried again;
* a Retry makes a backup again under its name; a later run finds the AppRestores of the
  first one and ends in Ready without restoring; an exchange of the roles and a lost write have the same effect:
  the backup is made again in the other cluster;
* the roles are exchanged twice while the storage is unavailable: the AppBackup is back in the first cluster, where a
  backup of the same name may be older, and the run ends in Ready with a backup older than the last run;
* a Retry whose status write is lost leaves the record Completed for a backup that runs: it may be restored,
  also after it was cancelled;
* a deleted backup that is observed while Velero deletes it leaves a Canceled record; a
  Delete without a target ends the polling of the AppBackup;
* the failure conditions of a ResourceSync are never cleared (a DataSync clears its own);
* a run waits for ever for an AppRestore that a user cancelled: neither controller has a case for it
  (`datasync/controller.go:990`, 1078, `resourcesync/controller.go:690`). A DataSync waits for ever, too, when its
  restore fails and the final Failed is not stored; it then ignores all triggers, and a sync
  operation without `timeoutMinutes` waits with it;
* a retry of a sync operation is not counted when its second write is lost;
* a user's Retry replaces the request of a sync that the AppBackup has not taken yet.

In groups:

* `Parallelism` and `TimeoutMin` of a group are never read, although
  `src/README.zh-CN.md:89` describes them;
* the levels are read anew in every reconciliation: an edit (not modelled) during an operation moves
  instances past levels that were already worked on; children are adopted by name, whoever made them;
* under Continue a missing instance is skipped although its child goes on
  (`disasteroperation/controller.go:4059`): if the instance comes back, later levels start, and the group
  operation completes, while that child runs;
* a group failover that is submitted while a cancel finishes is failed, and its child goes on;
* when the groups cannot be listed, the event of an instance is lost (`disastergroup/controller.go:261`): the status of its
  group stays as it is until something else brings the group back.

In drills:

* `src/openspec/specs/drill/spec.md:116` excludes a restart that the code supports; the restart
  annotation together with a failure before any completion resets the drill for ever
  (`disasterdrill/controller.go:899`);
* a drill whose target is given is not compared with the roles (a group drill may restore
  into the primary), and a group drill resolves its target anew in every step;
* a lost write of Executing followed by a failed call leaves a Failed drill whose operation runs on;
  `handleReady` adopts any operation in flight, a cleanup too (412-430);
* deletion leaves the environment and the AppRestores behind (753), and a failed cleanup is never retried;
* the status writes that fail or complete a drill operation are not checked, and nothing is requeued after
  them (`disasteroperation/controller.go:2865`, 2886): if one is lost, the operation stays Running and its
  drill Executing until an event, a restart or the resync of the informers;
* the steps of a drill have no timeout: they wait for ever for an AppRestore that a user cancelled (3492-3508), for
  pods that do not become ready (4359-4398) and for trafficless pods that do not go (3271).

In restores:

* the counts of automatic retries are labels that the pass which resets `restoreStatus` does not
  store, so that the limit is never reached for a stall after the first copy of the status
  (`apprestore/apprestore_restoring.go:508-560`; the limit is described in
  `src/openspec/changes/add-dynamic-runtime-configuration/design.md:79`);
* an ended restore goes back to Pending, and runs again unasked, when the kube client of its
  Cluster cannot be built (`apprestore/apprestore_state.go:235`, 288, 334);
* a retry of a Failed restore whose Velero Restore is gone is consumed without effect; a retry while the old
  Velero Restore is still being deleted is answered from the old one; a cancel is not looked at while the
  Velero Restore is missing;
* a trafficless retry from Failed only writes annotations.

In the platform:

* the license gate counts in the informer cache, and its lock does not cover the cache: two
  Clusters in a row may both be the last one (`cluster_license_gate.go:59-67`);
* a Cluster that is deleted between the read of the pass and that of the gate passes
  unaccepted and has Velero installed (37); one that is edited there is Ready for a
  generation whose spec was not applied; a registry that is removed before the first Ready
  is never applied (`cluster_controller.go:199-213`);
* the reason `Deleting` hides the reason `LicenseLimitExceeded` from `shouldSkipTargetCleanup` (1869);
  the protection of Clusters, StorageRepositories and DisasterConfigs in use is disabled;
* an updated storage location counts as applied without a look at its phase; a signal whose
  location never becomes available blocks all other work of the Cluster (561);
* a runtime configuration that is deleted and created anew, invalid, before a pass keeps the
  snapshot of the deleted one; startup values themselves are not validated;
* the scheduler's key has no kind, so that a DataSync and a ResourceSync of one name share
  a job (`scheduler/sync_scheduler.go:57`); an expression that cannot be parsed removes the old job.

## 5. Proofs

All theorems hold for every value of the constants that meets the named assumptions, which
TLC evaluates for the instances it checks.

`FailoverSystemProofs` (two different clusters, `NoCluster` neither of them, budgets and MaxTime
natural numbers; any workloads, operations and faults):

* TypeCorrect - `TypeOK`; no step list is overrun;
* AtMostOneFailover - `FailoverExclusive`;
* RolesStayDistinct - `RolesDistinct`;
* GuardRemembers - `ConfigErrorRemembers`;
* FinishedIsFinal - `TerminalStable`, an action property;
* OperationsImplementLifecycle - `FailoverSystem` implements `OperationLifecycle`.

The argument. `IInv` is the conjunction of the four invariants. RolesDistinct
is inductive only together with its second half, about the role status in the
operations, because the watchdogs copy that status into the instance; ConfigErrorRemembers
needs the type of the remembered state. Lemma ReconcileWrites bounds what any of the
nineteen kinds of reconciliation may write - to its own operation (`OwnWrite`), to the
others (`OperationsWrite`) and to the instance (`InstanceWrite`) - one step per action; the
invariants are then shown from these bounds alone, and not once per action.
FailoverExclusive rests on the conflict check being evaluated in the same reconciliation
that first fills the steps, and on superseding only ever taking operations out of flight. For the refinement, every
reconciliation finds its operation Pending or Running, superseding only fails operations in flight and
never the one that supersedes, and users write only operations that are missing or delete them; each
shape of write maps to a step of the life cycle or to a stutter.

`NoDualActiveProofs` - NeverInBoth: `NoDualActive`, for any number and mix of operations, any workloads and
all faults. The two clusters being apart is not inductive: a step that scales one up must find the
other one empty. `DInv` therefore says, on top of `IInv`, what every operation that is about to scale a
cluster up may rely on (`RoomToFill`), and why nobody else fills that other cluster meanwhile: past its
admission a cancel or an undo is alone (`Superseding`), only one failover is (FailoverExclusive), and no
reprotect ends under a failover (`InFailingOver`). The steps of an undo and of a failover name the
clusters by the roles of the instance, so `Base` adds that these are both known or both not
(`RolesTogether`) and that handlePending writes them no more (`RolesWritten`), and `WatchdogKeepsRoles`
that until the undo writes them the watchdog of FailingOver copies what is there already. `Base` needs no
discipline; the rest holds as long as users have it, and since submissions are never taken back,
what it says of later states may be used of earlier ones. The lemmas tell what any reconciliation may do to
its operation (`OwnMove`), the others, the instance (`InstanceMove`) and the workloads (`UpMove`), and the
invariant is shown from those.

`FailoverOutcomeProofs` - what a failover leaves behind, for any workloads and number of operations, lost writes,
failing steps, timeouts and changes of the configuration, of an instance that starts with its application in the
source (`"target" \notin Starts`) and whose users trigger no ResourceSync by hand (`ManualSync = FALSE`):

* SwitchMovesAll - `SwitchServes`, with any cancels, undos and reprotects next to the failover, and failing syncs. `SwitchInv` says how
  far the failover has come (`OnItsWay`). From its third step on the schedules are paused and the instance is in
  FailingOver, which only the end or the failure of the last step leaves; the source is empty from the fifth step on
  and the target full from the seventh. CheckReplicas vouches for a full target only because no count is recorded
  as zero (`NoZero`): a sync records the source only while it is whole, since the last one it
  may run is the one that the failover triggers before it scales;
* RollbackLeavesNoTrace - `RollbackRestores`, with any number of cancels, if moreover the syncs do not fail
  (`"sync" \notin Faults`) and there are workloads. `RollbackInv` splits on whether the instance has been
  switched. Before, what is down in the source carries its annotation, and the instance is out of the states whose
  handlers would act on that (`Recoverable`); a cancel past its admission finds the failover ended for good
  (`CancelBack`), because each of its reconciliations fails the failovers in flight, so that the two never scale in turn;
  and a failover that failed goes back to Protected only if it has scaled nothing, or was compensated
  (`FailoverBack`). After, nothing leads to a state that admits a cancel;
* UndoBringsAllBack - `UndoOfSwitchRestores`: an undo after one failover, which may have skipped the
  scale-down. `UndoInv` says how far the undo has come (`UndoAlong`) and what its next step may rely on
  (`SwitchedWhole`): until it has scaled the source up the roles are exchanged, so that its "primary" is the target;
  what is down in the source carries its annotation (`Annotated`); and no count is zero, because the schedules
  are still paused and no sync records the empty source. A failover that has done its steps ends only once
  (`AtEnd`): a lost write of its end leaves the instance where no failover is admitted, so that the roles are not exchanged
  back.

No hypothesis can be dropped: without any one of them TLC refutes the property within two operations (section 4 tells of
the hand-triggered sync, the reversed start and the failing sync; without workloads the
drift guard takes the primary for a standby and fails the instance). Each reconciliation of a failover, a cancel or an
undo is reduced to one of a few shapes (`FailoverShapes`, `CancelShapes`, `UndoShapes`) that say what it does to the
application, the instance and its own progress; the invariants are shown from the shapes.

`GroupSystemProofs` - GroupImplementsLifecycle: the same of the group operations and of their
children, for any groups and levels. The invariant `OpsTyped` says only that each is an operation with a
state of the life cycle; one lemma per reconciliation shows that it writes moves of the life cycle
(`Moved`) to both, garbage collection included. And, of any groups, levels and numbers of disturbances:

* LevelsAreOrdered, CompletionIsWhole - `LevelsInOrder`, `CompletedMeansAll`. `LevelInv` says of every instance whose
  level an operation has left what it may rely on: its child has ended or is gone, or the instance was
  skipped, and it did not fail unless the policy is Continue. It is kept because a child that has ended is only
  created again by an operation in its level; `ChildStep` lists who may write a child;
* CancelIsThorough - `CancelEndsFailovers`, of operations that nothing has disturbed. `CancelInv` adds that
  every child was made by its operation in a level it has entered (`Whole`) and that a cancel that has entered its
  first level has ended the earlier failovers, and an ended child of it those of its instance
  (`Outlived`): a failover that is failed creates no children behind the cancel.

`SyncPipelineProofs` - for any clusters, plans, retry limits and seconds, and any number of each fault, of triggers and of
user requests that the properties admit:

* OneBackup - `OneBackupPerRun`. `OneRequest`: the AppBackup holds the request of the sync, and whatever was
  made after the last run was made for that request. The run before it ended in an earlier
  second (`InTime`), and a lost write makes the AppBackup handle the same request again, which finds the backup
  under its name;
* Advances - `SyncAdvances`. `Adopted`: the backup that a run has adopted, and its record, are newer than the last
  run; the record is not ahead of the backup, although it is a copy that may be lost. `NewGround`: the AppBackup
  follows the roles late, and with one exchange it comes to a cluster where it has made nothing. That the restores
  came after their backup is `Final`: a backup that was recorded as completed, or restored, was handled and is
  not made again, which is why lost writes and exchanges do not go together;
* CancelIsKept - `CancelHolds`. `Cancels`: a backup that runs has no record of a completed one, and one with a
  cancelled record is on its way out.

`SyncInv` joins these with the types. A pass of the AppBackup changes the backups and records of all names at once;
`PassAt` and `PlainPass` say what it does to one name, `VeleroAt` the same of Velero, and `SyncShape` lists
the shapes of a pass of the sync. The invariant is shown from those, name by name.

`DrillSystemProofs` - for any number of operations, budgets and changes of the world:

* OneDrillAtATime - `OneDrillInFlight`. `OpsInv`: operations are made in the order of their numbers, and nothing
  made before a drill operation is in flight (`QuietIsAlone`), because the pass that makes one looks for others first, and
  adopts what an earlier pass made whose status write was lost;
* RunsAreConfirmed - `EveryRunConfirmed`. The `Ledger`: the drill operations made, and the one that a
  confirmation still asks for, are no more than the confirmations and the lost writes;
* CompletionIsEarned - `CompletedMeansRestored`. `RestoresFirst` ties the step of a drill operation to its
  restores, these to its target, and both to what is found there, until a cleanup is asked for;
* CleanedUpIsDown - `CleanedUpMeansDown`. `TakenDown`: what a cleanup took down stays down, if no drill
  operation came after it and none was in flight when it was made.

`AppRestoreProofs` - for any retry limit, faults and requests:

* CancelStops, DeletionCleans - `CancelledMeansStopped`, `DeletedMeansCleaned`. `RestoreInv` adds that nothing
  is made on the cluster before the finalizer is stored, although metadata and status are two writes, and that a
  phase that means stopped is only stored with the Velero Restore gone or going;
* NoUnaskedRerun - `RerunOnlyOnRequest`, an action property: a restore that is open, or has a retry to
  handle, is wanted.

`PlatformProofs` - for any finite set of Clusters, any licenses, syncs and runtime
configurations:

* GateComesFirst - `InstalledMeansAccepted`. `FleetInv` adds the types, that a target without a
  Cluster has no Velero of the operator, and that a pass which has left the gate is about a
  Cluster that was accepted or is no longer live: the pass acts on what it read, and the
  invariant ties that to what is stored now;
* LicenseLimitHolds - `LimitHolds`. `LimitInv` adds that a cache that has not lagged shows every
  accepted Cluster, so that the gate counted all others when it accepted one; every other step
  is `Tame`, it accepts none;
* RuntimeConfigIsCurrent - `RuntimeCurrent`. Its state part, `SnapshotCurrent`, is inductive with the type of the object
  (`RuntimeInv`); its action part, `SnapshotKept`, follows from the same invariant: of the passes only Activate and,
  without a configuration, ResetToStartupDefaults write the snapshot, and what is merged over the startup values keeps
  what was set;
* GroupStatusIsCurrent - `GroupStatusCurrent`: a status that is out of date has its group queued, or the event of an
  instance was lost since the last pass;
* JobsFollowTheSpecs - `JobsFollowSpecs`. `JobsInv` adds that no job has an expression that
  cannot be parsed, which `AddOrUpdate` would otherwise take for up to date.

And, for any number of Clusters and licenses:

* ReadyIsApplied - `ReadyMeansApplied`. `CleanInv` ties the target to the generations that the status calls observed or
  waited for, and the pass under way, which goes by what it read, to the Cluster as it is
  stored: its generation is not ahead, and its spec is the same unless the Cluster was edited;
* DeletionUninstalls - `DeletedMeansUninstalled`: no pass outlives its Cluster, so that none installs Velero
  again behind the deletion, and what was accepted is never skipped.

Every inductive invariant was model-checked before it was proved, those of the group, the drill, the
restore and the platform on their runs' instances, `SyncInv` on the run's scenarios and on ones with more faults and
users, `DInv` on two, three and four operations with all faults (the larger ones not to the end), `SwitchInv` and
`RollbackInv` on a failover with one or two operations of each kind that the theorems admit, `UndoInv` on a failover
and an undo with all faults and deletions. Some
properties turned out to be false as they stood and were restated:
LevelsInOrder and CompletedMeansAll with a second disturbance (an instance that is deleted and comes
back), NoDualActive with a third operation, SyncAdvances with a second exchange of the roles or an exchange and a
lost write, CancelHolds with a lost write (section 4), and UndoOfSwitchRestores with a third operation: a
reprotect that ends while the write of the switch is lost lets the failover end, and exchange the roles, a second time;
and a second undo scales the source down before the first has ended.

Only model-checked are the liveness properties (OperationsEnd, SwitchesEnd, GroupEnds,
DrillEnds, RestoreEnds, FleetSettles, ConfigSettles, SyncEnds, TriggerAnswered, OperationEnds), which are
outside of what TLAPS proves. Every safety property of the passing runs is proved; the runs go beyond the theorems where
these have hypotheses.

## 6. Not modelled, and the plan

Of the modelled controllers: the deletion of an instance; schedules, policies and deletion of
an AppBackup; the specs of the Velero objects; hooks and image rules of a drill; cached reads except
the gate's; labels, owner references, events and statistics. Outside: the legacy job, policy
and backup controllers, the first generation of the orchestration; the restore policies and
modifiers and the image mapping, pure rewriting of manifests and strings whose data would have to be
modelled character by character; the webhooks (stateless validation); the dependency backfill (a
one-off command over labels); events and statistics (nothing reads them back); the API types and generated
clients; the wiring of the commands; signatures and files of the license library.

Plan, most important first:

1. Proofs: a wider discipline for NoDualActive (an undo with several failovers, a reprotect with pauses).
2. An abstract sync (started, then Ready with a newer LastSyncTime or Failed) that
   `SyncPipeline` implements, and `AppRestore` in place of its `RestoreEnds`; an abstract state machine of the instance,
   refined by `FailoverSystem` where the code keeps to its transition table.
3. AppBackup schedules and deletion, the deletion of an instance, the legacy controllers.
4. The order of the modifiers and the merge of restore policies, as operators against a reference
   definition.
