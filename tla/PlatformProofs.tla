--------------------------- MODULE PlatformProofs ---------------------------
(***************************************************************************)
(* Theorems about Platform: what the operator keeps in memory follows the  *)
(* API objects, the license gate comes before the installation, the status *)
(* of a group adds up its instances unless an event of one was lost, a     *)
(* Cluster that is Ready has the Velero it asks for, and one that was      *)
(* deleted with its Velero leaves none behind.                             *)
(***************************************************************************)
EXTENDS Platform, FiniteSetTheorems, TLAPS

(***************************************************************************)
(* The cron jobs.                                                          *)
(***************************************************************************)
SyncType ==
  [obj : {"none", "live", "deleting"}, stage : {"new", "labelled", "ready"},
   schedule : Schedules, paused : BOOLEAN, queued : BOOLEAN]

\* The job of a sync whose pass is done.
JobOf(x) ==
  IF x.obj = "live" /\ ~x.paused /\ x.schedule \notin BadSchedules THEN x.schedule ELSE ""

\* The inductive invariant: no job has a schedule that cannot be parsed, which
\* AddOrUpdate would take for the schedule of the sync.
JobsInv ==
  /\ sync \in [Sync -> SyncType]
  /\ jobs \in [Sync -> Schedules \ BadSchedules]
  /\ \A s \in Sync : ~sync[s].queued => jobs[s] = JobOf(sync[s])

\* No job is one of the good jobs, and so is the answer of the scheduler.
LEMMA JobTypes ==
  /\ "" \in Schedules \ BadSchedules
  /\ NoSync \in SyncType /\ NoSync.obj = "none"
BY MemoryAssumption DEF NoSync, SyncType

\* What one pass registers is what the spec asks for.
LEMMA RegisteredJob ==
  ASSUME JobsInv, NEW s \in Sync, sync[s].obj = "live"
  PROVE  Registered(s) \in Schedules \ BadSchedules /\ Registered(s) = JobOf(sync[s])
<1>1. sync[s] \in SyncType /\ jobs[s] \in Schedules \ BadSchedules
  BY DEF JobsInv
<1> QED BY <1>1, JobTypes DEF Registered, AddOrUpdate, JobOf, SyncType

\* A step that writes one sync and its job.
LEMMA OneJobWritten ==
  ASSUME JobsInv, NEW s \in Sync, NEW x \in SyncType, NEW j \in Schedules \ BadSchedules,
         ~x.queued => j = JobOf(x),
         sync' = [sync EXCEPT ![s] = x], jobs' = [jobs EXCEPT ![s] = j]
  PROVE  JobsInv'
<1>1. sync' \in [Sync -> SyncType] /\ jobs' \in [Sync -> Schedules \ BadSchedules]
  BY DEF JobsInv
<1>2. ASSUME NEW r \in Sync, ~sync'[r].queued PROVE jobs'[r] = JobOf(sync'[r])
  BY <1>2 DEF JobsInv
<1> QED BY <1>1, <1>2 DEF JobsInv, JobOf

\* A pass over a sync.
LEMMA SyncPassKeepsJobs ==
  ASSUME JobsInv, NEW s \in Sync, ReconcileSync(s)
  PROVE  JobsInv'
<1>t. sync[s] \in SyncType /\ jobs[s] \in Schedules \ BadSchedules /\ sync[s].queued
  BY DEF JobsInv, ReconcileSync
<1>j. jobs = [jobs EXCEPT ![s] = jobs[s]] /\ sync = [sync EXCEPT ![s] = sync[s]]
  BY DEF JobsInv
<1>1. CASE Remove(s)
  <2>1. jobs' = [jobs EXCEPT ![s] = ""] /\ sync[s].obj # "live"
    BY <1>1 DEF Remove
  <2>2. \E x \in {NoSync, sync[s]} : sync' = [sync EXCEPT ![s] = x]
    BY <1>1, <1>j DEF Remove
  <2>3. JobOf(NoSync) = "" /\ JobOf(sync[s]) = ""
    BY <2>1, JobTypes DEF JobOf
  <2> QED BY <1>t, <2>1, <2>2, <2>3, JobTypes, OneJobWritten
<1>2. CASE Schedule(s)
  <2>1. ASSUME NEW stage \in {"labelled", "ready"}, UNCHANGED jobs,
               sync' = [sync EXCEPT ![s].stage = stage]
        PROVE  JobsInv'
    <3> DEFINE x == [sync[s] EXCEPT !.stage = stage]
    <3>1. x \in SyncType /\ x.queued
      BY <1>t DEF SyncType
    <3>2. sync' = [sync EXCEPT ![s] = x] /\ jobs' = [jobs EXCEPT ![s] = jobs[s]]
      BY <1>j, <2>1
    <3> HIDE DEF x
    <3> QED BY <1>t, <3>1, <3>2, OneJobWritten
  <2>2. CASE UNCHANGED <<sync, jobs>>
    BY <2>2 DEF JobsInv, JobOf
  <2>3. ASSUME sync[s].obj = "live", jobs' = [jobs EXCEPT ![s] = Registered(s)],
               sync' = [sync EXCEPT ![s].queued = FALSE]
        PROVE  JobsInv'
    <3> DEFINE x == [sync[s] EXCEPT !.queued = FALSE]
    <3>1. x \in SyncType /\ JobOf(x) = JobOf(sync[s])
      BY <1>t DEF SyncType, JobOf
    <3>2. sync' = [sync EXCEPT ![s] = x]
      BY <2>3
    <3> HIDE DEF x
    <3> QED BY <2>3, <3>1, <3>2, RegisteredJob, OneJobWritten
  <2> QED BY <1>2, <2>1, <2>2, <2>3 DEF Schedule
<1> QED BY <1>1, <1>2 DEF ReconcileSync

\* Users edit and delete syncs, and the operator restarts.
LEMMA MemoryUserKeepsJobs ==
  ASSUME JobsInv, EditRuntimeConfig \/ Restart \/ \E s \in Sync : EditSync(s)
  PROVE  JobsInv'
<1>1. CASE EditRuntimeConfig
  BY <1>1 DEF EditRuntimeConfig, JobsInv, JobOf
<1>2. CASE Restart
  <2>1. ASSUME NEW s \in Sync
        PROVE  /\ sync'[s] \in SyncType /\ jobs'[s] = ""
               /\ ~sync'[s].queued => JobOf(sync'[s]) = ""
    <3>1. sync[s] \in SyncType /\ sync'[s] = [sync[s] EXCEPT !.queued = sync[s].obj # "none"]
      BY <1>2 DEF Restart, JobsInv
    <3> QED BY <1>2, <3>1 DEF Restart, SyncType, JobOf
  <2>2. sync' = [s \in Sync |-> sync'[s]] /\ jobs' = [s \in Sync |-> jobs'[s]]
    BY <1>2 DEF Restart
  <2> QED BY <2>1, <2>2, JobTypes DEF JobsInv
<1>3. ASSUME NEW s \in Sync, EditSync(s) PROVE JobsInv'
  <2>0. sync[s] \in SyncType /\ jobs[s] \in Schedules \ BadSchedules
        /\ sync \in [Sync -> SyncType]
    BY DEF JobsInv
  <2>1. \E x \in SyncType : x.queued /\ sync' = [sync EXCEPT ![s] = x]
    <3>1. ASSUME NEW schedule \in Schedules, NEW paused \in BOOLEAN,
                 sync' = [sync EXCEPT ![s].obj = "live", ![s].schedule = schedule,
                                      ![s].paused = paused, ![s].queued = TRUE]
          PROVE  \E x \in SyncType : x.queued /\ sync' = [sync EXCEPT ![s] = x]
      <4> DEFINE x == [sync[s] EXCEPT !.obj = "live", !.schedule = schedule, !.paused = paused,
                                      !.queued = TRUE]
      <4>1. x \in SyncType /\ x.queued
        BY <2>0 DEF SyncType
      <4>2. sync' = [sync EXCEPT ![s] = x]
        BY <2>0, <3>1
      <4> QED BY <4>1, <4>2
    <3>2. [NoSync EXCEPT !.queued = TRUE] \in SyncType /\ [NoSync EXCEPT !.queued = TRUE].queued
      BY JobTypes DEF SyncType
    <3>3. LET x == [sync[s] EXCEPT !.obj = "deleting", !.queued = TRUE] IN x \in SyncType /\ x.queued
      BY <2>0 DEF SyncType
    <3>4. CASE sync' = [sync EXCEPT ![s] = IF @.stage = "new" THEN [NoSync EXCEPT !.queued = TRUE]
                                           ELSE [@ EXCEPT !.obj = "deleting", !.queued = TRUE]]
      <4> DEFINE x == IF sync[s].stage = "new" THEN [NoSync EXCEPT !.queued = TRUE]
                      ELSE [sync[s] EXCEPT !.obj = "deleting", !.queued = TRUE]
      <4>1. x \in SyncType /\ x.queued
        BY <3>2, <3>3
      <4>2. sync' = [sync EXCEPT ![s] = x]
        BY <2>0, <3>4
      <4> HIDE DEF x
      <4> QED BY <4>1, <4>2
    <3> QED BY <1>3, <3>1, <3>4 DEF EditSync
  <2>2. jobs' = [jobs EXCEPT ![s] = jobs[s]]
    BY <1>3 DEF EditSync, JobsInv
  <2> QED BY <2>0, <2>1, <2>2, OneJobWritten
<1> QED BY <1>1, <1>2, <1>3

\* The memory of the operator changes in the steps of OperatorMemory only.
LEMMA MemorySteps ==
  ASSUME [Next]_vars
  PROVE  \/ UNCHANGED memoryVars
         \/ EditRuntimeConfig \/ Restart \/ \E s \in Sync : EditSync(s)
         \/ ReconcileRuntimeConfig
         \/ \E s \in Sync : ReconcileSync(s)
<1>1. CASE UNCHANGED vars
  BY <1>1 DEF vars, memoryVars
<1>2. CASE FleetUser \/ ConfigUser \/ FleetContinue \/ FleetDeliver \/ FleetDisturb
  BY <1>2 DEF FleetUser, ConfigUser, FleetContinue, FleetDeliver, FleetDisturb, rest, memoryVars
<1>3. ASSUME NEW c \in Cluster, FleetStart(c) \/ FleetVelero(c) \/ ValidateLocation(c)
      PROVE  UNCHANGED memoryVars
  BY <1>3 DEF FleetStart, FleetVelero, ValidateLocation, rest, memoryVars
<1>4. CASE EnsureStorage
  BY <1>4 DEF EnsureStorage, memoryVars
<1>5. CASE ReconcileRepository \/ ReconcileConfig
  BY <1>5 DEF ReconcileRepository, ReconcileConfig, memoryVars
<1>6. CASE ReconcileGroup \/ InstanceChanges \/ EditGroup
  BY <1>6 DEF ReconcileGroup, InstanceChanges, EditGroup, memoryVars
<1>7. CASE EditStorage \/ SignalStorage
  BY <1>7 DEF EditStorage, SignalStorage, memoryVars
<1>8. CASE MemoryUser \/ RuntimePass \/ \E s \in Sync : SyncPass(s)
  BY <1>8 DEF MemoryUser, RuntimePass, SyncPass
<1> QED BY <1>1, <1>2, <1>3, <1>4, <1>5, <1>6, <1>7, <1>8 DEF Next

\* Once its pass is done, every sync has the cron job of its schedule and no
\* other, whatever edits, deletions, failed writes and restarts of the operator
\* came before (SyncScheduler, and the reconcilers of DataSync and ResourceSync).
THEOREM JobsFollowTheSpecs == Spec => []JobsFollowSpecs
<1>1. Init => JobsInv
  <2> SUFFICES ASSUME Init PROVE JobsInv
    OBVIOUS
  <2>1. sync = [s \in Sync |-> NoSync] /\ jobs = [s \in Sync |-> ""]
    BY DEF Init, MemoryInit
  <2> QED BY <2>1, JobTypes DEF JobsInv, JobOf
<1>2. JobsInv /\ [Next]_vars => JobsInv'
  <2> SUFFICES ASSUME JobsInv, [Next]_vars PROVE JobsInv'
    OBVIOUS
  <2>1. CASE UNCHANGED <<sync, jobs>>
    BY <2>1 DEF JobsInv, JobOf
  <2>2. UNCHANGED memoryVars \/ ReconcileRuntimeConfig => UNCHANGED <<sync, jobs>>
    BY DEF memoryVars, ReconcileRuntimeConfig
  <2> QED BY <2>1, <2>2, MemorySteps, MemoryUserKeepsJobs, SyncPassKeepsJobs
<1>3. JobsInv => JobsFollowSpecs
  BY DEF JobsInv, JobOf, JobsFollowSpecs
<1> QED BY <1>1, <1>2, <1>3, PTL DEF Spec

(***************************************************************************)
(* The runtime configuration.                                              *)
(***************************************************************************)
RuntimeConfigType ==
  [exists : BOOLEAN, queued : BOOLEAN, gen : Nat, spec : Specs \cup {Startup},
   observed : Nat, activated : Nat, ready : BOOLEAN]

RuntimeInv ==
  /\ rc \in RuntimeConfigType
  /\ rc.exists => rc.spec \in Specs
  /\ SnapshotCurrent

\* What a spec sets replaces the startup value, and retryLimit may set
\* retryLimitMissing; every other field has its startup value.
LEMMA MergedValues ==
  ASSUME NEW spec \in Specs
  PROVE  /\ \A f \in DOMAIN spec : MergeSpec(spec)[f] = spec[f]
         /\ \A f \in Field \ ({"retryLimitMissing"} \cup DOMAIN spec) : MergeSpec(spec)[f] = Startup[f]
<1>1. DOMAIN spec \subseteq Field /\ DOMAIN Startup = Field
  BY MemoryAssumption
<1>2. ASSUME NEW f \in Field, f # "retryLimitMissing"
      PROVE  mergeRestoreRuntime(Startup, spec)[f] = Startup[f]
  BY <1>1, <1>2 DEF mergeRestoreRuntime
<1> QED BY <1>1, <1>2 DEF MergeSpec, mergeFields, StartupSnapshot

\* A pass that writes the status, after it activated the snapshot or rejected
\* the spec.
LEMMA StatusWritten ==
  ASSUME RuntimeInv, rc.exists, rc.queued, NEW ready \in BOOLEAN, updateStatus(ready),
         ready <=> Validate(MergeSpec(rc.spec)),
         active.values = Startup \/ Validate(active.values),
         IF ready THEN active' = [gen |-> rc.gen, values |-> MergeSpec(rc.spec)]
                  ELSE UNCHANGED active
  PROVE  RuntimeInv'
<1>t. rc \in RuntimeConfigType /\ rc.spec \in Specs
  BY DEF RuntimeInv
<1>1. active'.values = Startup \/ Validate(active'.values)
  BY DEF Validate
<1>2. ASSUME ready
      PROVE  /\ active'.gen = rc.gen
             /\ \A f \in DOMAIN rc.spec : active'.values[f] = rc.spec[f]
             /\ \A f \in Field \ ({"retryLimitMissing"} \cup DOMAIN rc.spec) :
                  active'.values[f] = Startup[f]
  BY <1>t, <1>2, MergedValues
<1>3. /\ rc' \in RuntimeConfigType
      /\ rc'.exists /\ rc'.spec = rc.spec /\ rc'.gen = rc.gen
      /\ ~rc'.queued => rc'.observed = rc.gen /\ rc'.ready = ready
  BY <1>t DEF updateStatus, RuntimeConfigType
<1> QED BY <1>t, <1>1, <1>2, <1>3 DEF RuntimeInv, SnapshotCurrent, Validate, MergeSpec, mergeFields,
  mergeRestoreRuntime, StartupSnapshot, inRange

\* The inductive invariant of the runtime configuration.
LEMMA RuntimeInvariance == Spec => []RuntimeInv
<1>1. Init => RuntimeInv
  <2> SUFFICES ASSUME Init PROVE RuntimeInv
    OBVIOUS
  <2>1. rc = NoRuntimeConfig /\ active = [gen |-> 0, values |-> Startup]
    BY DEF Init, MemoryInit
  <2>2. rc \in RuntimeConfigType /\ ~rc.exists
    BY <2>1 DEF NoRuntimeConfig, RuntimeConfigType
  <2> QED BY <2>1, <2>2 DEF RuntimeInv, SnapshotCurrent
<1>2. RuntimeInv /\ [Next]_vars => RuntimeInv'
  <2> SUFFICES ASSUME RuntimeInv, [Next]_vars PROVE RuntimeInv'
    OBVIOUS
  <2>t. rc \in RuntimeConfigType /\ (rc.exists => rc.spec \in Specs) /\ SnapshotCurrent
        /\ (active.values = Startup \/ Validate(active.values))
    BY DEF RuntimeInv, SnapshotCurrent
  <2>1. CASE UNCHANGED <<rc, active>>
    BY <2>1 DEF RuntimeInv, SnapshotCurrent, Validate
  <2>2. UNCHANGED memoryVars \/ (\E s \in Sync : ReconcileSync(s) \/ EditSync(s)) => UNCHANGED <<rc, active>>
    BY DEF memoryVars, ReconcileSync, EditSync
  <2>3. CASE EditRuntimeConfig
    <3>1. active' = active
      BY <2>3 DEF EditRuntimeConfig
    <3>2. rc' \in RuntimeConfigType /\ rc'.queued /\ (rc'.exists => rc'.spec \in Specs)
      <4>1. ASSUME NEW s \in Specs, rc' = [rc EXCEPT !.spec = s, !.gen = @ + 1, !.queued = TRUE]
            PROVE  rc' \in RuntimeConfigType /\ rc'.queued /\ rc'.spec \in Specs
        <5>1. rc.gen + 1 \in Nat
          BY <2>t DEF RuntimeConfigType
        <5> QED BY <2>t, <4>1, <5>1 DEF RuntimeConfigType
      <4>2. ASSUME NEW s \in Specs,
                   rc' = [NoRuntimeConfig EXCEPT !.exists = TRUE, !.spec = s, !.gen = 1, !.queued = TRUE]
            PROVE  rc' \in RuntimeConfigType /\ rc'.queued /\ rc'.spec \in Specs
        BY <4>2 DEF RuntimeConfigType, NoRuntimeConfig
      <4>3. CASE rc' = [NoRuntimeConfig EXCEPT !.queued = TRUE]
        BY <4>3 DEF RuntimeConfigType, NoRuntimeConfig
      <4> QED BY <2>3, <4>1, <4>2, <4>3 DEF EditRuntimeConfig
    <3> QED BY <2>t, <3>1, <3>2 DEF RuntimeInv, SnapshotCurrent, Validate
  <2>4. CASE Restart
    <3>1. /\ rc' \in RuntimeConfigType /\ rc'.exists = rc.exists /\ rc'.spec = rc.spec
          /\ rc'.queued = rc.exists
      BY <2>t, <2>4 DEF Restart, RuntimeConfigType
    <3>2. active' = [gen |-> 0, values |-> Startup]
      BY <2>4 DEF Restart
    <3> QED BY <2>t, <3>1, <3>2 DEF RuntimeInv, SnapshotCurrent
  <2>5. CASE ReconcileRuntimeConfig
    <3>0. rc.queued
      BY <2>5 DEF ReconcileRuntimeConfig
    <3>1. CASE ResetToStartupDefaults
      <4>1. active' = [gen |-> 0, values |-> Startup]
        BY <3>1 DEF ResetToStartupDefaults
      <4>2. rc' \in RuntimeConfigType /\ ~rc'.exists
        BY <2>t, <3>1 DEF ResetToStartupDefaults, RuntimeConfigType
      <4> QED BY <4>1, <4>2 DEF RuntimeInv, SnapshotCurrent
    <3>2. CASE Activate
      BY <2>t, <3>0, <3>2, StatusWritten DEF Activate
    <3>3. CASE Reject
      BY <2>t, <3>0, <3>3, StatusWritten DEF Reject
    <3> QED BY <2>5, <3>1, <3>2, <3>3 DEF ReconcileRuntimeConfig
  <2> QED BY <2>1, <2>2, <2>3, <2>4, <2>5, MemorySteps
<1> QED BY <1>1, <1>2, PTL DEF Spec

\* While a configuration exists and the operator runs, the snapshot in use is
\* replaced by nothing but that configuration once it is valid: no invalid one
\* brings the startup values back, nor does a status write that fails (the
\* store of the runtime configuration and its reconciler).
LEMMA SnapshotIsKept == Spec => SnapshotKept
<1> DEFINE Kept == active' # active /\ rc.exists =>
                     \/ Restart
                     \/ /\ active'.gen = rc.gen /\ Validate(active'.values)
                        /\ \A f \in DOMAIN rc.spec : active'.values[f] = rc.spec[f]
<1>1. RuntimeInv /\ [Next]_vars => Kept
  <2> SUFFICES ASSUME RuntimeInv, [Next]_vars, active' # active, rc.exists
               PROVE  \/ Restart
                      \/ /\ active'.gen = rc.gen /\ Validate(active'.values)
                         /\ \A f \in DOMAIN rc.spec : active'.values[f] = rc.spec[f]
    OBVIOUS
  <2>1. rc.spec \in Specs
    BY DEF RuntimeInv
  <2>2. Restart \/ ReconcileRuntimeConfig
    BY MemorySteps DEF memoryVars, ReconcileSync, EditSync, EditRuntimeConfig
  <2>3. ReconcileRuntimeConfig => Activate
    BY DEF ReconcileRuntimeConfig, ResetToStartupDefaults, Reject
  <2>4. ASSUME Activate
        PROVE  /\ active'.gen = rc.gen /\ Validate(active'.values)
               /\ \A f \in DOMAIN rc.spec : active'.values[f] = rc.spec[f]
    <3>1. active' = [gen |-> rc.gen, values |-> MergeSpec(rc.spec)] /\ Validate(MergeSpec(rc.spec))
      BY <2>4 DEF Activate
    <3>2. active'.gen = rc.gen /\ active'.values = MergeSpec(rc.spec)
      BY <3>1
    <3> QED BY <2>1, <3>1, <3>2, MergedValues
  <2> QED BY <2>2, <2>3, <2>4
<1>2. Kept => [Kept]_memoryVars
  OBVIOUS
<1> QED BY <1>1, <1>2, RuntimeInvariance, PTL DEF Spec, SnapshotKept

\* Whatever edits, deletions, failed status writes and restarts came before:
\* once its pass is done, a valid OperatorRuntimeConfig is what the operator
\* uses over its startup values, an invalid one is reported, and without one
\* the startup values are back; and until a restart an invalid one displaces
\* nothing (the runtime configuration reconciler and its store).
THEOREM RuntimeConfigIsCurrent == Spec => RuntimeCurrent
<1>1. RuntimeInv => SnapshotCurrent
  BY DEF RuntimeInv
<1> QED BY <1>1, RuntimeInvariance, SnapshotIsKept, PTL DEF RuntimeCurrent

(***************************************************************************)
(* The license gate.                                                       *)
(***************************************************************************)
TargetType ==
  [velero : {"absent", "residual"} \cup Config, ours : BOOLEAN, up : BOOLEAN, answered : BOOLEAN,
   bsl : Nat, avail : BOOLEAN]
RepoType ==
  [obj : {"none", "live", "gone"}, stage : {"new", "labelled", "ready"}, rev : Nat,
   status : {"", "Available", "Unavailable"}, observed : Nat]
PassType == [at : {"gate", "work"}, c : Cluster, read : ClusterType, wasReady : BOOLEAN]

\* A Cluster that may have a Velero of the operator.
Passed(x) == x.obj # "none" /\ (x.accepted \/ x.obj # "live")

\* The pass p leaves the gate with a Cluster that has passed it.  It names one
\* that exists: an object with a pass under way is never made anew.
PassOK(p, clusters) ==
  \/ p = NoPass
  \/ /\ p \in PassType
     /\ clusters[p.c].obj # "none"
     /\ p.at = "work" => Passed(clusters[p.c])

FleetInv ==
  /\ cl \in [Cluster -> ClusterType] /\ target \in [Cluster -> TargetType]
  /\ repo \in RepoType /\ s3 \in BOOLEAN
  /\ \A c \in Cluster : target[c].ours => Passed(cl[c])
  /\ PassOK(pass, cl)

\* What a step may do to a Cluster: it does not vanish, and once it has passed
\* the gate it stays so.
Onward(x, y) == y \in ClusterType /\ (x.obj # "none" => y.obj # "none") /\ (Passed(x) => Passed(y))

\* What a step may do to the target of the Cluster x.
Careful(x, t, u) == u \in TargetType /\ (u.ours => t.ours \/ Passed(x))

\* A step that is careful with every Cluster and target keeps the invariant.
LEMMA CarefulStep ==
  ASSUME FleetInv,
         cl' = [c \in Cluster |-> cl'[c]], \A c \in Cluster : Onward(cl[c], cl'[c]),
         target' = [c \in Cluster |-> target'[c]],
         \A c \in Cluster : Careful(cl[c], target[c], target'[c]),
         repo' \in RepoType, s3' \in BOOLEAN,
         pass' = pass \/ PassOK(pass', cl')
  PROVE  FleetInv'
<1>1. cl' \in [Cluster -> ClusterType] /\ target' \in [Cluster -> TargetType]
  BY DEF Onward, Careful
<1>2. \A c \in Cluster : target'[c].ours => Passed(cl'[c])
  BY DEF FleetInv, Onward, Careful
<1>3. PassOK(pass', cl')
  BY DEF FleetInv, PassOK, PassType, Onward
<1> QED BY <1>1, <1>2, <1>3 DEF FleetInv, Passed, PassOK

\* One Cluster or none is written.
LEMMA OneCluster ==
  ASSUME FleetInv, NEW c \in Cluster, NEW x, Onward(cl[c], x),
         cl' = [cl EXCEPT ![c] = x] \/ UNCHANGED cl
  PROVE  cl' = [d \in Cluster |-> cl'[d]] /\ \A d \in Cluster : Onward(cl[d], cl'[d])
<1>1. cl \in [Cluster -> ClusterType]
  BY DEF FleetInv
<1>2. \A d \in Cluster : Onward(cl[d], cl[d])
  BY <1>1 DEF Onward
<1> QED BY <1>1, <1>2

\* One target or none is written.
LEMMA OneTarget ==
  ASSUME FleetInv, NEW c \in Cluster, NEW t, Careful(cl[c], target[c], t),
         target' = [target EXCEPT ![c] = t] \/ UNCHANGED target
  PROVE  /\ target' = [d \in Cluster |-> target'[d]]
         /\ \A d \in Cluster : Careful(cl[d], target[d], target'[d])
<1>1. target \in [Cluster -> TargetType]
  BY DEF FleetInv
<1>2. \A d \in Cluster : Careful(cl[d], target[d], target[d])
  BY <1>1 DEF Careful
<1> QED BY <1>1, <1>2

\* Clusters and targets that are left alone.
LEMMA LeftAlone ==
  ASSUME FleetInv
  PROVE  /\ UNCHANGED cl => cl' = [d \in Cluster |-> cl'[d]] /\ \A d \in Cluster : Onward(cl[d], cl'[d])
         /\ UNCHANGED target => /\ target' = [d \in Cluster |-> target'[d]]
                                /\ \A d \in Cluster : Careful(cl[d], target[d], target'[d])
         /\ UNCHANGED <<repo, s3>> => repo' \in RepoType /\ s3' \in BOOLEAN
BY DEF FleetInv, Onward, Careful

\* The status of a pass replaces nothing but the status of the Cluster.
LEMMA StatusOnward ==
  ASSUME NEW x \in ClusterType, NEW new \in ClusterType
  PROVE  Onward(x, StatusOf(new, x))
BY DEF Onward, StatusOf, ClusterType, Passed

\* What a pass reports is a status.
LEMMA ReportTyped ==
  ASSUME NEW r0 \in ClusterType, NEW c \in Cluster, NEW t \in TargetType, NEW wasReady \in BOOLEAN
  PROVE  LET r == refreshClusterTokenExpiration(c, r0)
         IN r \in ClusterType /\ Verdict(r, t, wasReady) \in ClusterType /\ NotReady(r) \subseteq ClusterType
<1> DEFINE r == refreshClusterTokenExpiration(c, r0)
<1>1. r \in ClusterType
  BY DEF refreshClusterTokenExpiration, ClusterType
<1> HIDE DEF r
<1>2. ASSUME NEW x \in ClusterType, NEW reason \in Waiting PROVE Waits(x, reason) \in ClusterType
  BY DEF Waits, ClusterType
<1>3. diagnoseVeleroStatusPending(t) \in Waiting /\ "VeleroRuntimeNotReady" \in Waiting
  BY DEF diagnoseVeleroStatusPending, Waiting
<1>4. [r EXCEPT !.version = TRUE] \in ClusterType
      /\ [r EXCEPT !.version = TRUE, !.status = "Ready", !.reason = "", !.observed = r.gen] \in ClusterType
  BY <1>1 DEF ClusterType
<1>5. Verdict(r, t, wasReady) \in ClusterType
  BY <1>1, <1>2, <1>3, <1>4 DEF Verdict
<1>6. ASSUME NEW reason \in {"Failed", r.reason}, NEW version \in BOOLEAN
      PROVE  [r EXCEPT !.status = "NotReady", !.reason = reason, !.version = version] \in ClusterType
  BY <1>1 DEF ClusterType
<1>7. NotReady(r) \subseteq ClusterType
  <2> SUFFICES ASSUME NEW new \in NotReady(r) PROVE new \in ClusterType
    OBVIOUS
  <2>1. r.version \in BOOLEAN
    BY <1>1 DEF ClusterType
  <2>2. \E reason \in {"Failed", r.reason}, version \in {r.version, FALSE, TRUE} :
          new = [r EXCEPT !.status = "NotReady", !.reason = reason, !.version = version]
    BY DEF NotReady
  <2> QED BY <1>6, <2>1, <2>2
<1> QED BY <1>1, <1>5, <1>7 DEF r

\* The first generations are within the bound.
LEMMA GenBounds == 0 \in 0..MaxGen /\ 1 \in 0..MaxGen
<1>1. MaxGen \in Nat /\ MaxGen # 0
  BY FleetAssumption
<1> QED BY <1>1

\* Users, and the beginning of a pass.
LEMMA UsersKeepFleet ==
  ASSUME FleetInv, NEW c \in Cluster, UNCHANGED <<repo, s3>>,
         Create(c) \/ Edit(c) \/ Delete(c) \/ Prepare(c) \/ Read(c)
  PROVE  FleetInv'
<1>t. cl[c] \in ClusterType /\ cl \in [Cluster -> ClusterType] /\ target[c] \in TargetType
      /\ (target[c].ours => Passed(cl[c])) /\ PassOK(pass, cl)
  BY DEF FleetInv
<1>n. UNCHANGED target
  BY DEF Create, Edit, Delete, Prepare, Read
<1>1. ASSUME NEW x, Onward(cl[c], x), cl' = [cl EXCEPT ![c] = x] \/ UNCHANGED cl,
             pass' = pass \/ PassOK(pass', cl')
      PROVE  FleetInv'
  BY <1>1, <1>n, OneCluster, LeftAlone, CarefulStep
<1>2. CASE Create(c)
  <2>1. PICK old \in BOOLEAN :
          cl' = [cl EXCEPT ![c] = [NoCluster EXCEPT !.obj = "live", !.old = old, !.gen = 1, !.want = Wanted(c)]]
    BY <1>2 DEF Create
  <2> DEFINE x == [NoCluster EXCEPT !.obj = "live", !.old = old, !.gen = 1, !.want = Wanted(c)]
  <2>2. x \in ClusterType /\ x.obj # "none"
    BY GenBounds DEF NoCluster, ClusterType, Wanted, Config
  <2>3. cl[c].obj = "none" /\ pass' = pass
    BY <1>2 DEF Create
  <2>4. Onward(cl[c], x)
    BY <2>2, <2>3 DEF Onward, Passed
  <2> HIDE DEF x
  <2> QED BY <1>1, <2>1, <2>3, <2>4 DEF x
<1>3. CASE Edit(c)
  <2> DEFINE x == [cl[c] EXCEPT !.gen = @ + 1, !.want = IF @ = "plain" THEN "registry" ELSE "plain",
                                !.early = @ \/ cl[c].observed = 0]
  <2>1. cl' = [cl EXCEPT ![c] = x] /\ pass' = pass
    BY <1>t, <1>3 DEF Edit
  <2>2. cl[c].gen + 1 \in 0..MaxGen
    <3>1. cl[c].gen \in 0..MaxGen /\ cl[c].gen < MaxGen
      BY <1>t, <1>3 DEF Edit, ClusterType
    <3>2. MaxGen \in Nat
      BY FleetAssumption
    <3> QED BY <3>1, <3>2
  <2>3. x \in ClusterType /\ x.obj = cl[c].obj /\ x.accepted = cl[c].accepted
    BY <1>t, <2>2 DEF ClusterType, Config
  <2> HIDE DEF x
  <2>4. Onward(cl[c], x)
    BY <2>3 DEF Onward, Passed
  <2> QED BY <1>1, <2>1, <2>4
<1>4. CASE Delete(c)
  <2>1. PICK uninstall \in BOOLEAN :
          cl' = [cl EXCEPT ![c].uninstall = uninstall,
                           ![c].obj = IF cl[c].stage = "ready" THEN "deleting" ELSE "gone"]
    BY <1>4 DEF Delete
  <2> DEFINE x == [cl[c] EXCEPT !.uninstall = uninstall,
                                !.obj = IF cl[c].stage = "ready" THEN "deleting" ELSE "gone"]
  <2>2. cl' = [cl EXCEPT ![c] = x] /\ pass' = pass
    BY <1>t, <1>4, <2>1 DEF Delete
  <2>3. Onward(cl[c], x)
    BY <1>t DEF ClusterType, Onward, Passed
  <2> HIDE DEF x
  <2> QED BY <1>1, <2>2, <2>3
<1>5. CASE Prepare(c)
  <2>1. CASE cl' = [cl EXCEPT ![c].stage = "labelled"]
    <3> DEFINE x == [cl[c] EXCEPT !.stage = "labelled"]
    <3>1. cl' = [cl EXCEPT ![c] = x] /\ pass' = pass
      BY <1>t, <1>5, <2>1 DEF Prepare
    <3>2. Onward(cl[c], x)
      BY <1>t DEF ClusterType, Onward, Passed
    <3> HIDE DEF x
    <3> QED BY <1>1, <3>1, <3>2
  <2>2. CASE cl' = [cl EXCEPT ![c].stage = "ready", ![c].status = "Pending"]
    <3> DEFINE x == [cl[c] EXCEPT !.stage = "ready", !.status = "Pending"]
    <3>1. cl' = [cl EXCEPT ![c] = x] /\ pass' = pass
      BY <1>t, <1>5, <2>2 DEF Prepare
    <3>2. Onward(cl[c], x)
      BY <1>t DEF ClusterType, Onward, Passed
    <3> HIDE DEF x
    <3> QED BY <1>1, <3>1, <3>2
  <2> QED BY <1>5, <2>1, <2>2 DEF Prepare
<1>6. CASE Read(c)
  <2>1. cl' = cl /\ cl[c].obj = "live"
        /\ pass' = [at |-> IF cl[c].accepted THEN "work" ELSE "gate", c |-> c, read |-> cl[c],
                    wasReady |-> cl[c].status = "Ready"]
    BY <1>6 DEF Read
  <2>2. pass' \in PassType /\ pass'.c = c /\ (pass'.at = "work" => cl[c].accepted)
    BY <1>t, <2>1 DEF PassType
  <2>3. PassOK(pass', cl')
    BY <2>1, <2>2 DEF PassOK, Passed
  <2>4. Onward(cl[c], cl[c])
    BY <1>t DEF Onward
  <2> QED BY <1>1, <2>1, <2>3, <2>4
<1> QED BY <1>2, <1>3, <1>4, <1>5, <1>6

\* The gate lets no Cluster through that it did not accept.
LEMMA GateKeepsFleet ==
  ASSUME FleetInv, UNCHANGED <<repo, s3>>, Gate
  PROVE  FleetInv'
<1> DEFINE c == pass.c
<1>t. /\ pass \in PassType /\ c \in Cluster /\ cl \in [Cluster -> ClusterType]
      /\ cl[c] \in ClusterType /\ cl[c].obj # "none" /\ pass.read \in ClusterType
      /\ pass.at = "gate"
  BY DEF FleetInv, PassOK, PassType, Gate
<1>n. UNCHANGED target
  BY DEF Gate
<1>1. ASSUME NEW x, Onward(cl[c], x), cl' = [cl EXCEPT ![c] = x] \/ UNCHANGED cl,
             pass' = pass \/ PassOK(pass', cl')
      PROVE  FleetInv'
  BY <1>1, <1>n, <1>t, OneCluster, LeftAlone, CarefulStep
<1>i. PassOK(NoPass, cl')
  BY DEF PassOK
<1>2. CASE cl[c].obj = "deleting" /\ pass' = [pass EXCEPT !.at = "work"] /\ UNCHANGED cl
  <2>1. pass' \in PassType /\ pass'.c = c
    BY <1>t, <1>2 DEF PassType
  <2>2. PassOK(pass', cl')
    BY <1>2, <2>1 DEF PassOK, Passed
  <2>3. Onward(cl[c], cl[c])
    BY <1>t DEF Onward
  <2> QED BY <1>1, <1>2, <2>2, <2>3
<1>3. CASE acceptCluster(c)
  <2>1. CASE /\ cl' = [cl EXCEPT ![c].accepted = TRUE]
             /\ pass' = [pass EXCEPT !.at = "work", !.read.gen = cl[c].gen, !.read.accepted = TRUE,
                                             !.read.ensure = cl[c].ensure]
    <3> DEFINE x == [cl[c] EXCEPT !.accepted = TRUE]
    <3>1. cl' = [cl EXCEPT ![c] = x]
      BY <1>t, <2>1
    <3>2. x \in ClusterType /\ x.accepted /\ x.obj # "none"
      BY <1>t DEF ClusterType
    <3>3. Onward(cl[c], x) /\ Passed(x)
      BY <3>2 DEF Onward, Passed
    <3>4. pass' \in PassType /\ pass'.c = c
      <4>1. pass'.read = [pass.read EXCEPT !.gen = cl[c].gen, !.accepted = TRUE,
                                           !.ensure = cl[c].ensure]
            /\ pass' = [pass EXCEPT !.at = "work", !.read = pass'.read]
        BY <1>t, <2>1 DEF PassType, ClusterType
      <4>2. pass'.read \in ClusterType
        BY <1>t, <4>1 DEF ClusterType
      <4> QED BY <1>t, <4>1, <4>2 DEF PassType
    <3>5. PassOK(pass', cl')
      BY <1>t, <3>1, <3>2, <3>3, <3>4 DEF PassOK
    <3> HIDE DEF x
    <3> QED BY <1>1, <3>1, <3>3, <3>5
  <2>2. CASE /\ cl' = [cl EXCEPT ![c].status = "NotReady", ![c].reason = "LicenseInvalid"]
             /\ pass' = NoPass
    <3> DEFINE x == [cl[c] EXCEPT !.status = "NotReady", !.reason = "LicenseInvalid"]
    <3>1. cl' = [cl EXCEPT ![c] = x]
      BY <1>t, <2>2
    <3>2. Onward(cl[c], x)
      BY <1>t DEF ClusterType, Onward, Passed
    <3> HIDE DEF x
    <3> QED BY <1>1, <1>i, <2>2, <3>1, <3>2
  <2> QED BY <1>3, <2>1, <2>2 DEF acceptCluster
<1>4. CASE refuse(c)
  <2> DEFINE new == [pass.read EXCEPT !.status = "NotReady", !.reason = "LicenseLimitExceeded"]
  <2>1. new \in ClusterType
    BY <1>t DEF ClusterType
  <2>2. pass' = NoPass /\ (cl' = [cl EXCEPT ![c] = StatusOf(new, cl[c])] \/ UNCHANGED cl)
    BY <1>4, <1>t DEF refuse, updateClusterStatus
  <2> HIDE DEF new
  <2>3. Onward(cl[c], StatusOf(new, cl[c]))
    BY <1>t, <2>1, StatusOnward
  <2> QED BY <1>1, <1>i, <2>2, <2>3
<1> QED BY <1>2, <1>3, <1>4 DEF Gate

\* Velero is installed by a pass that has left the gate.
LEMMA WorkKeepsFleet ==
  ASSUME FleetInv, UNCHANGED <<repo, s3>>, Work
  PROVE  FleetInv'
<1> DEFINE c == pass.c
           r == refreshClusterTokenExpiration(c, pass.read)
           t == InstallVelero(r, target[c])
<1>t. /\ pass \in PassType /\ c \in Cluster /\ cl \in [Cluster -> ClusterType]
      /\ cl[c] \in ClusterType /\ target[c] \in TargetType
      /\ pass.read \in ClusterType /\ pass.wasReady \in BOOLEAN
      /\ Passed(cl[c])
  BY DEF FleetInv, PassOK, PassType, Work
<1>r. r \in ClusterType
  BY <1>t, ReportTyped
<1> HIDE DEF r
<1>1. t \in TargetType
  <2>1. buildVeleroValuesFile(r) \in Config
    BY <1>r DEF buildVeleroValuesFile, ClusterType
  <2>2. [target[c] EXCEPT !.velero = buildVeleroValuesFile(r), !.ours = TRUE,
                          !.up = @ /\ target[c].velero = buildVeleroValuesFile(r)] \in TargetType
    BY <1>t, <2>1 DEF TargetType
  <2> QED BY <1>t, <2>2 DEF InstallVelero
<1>2. Careful(cl[c], target[c], t)
  BY <1>1, <1>t DEF Careful
<1> HIDE DEF t
<1>3. Verdict(r, t, pass.wasReady) \in ClusterType /\ NotReady(r) \subseteq ClusterType
  BY <1>1, <1>t, ReportTyped DEF r
<1>4. pass' = NoPass /\ (target' = [target EXCEPT ![c] = t] \/ UNCHANGED target)
  BY DEF Work, r, t
<1>5. \E new \in ClusterType : cl' = [cl EXCEPT ![c] = StatusOf(new, cl[c])] \/ UNCHANGED cl
  <2>1. CASE updateClusterStatus(c, Verdict(r, t, pass.wasReady))
    BY <1>3, <2>1, <1>t DEF updateClusterStatus
  <2>2. ASSUME NEW new \in NotReady(r), cl' = [cl EXCEPT ![c] = StatusOf(new, @)]
        PROVE  \E x \in ClusterType : cl' = [cl EXCEPT ![c] = StatusOf(x, cl[c])] \/ UNCHANGED cl
    BY <1>3, <2>2, <1>t
  <2> QED BY <2>1, <2>2 DEF Work, r, t
<1>6. PICK new \in ClusterType : cl' = [cl EXCEPT ![c] = StatusOf(new, cl[c])] \/ UNCHANGED cl
  BY <1>5
<1>7. Onward(cl[c], StatusOf(new, cl[c]))
  BY <1>t, StatusOnward
<1>8. PassOK(pass', cl')
  BY <1>4 DEF PassOK
<1>9. cl' = [d \in Cluster |-> cl'[d]] /\ \A d \in Cluster : Onward(cl[d], cl'[d])
  BY <1>t, <1>6, <1>7, OneCluster
<1>10. target' = [d \in Cluster |-> target'[d]] /\ \A d \in Cluster : Careful(cl[d], target[d], target'[d])
  BY <1>t, <1>2, <1>4, OneTarget
<1> QED BY <1>8, <1>9, <1>10, LeftAlone, CarefulStep

\* The deletion of a Cluster installs nothing.
LEMMA DeletionKeepsFleet ==
  ASSUME FleetInv, UNCHANGED <<repo, s3>>, NEW c \in Cluster, handleDelete(c)
  PROVE  FleetInv'
<1>t. /\ cl \in [Cluster -> ClusterType] /\ target \in [Cluster -> TargetType]
      /\ cl[c] \in ClusterType /\ target[c] \in TargetType
      /\ pass' = pass
  BY DEF FleetInv, handleDelete
<1>1. \E x : Onward(cl[c], x) /\ cl' = [cl EXCEPT ![c] = x]
  <2>1. CASE cl' = [cl EXCEPT ![c].status = "Deleting", ![c].reason = "Deleting"]
    <3> DEFINE x == [cl[c] EXCEPT !.status = "Deleting", !.reason = "Deleting"]
    <3>1. cl' = [cl EXCEPT ![c] = x]
      BY <1>t, <2>1
    <3>2. Onward(cl[c], x)
      BY <1>t DEF ClusterType, Onward, Passed
    <3> QED BY <3>1, <3>2
  <2>2. CASE cl' = [cl EXCEPT ![c].obj = "gone"]
    <3> DEFINE x == [cl[c] EXCEPT !.obj = "gone"]
    <3>1. cl' = [cl EXCEPT ![c] = x]
      BY <1>t, <2>2
    <3>2. Onward(cl[c], x)
      BY <1>t DEF ClusterType, Onward, Passed
    <3> QED BY <3>1, <3>2
  <2>3. CASE cl' = [cl EXCEPT ![c].reason = "Failed"]
    <3> DEFINE x == [cl[c] EXCEPT !.reason = "Failed"]
    <3>1. cl' = [cl EXCEPT ![c] = x]
      BY <1>t, <2>3
    <3>2. Onward(cl[c], x)
      BY <1>t DEF ClusterType, Onward, Passed
    <3> QED BY <3>1, <3>2
  <2> QED BY <2>1, <2>2, <2>3 DEF handleDelete, MarkDeleting, Finalize, Gone
<1>2. \E t : Careful(cl[c], target[c], t) /\ (target' = [target EXCEPT ![c] = t] \/ UNCHANGED target)
  <2>1. Careful(cl[c], target[c], Uninstalled(target[c]))
    BY <1>t DEF Careful, Uninstalled, TargetType
  <2>2. Careful(cl[c], target[c], Residual(target[c]))
    BY <1>t DEF Careful, Residual, TargetType
  <2>3. \/ UNCHANGED target
        \/ target' = [target EXCEPT ![c] = Uninstalled(target[c])]
        \/ target' = [target EXCEPT ![c] = Residual(target[c])]
    <3>1. CASE MarkDeleting(c)
      BY <3>1 DEF MarkDeleting
    <3>2. CASE Finalize(c)
      BY <1>t, <3>2 DEF Finalize
    <3> QED BY <3>1, <3>2 DEF handleDelete
  <2> QED BY <2>1, <2>2, <2>3
<1>3. cl' = [d \in Cluster |-> cl'[d]] /\ \A d \in Cluster : Onward(cl[d], cl'[d])
  BY <1>1, OneCluster
<1>4. target' = [d \in Cluster |-> target'[d]] /\ \A d \in Cluster : Careful(cl[d], target[d], target'[d])
  BY <1>2, OneTarget
<1> QED BY <1>t, <1>3, <1>4, LeftAlone, CarefulStep

\* A storage location is applied to a target without installing anything.
LEMMA StorageIsCareful ==
  ASSUME FleetInv, NEW c \in Cluster
  PROVE  Careful(cl[c], target[c], ApplyStorageRepository(target[c]).t)
<1>t. target[c] \in TargetType /\ repo.rev \in Nat
  BY DEF FleetInv, RepoType
<1>1. Careful(cl[c], target[c], target[c])
  BY <1>t DEF Careful
<1>2. Careful(cl[c], target[c], [target[c] EXCEPT !.bsl = repo.rev, !.avail = FALSE])
  BY <1>t DEF Careful, TargetType
<1>3. Careful(cl[c], target[c], [target[c] EXCEPT !.bsl = repo.rev])
  BY <1>t DEF Careful, TargetType
<1> QED BY <1>1, <1>2, <1>3 DEF ApplyStorageRepository

\* The signal on a Cluster changes nothing else of it.
LEMMA EnsureOnward ==
  ASSUME NEW x \in ClusterType, NEW ensure \in BOOLEAN
  PROVE  Onward(x, [x EXCEPT !.ensure = ensure])
<1> DEFINE y == [x EXCEPT !.ensure = ensure]
<1>1. y \in ClusterType /\ y.obj = x.obj /\ y.accepted = x.accepted
  BY DEF ClusterType
<1> HIDE DEF y
<1>2. Onward(x, y)
  BY <1>1 DEF Onward, Passed
<1> QED BY <1>2 DEF y

\* The signal to apply a storage location, in the pass of its Cluster.
LEMMA EnsureStorageKeepsFleet ==
  ASSUME FleetInv, EnsureStorage
  PROVE  FleetInv'
<1> DEFINE c == pass.c
           r == refreshClusterTokenExpiration(c, pass.read)
           apply == IF repo.obj = "live" THEN ApplyStorageRepository(target[c])
                    ELSE [ok |-> TRUE, t |-> target[c]]
<1>t. /\ pass \in PassType /\ c \in Cluster /\ cl \in [Cluster -> ClusterType]
      /\ cl[c] \in ClusterType /\ target[c] \in TargetType
      /\ pass.read \in ClusterType /\ pass.wasReady \in BOOLEAN
  BY DEF FleetInv, PassOK, PassType, EnsureStorage
<1>r. r \in ClusterType
  BY <1>t, ReportTyped
<1>1. Careful(cl[c], target[c], apply.t)
  BY <1>t, StorageIsCareful DEF Careful
<1>2. Onward(cl[c], [cl[c] EXCEPT !.ensure = FALSE])
  BY <1>t, EnsureOnward
<1>3. Onward(cl[c], StatusOf(r, cl[c]))
  BY <1>t, <1>r, StatusOnward
<1> HIDE DEF r, apply
<1>4. /\ target' = [target EXCEPT ![c] = apply.t]
      /\ \/ cl' = [cl EXCEPT ![c] = [cl[c] EXCEPT !.ensure = FALSE]]
         \/ cl' = [cl EXCEPT ![c] = StatusOf(r, cl[c])]
      /\ pass' = NoPass /\ UNCHANGED <<repo, s3>>
  BY <1>t DEF EnsureStorage, r, apply, storageVars
<1>5. target' = [d \in Cluster |-> target'[d]] /\ \A d \in Cluster : Careful(cl[d], target[d], target'[d])
  BY <1>t, <1>1, <1>4, OneTarget
<1>6. cl' = [d \in Cluster |-> cl'[d]] /\ \A d \in Cluster : Onward(cl[d], cl'[d])
  BY <1>t, <1>2, <1>3, <1>4, OneCluster
<1>7. PassOK(pass', cl')
  BY <1>4 DEF PassOK
<1> QED BY <1>4, <1>5, <1>6, <1>7, LeftAlone, CarefulStep

\* The pass over the DisasterConfig.
LEMMA ConfigKeepsFleet ==
  ASSUME FleetInv, ReconcileConfig
  PROVE  FleetInv'
<1>1. target' = target \/ target' = ApplyBoth.target
  BY DEF ReconcileConfig
<1>2. UNCHANGED <<cl, pass, repo, s3>>
  BY DEF ReconcileConfig
<1>t. target \in [Cluster -> TargetType] /\ Source \in Cluster /\ Target \in Cluster /\ Source # Target
  BY PlatformAssumption DEF FleetInv
<1>3. ASSUME target' = ApplyBoth.target
      PROVE  /\ target' = [d \in Cluster |-> target'[d]]
             /\ \A d \in Cluster : Careful(cl[d], target[d], target'[d])
  <2> DEFINE s == ApplyStorageRepository(target[Source])
             t == ApplyStorageRepository(target[Target])
  <2>1. Careful(cl[Source], target[Source], s.t) /\ Careful(cl[Target], target[Target], t.t)
    BY <1>t, StorageIsCareful
  <2>2. \A d \in Cluster : Careful(cl[d], target[d], target[d])
    BY <1>t DEF Careful
  <2> HIDE DEF s, t
  <2>3. target' = [target EXCEPT ![Source] = s.t, ![Target] = IF s.ok THEN t.t ELSE @]
    BY <1>3 DEF ApplyBoth, s, t
  <2>4. target' = [d \in Cluster |-> target'[d]]
    BY <1>t, <2>3
  <2>5. ASSUME NEW d \in Cluster PROVE target'[d] \in {target[d], s.t, t.t} /\ Careful(cl[d], target[d], target'[d])
    BY <1>t, <2>1, <2>2, <2>3
  <2> QED BY <2>4, <2>5
<1> QED BY <1>1, <1>2, <1>3, LeftAlone, CarefulStep

\* Velero, the restart of the operator, signals, and edits of the storage.
LEMMA EnvironmentKeepsFleet ==
  ASSUME FleetInv,
         \/ Disturb /\ UNCHANGED <<repo, s3>>
         \/ \E c \in Cluster : (VeleroStarts(c) /\ UNCHANGED <<repo, s3>>) \/ ValidateLocation(c)
         \/ SignalStorage \/ EditStorage \/ ReconcileRepository
  PROVE  FleetInv'
<1>t. /\ cl \in [Cluster -> ClusterType] /\ target \in [Cluster -> TargetType]
      /\ repo \in RepoType /\ s3 \in BOOLEAN /\ PassOK(NoPass, cl')
  BY DEF FleetInv, PassOK
<1>1. ASSUME NEW c \in Cluster, NEW t \in TargetType, t.ours = target[c].ours,
             target' = [target EXCEPT ![c] = t], UNCHANGED <<cl, pass, repo, s3>>
      PROVE  FleetInv'
  <2>1. Careful(cl[c], target[c], t)
    BY <1>1 DEF Careful
  <2>2. /\ target' = [d \in Cluster |-> target'[d]]
        /\ \A d \in Cluster : Careful(cl[d], target[d], target'[d])
    BY <1>1, <2>1, OneTarget
  <2> QED BY <1>1, <2>2, LeftAlone, CarefulStep
<1>2. CASE Disturb /\ UNCHANGED <<repo, s3>>
  <2>1. ASSUME NEW c \in Cluster,
               target' \in {[target EXCEPT ![c].up = FALSE], [target EXCEPT ![c].answered = FALSE]},
               UNCHANGED <<cl, pass>>
        PROVE  FleetInv'
    <3> DEFINE u == [target[c] EXCEPT !.up = FALSE]
               a == [target[c] EXCEPT !.answered = FALSE]
    <3>1. u \in TargetType /\ u.ours = target[c].ours /\ a \in TargetType /\ a.ours = target[c].ours
      BY <1>t DEF TargetType
    <3>2. target' = [target EXCEPT ![c] = u] \/ target' = [target EXCEPT ![c] = a]
      BY <1>t, <2>1
    <3> HIDE DEF u, a
    <3> QED BY <1>1, <1>2, <2>1, <3>1, <3>2
  <2>2. CASE pass' = NoPass /\ UNCHANGED <<cl, target>>
    BY <1>2, <1>t, <2>2, LeftAlone, CarefulStep
  <2> QED BY <1>2, <2>1, <2>2 DEF Disturb
<1>3. ASSUME NEW c \in Cluster, VeleroStarts(c), UNCHANGED <<repo, s3>> PROVE FleetInv'
  <2> DEFINE t == [target[c] EXCEPT !.up = TRUE, !.answered = TRUE]
  <2>1. t \in TargetType /\ t.ours = target[c].ours
    BY <1>t DEF TargetType
  <2>2. target' = [target EXCEPT ![c] = t] /\ UNCHANGED <<cl, pass>>
    BY <1>t, <1>3 DEF VeleroStarts
  <2> HIDE DEF t
  <2> QED BY <1>1, <1>3, <2>1, <2>2
<1>4. ASSUME NEW c \in Cluster, ValidateLocation(c) PROVE FleetInv'
  <2> DEFINE t == [target[c] EXCEPT !.avail = s3]
  <2>1. t \in TargetType /\ t.ours = target[c].ours
    BY <1>t DEF TargetType
  <2>2. target' = [target EXCEPT ![c] = t] /\ UNCHANGED <<cl, pass, repo, s3>>
    BY <1>t, <1>4 DEF ValidateLocation, storageVars
  <2> HIDE DEF t
  <2> QED BY <1>1, <2>1, <2>2
<1>5. CASE SignalStorage
  <2>1. PICK c \in Cluster : cl' = [cl EXCEPT ![c].ensure = TRUE]
    BY <1>5 DEF SignalStorage
  <2> DEFINE x == [cl[c] EXCEPT !.ensure = TRUE]
  <2>2. cl' = [cl EXCEPT ![c] = x] /\ UNCHANGED <<target, pass, repo, s3>>
    BY <1>t, <1>5, <2>1 DEF SignalStorage, storageVars
  <2>3. Onward(cl[c], x)
    BY <1>t, EnsureOnward
  <2> HIDE DEF x
  <2> QED BY <2>2, <2>3, OneCluster, LeftAlone, CarefulStep
<1>6. CASE EditStorage \/ ReconcileRepository
  <2>1. UNCHANGED <<cl, target, pass>>
    BY <1>6 DEF EditStorage, ReconcileRepository
  <2>2. s3' \in BOOLEAN
    BY <1>6, <1>t DEF EditStorage, DeleteRepository, DeleteConfig, ReconcileRepository
  <2>3. CASE EditStorage
    <3>1. repo.rev + 1 \in Nat
      <4>1. repo.rev \in Nat
        BY <1>t DEF RepoType
      <4> QED BY <4>1
    <3>2. [repo EXCEPT !.rev = @ + 1] \in RepoType /\ [repo EXCEPT !.obj = "gone"] \in RepoType
      BY <1>t, <3>1 DEF RepoType
    <3>3. repo' \in {repo, [repo EXCEPT !.rev = @ + 1], [repo EXCEPT !.obj = "gone"]}
      BY <2>3 DEF EditStorage, DeleteRepository, DeleteConfig
    <3> QED BY <1>t, <2>1, <2>2, <3>2, <3>3, LeftAlone, CarefulStep
  <2>4. CASE ReconcileRepository
    <3>1. repo' \in RepoType
      BY <1>t, <2>4 DEF ReconcileRepository, ValidateS3Configuration, RepoType
    <3> QED BY <2>1, <2>2, <3>1, LeftAlone, CarefulStep
  <2> QED BY <1>6, <2>3, <2>4
<1> QED BY <1>2, <1>3, <1>4, <1>5, <1>6

\* The invariant holds at the beginning ...
LEMMA FleetStarts == Init => FleetInv
<1> SUFFICES ASSUME Init PROVE FleetInv
  OBVIOUS
<1>0. pass = NoPass /\ s3 \in BOOLEAN
  BY DEF Init, FleetInit
<1>1. CASE part = "config"
  <2>1. ASSUME NEW c \in Cluster PROVE Settled(c) \in ClusterType /\ Passed(Settled(c))
    <3>1. Wanted(c) \in Config
      BY DEF Wanted, Config
    <3> QED BY <3>1, GenBounds DEF Settled, NoCluster, ClusterType, Passed
  <2>2. ASSUME NEW c \in Cluster
        PROVE  [velero |-> Wanted(c), ours |-> TRUE, up |-> TRUE, answered |-> TRUE,
                bsl |-> 0, avail |-> FALSE] \in TargetType
    BY DEF TargetType, Wanted, Config
  <2>3. repo \in RepoType
    <3>1. repo = [NoRepo EXCEPT !.obj = "live", !.rev = 1]
      BY <1>1 DEF Init
    <3> QED BY <3>1 DEF NoRepo, RepoType
  <2>4. cl = [c \in Cluster |-> Settled(c)]
        /\ target = [c \in Cluster |-> [velero |-> Wanted(c), ours |-> TRUE, up |-> TRUE,
                                        answered |-> TRUE, bsl |-> 0, avail |-> FALSE]]
    BY <1>1 DEF Init
  <2> QED BY <1>0, <2>1, <2>2, <2>3, <2>4 DEF FleetInv, PassOK
<1>2. CASE part # "config"
  <2>1. cl = [c \in Cluster |-> NoCluster] /\ repo = NoRepo
        /\ target = [c \in Cluster |-> [velero |-> IF c \in HasVelero THEN "plain" ELSE "absent",
                                        ours |-> FALSE, up |-> FALSE, answered |-> FALSE,
                                        bsl |-> 0, avail |-> FALSE]]
    BY <1>2 DEF Init, FleetInit
  <2>2. NoCluster \in ClusterType
    BY GenBounds DEF NoCluster, ClusterType, Config
  <2>3. repo \in RepoType
    BY <2>1 DEF NoRepo, RepoType
  <2>4. target \in [Cluster -> TargetType] /\ \A c \in Cluster : ~target[c].ours
    BY <2>1 DEF TargetType, Config
  <2> QED BY <1>0, <2>1, <2>2, <2>3, <2>4 DEF FleetInv, PassOK
<1> QED BY <1>1, <1>2

\* ... and every step keeps it.
LEMMA FleetKept == FleetInv /\ [Next]_vars => FleetInv'
<1> SUFFICES ASSUME FleetInv, [Next]_vars PROVE FleetInv'
  OBVIOUS
<1>s. rest' = rest => UNCHANGED <<repo, s3>>
  BY DEF rest, storageVars
<1>0. CASE UNCHANGED <<cl, target, pass, repo, s3>>
  BY <1>0, LeftAlone, CarefulStep
<1>1. CASE UNCHANGED vars
  BY <1>0, <1>1 DEF vars
<1>2. CASE FleetUser \/ ConfigUser
  <2>1. CASE InstallLicense /\ UNCHANGED rest
    BY <1>0, <1>s, <2>1 DEF InstallLicense
  <2>2. ASSUME NEW c \in Cluster, Create(c) \/ Edit(c) \/ Delete(c), UNCHANGED rest PROVE FleetInv'
    BY <1>s, <2>2, UsersKeepFleet
  <2> QED BY <1>2, <2>1, <2>2 DEF FleetUser, ConfigUser, UserStep
<1>3. ASSUME NEW c \in Cluster, FleetStart(c) PROVE FleetInv'
  BY <1>s, <1>3, UsersKeepFleet, DeletionKeepsFleet DEF FleetStart, StartPass
<1>4. CASE FleetContinue
  BY <1>s, <1>4, GateKeepsFleet, WorkKeepsFleet DEF FleetContinue, ContinuePass
<1>5. CASE FleetDeliver
  BY <1>0, <1>s, <1>5 DEF FleetDeliver, Deliver
<1>6. ASSUME NEW c \in Cluster, FleetVelero(c) PROVE FleetInv'
  BY <1>s, <1>6, EnvironmentKeepsFleet DEF FleetVelero
<1>7. CASE FleetDisturb
  BY <1>s, <1>7, EnvironmentKeepsFleet DEF FleetDisturb
<1>8. CASE ReconcileGroup \/ InstanceChanges \/ EditGroup
  BY <1>0, <1>8 DEF ReconcileGroup, InstanceChanges, EditGroup, storageVars
<1>9. CASE MemoryUser \/ RuntimePass \/ \E s \in Sync : SyncPass(s)
  BY <1>0, <1>9 DEF MemoryUser, RuntimePass, SyncPass, others, fleetVars, storageVars
<1> QED BY <1>1, <1>2, <1>3, <1>4, <1>5, <1>6, <1>7, <1>8, <1>9,
           EnvironmentKeepsFleet, EnsureStorageKeepsFleet, ConfigKeepsFleet DEF Next

\* No target has a Velero that the operator installed for a Cluster the license
\* gate did not accept, unless users have deleted the Cluster: whatever users
\* do between the steps of a pass, whatever fails, and with any number of
\* Clusters and any limits (ensureClusterLicenseAccepted comes before the work
\* on the target).
THEOREM GateComesFirst == Spec => []InstalledMeansAccepted
<1>1. FleetInv => InstalledMeansAccepted
  BY DEF FleetInv, InstalledMeansAccepted, Passed
<1> QED BY <1>1, FleetStarts, FleetKept, PTL DEF Spec

(***************************************************************************)
(* The limit of the license.                                               *)
(***************************************************************************)
Accepted(x) == x.obj = "live" /\ x.accepted
Counted == {c \in Cluster : cl[c].obj = "live" /\ ~cl[c].old /\ cl[c].accepted}

\* As long as the cache has not lagged, the gate sees every accepted Cluster.
LimitInv ==
  /\ limit \in Nat /\ top \in Nat /\ limit <= top
  /\ lag \in BOOLEAN /\ seen \in SUBSET Cluster
  /\ ~lag => \A c \in Cluster : Accepted(cl[c]) => c \in seen
  /\ ~lag => Cardinality(Counted) <= top

\* What every step but the acceptance may do to a Cluster.
Tame(x, y) == Accepted(y) => Accepted(x) /\ x.old = y.old

\* A set of Clusters within another is not larger.
LEMMA Smaller ==
  ASSUME NEW S \in SUBSET Cluster, NEW T \in SUBSET S
  PROVE  Cardinality(S) \in Nat /\ Cardinality(T) \in Nat /\ Cardinality(T) <= Cardinality(S)
<1>1. IsFiniteSet(S)
  BY FleetAssumption, FS_Subset
<1>2. IsFiniteSet(T)
  BY <1>1, FS_Subset
<1> QED BY <1>1, <1>2, FS_Subset, FS_CardinalityType

\* A step that accepts no Cluster, forgets only Clusters that are not accepted
\* any more, and does not lower the highest limit.
LEMMA TameStep ==
  ASSUME LimitInv, \A c \in Cluster : Tame(cl[c], cl'[c]),
         \A c \in Cluster : c \in seen /\ Accepted(cl'[c]) => c \in seen',
         seen' \in SUBSET Cluster, UNCHANGED lag,
         limit' \in Nat, top' \in Nat, limit' <= top', top <= top'
  PROVE  LimitInv'
<1>1. Counted' \subseteq Counted
  BY DEF Counted, Tame, Accepted
<1>2. Cardinality(Counted') \in Nat /\ Cardinality(Counted) \in Nat
      /\ Cardinality(Counted') <= Cardinality(Counted)
  <2>1. Counted \in SUBSET Cluster
    BY DEF Counted
  <2> QED BY <1>1, <2>1, Smaller
<1>3. ~lag' => Cardinality(Counted') <= top'
  <2>1. ~lag' => Cardinality(Counted) <= top
    BY DEF LimitInv
  <2>2. top \in Nat
    BY DEF LimitInv
  <2> QED BY <1>2, <2>1, <2>2
<1>4. ~lag' => \A c \in Cluster : Accepted(cl'[c]) => c \in seen'
  BY DEF LimitInv, Tame
<1> QED BY <1>3, <1>4 DEF LimitInv, Accepted

\* The same when the license stays.
LEMMA QuietStep ==
  ASSUME LimitInv, \A c \in Cluster : Tame(cl[c], cl'[c]),
         \A c \in Cluster : c \in seen /\ Accepted(cl'[c]) => c \in seen',
         seen' \in SUBSET Cluster, UNCHANGED <<lag, limit, top>>
  PROVE  LimitInv'
<1>1. limit \in Nat /\ top \in Nat /\ limit <= top
  BY DEF LimitInv
<1>2. limit' \in Nat /\ top' \in Nat /\ limit' <= top' /\ top <= top'
  BY <1>1
<1> QED BY <1>2, TameStep

\* One Cluster or none is written.
LEMMA OneTame ==
  ASSUME FleetInv, NEW c \in Cluster, NEW x, Tame(cl[c], x),
         cl' = [cl EXCEPT ![c] = x] \/ UNCHANGED cl
  PROVE  \A d \in Cluster : Tame(cl[d], cl'[d])
BY DEF FleetInv, Tame

\* The acceptance itself: the gate has counted the others.
LEMMA AcceptanceKeepsLimit ==
  ASSUME FleetInv, LimitInv, NEW c \in Cluster, cl[c].obj = "live",
         cl[c].old \/ CanAcceptCluster(c), acceptCluster(c), UNCHANGED <<limit, top>>
  PROVE  LimitInv'
<1>t. cl \in [Cluster -> ClusterType] /\ cl[c] \in ClusterType
  BY DEF FleetInv
<1>1. CASE cl' = [cl EXCEPT ![c].status = "NotReady", ![c].reason = "LicenseInvalid"] /\ UNCHANGED <<seen, lag>>
  <2> DEFINE x == [cl[c] EXCEPT !.status = "NotReady", !.reason = "LicenseInvalid"]
  <2>1. cl' = [cl EXCEPT ![c] = x] /\ Tame(cl[c], x)
    BY <1>t, <1>1 DEF Tame, Accepted, ClusterType
  <2> HIDE DEF x
  <2>2. \A d \in Cluster : Tame(cl[d], cl'[d])
    BY <2>1, OneTame
  <2>3. seen \in SUBSET Cluster
    BY DEF LimitInv
  <2> QED BY <1>1, <2>2, <2>3, QuietStep
<1>2. CASE cl' = [cl EXCEPT ![c].accepted = TRUE] /\ lag' = TRUE /\ UNCHANGED seen
  BY <1>2 DEF LimitInv
<1>3. CASE cl' = [cl EXCEPT ![c].accepted = TRUE] /\ seen' = seen \cup {c} /\ UNCHANGED lag
  <2> SUFFICES ASSUME ~lag PROVE LimitInv'
    BY <1>3 DEF LimitInv
  <2>1. \A d \in Cluster \ {c} : cl'[d] = cl[d]
    BY <1>t, <1>3
  <2>2. cl'[c].old = cl[c].old
    BY <1>t, <1>3 DEF ClusterType
  <2>3. \A d \in Cluster : Accepted(cl'[d]) => d \in seen'
    BY <1>3, <2>1 DEF LimitInv
  <2>4. Cardinality(Counted') <= top
    <3>1. CASE cl[c].old
      <4>1. Counted' \in SUBSET Counted /\ Counted \in SUBSET Cluster
        BY <2>1, <2>2, <3>1 DEF Counted
      <4>2. Cardinality(Counted) <= top /\ top \in Nat
        BY DEF LimitInv
      <4> QED BY <4>1, <4>2, Smaller
    <3>2. CASE CanAcceptCluster(c)
      <4>1. acceptedSiblings(c) \in SUBSET Cluster /\ Counted' \in SUBSET Cluster
        BY DEF acceptedSiblings, LimitInv, Counted
      <4>2. Counted' \ {c} \in SUBSET acceptedSiblings(c)
        BY <2>1 DEF Counted, acceptedSiblings, LimitInv, Accepted
      <4>3. Cardinality(acceptedSiblings(c)) < limit /\ limit \in Nat /\ top \in Nat /\ limit <= top
        BY <3>2 DEF CanAcceptCluster, LimitInv
      <4>4. /\ Cardinality(Counted' \ {c}) \in Nat
            /\ Cardinality(acceptedSiblings(c)) \in Nat
            /\ Cardinality(Counted' \ {c}) <= Cardinality(acceptedSiblings(c))
        BY <4>1, <4>2, Smaller
      <4>5. Cardinality(Counted') \in Nat
        BY <4>1, Smaller
      <4>6. Cardinality(Counted') <= Cardinality(Counted' \ {c}) + 1
        <5>1. IsFiniteSet(Counted')
          BY <4>1, FleetAssumption, FS_Subset
        <5> QED BY <4>5, <5>1, FS_RemoveElement
      <4> QED BY <4>3, <4>4, <4>5, <4>6
    <3> QED BY <3>1, <3>2
  <2> QED BY <1>3, <2>3, <2>4 DEF LimitInv
<1> QED BY <1>1, <1>2, <1>3 DEF acceptCluster

\* Users, and the beginning of a pass.
LEMMA UsersKeepLimit ==
  ASSUME FleetInv, LimitInv, UNCHANGED <<limit, top, lag>>, NEW c \in Cluster,
         Create(c) \/ Edit(c) \/ Delete(c) \/ Prepare(c) \/ Read(c) \/ handleDelete(c)
  PROVE  LimitInv'
<1>t. cl \in [Cluster -> ClusterType] /\ cl[c] \in ClusterType /\ seen \in SUBSET Cluster
  BY DEF FleetInv, LimitInv
<1>g. ASSUME NEW x, x.obj # "live", cl' = [cl EXCEPT ![c] = x] PROVE ~Accepted(cl'[c])
  BY <1>t, <1>g DEF Accepted
<1>d. ASSUME NEW uninstall,
             cl' = [cl EXCEPT ![c].uninstall = uninstall,
                              ![c].obj = IF cl[c].stage = "ready" THEN "deleting" ELSE "gone"]
      PROVE  ~Accepted(cl'[c]) /\ \A d \in Cluster : Tame(cl[d], cl'[d])
  <2> DEFINE x == [cl[c] EXCEPT !.uninstall = uninstall,
                                !.obj = IF cl[c].stage = "ready" THEN "deleting" ELSE "gone"]
  <2>1. cl' = [cl EXCEPT ![c] = x] /\ x.obj # "live"
    BY <1>t, <1>d DEF ClusterType
  <2> HIDE DEF x
  <2> QED BY <1>g, <2>1, OneTame DEF Tame, Accepted
<1>o. ASSUME cl' = [cl EXCEPT ![c].obj = "gone"]
      PROVE  ~Accepted(cl'[c]) /\ \A d \in Cluster : Tame(cl[d], cl'[d])
  <2> DEFINE x == [cl[c] EXCEPT !.obj = "gone"]
  <2>1. cl' = [cl EXCEPT ![c] = x] /\ x.obj # "live"
    BY <1>t, <1>o DEF ClusterType
  <2> HIDE DEF x
  <2> QED BY <1>g, <2>1, OneTame DEF Tame, Accepted
<1>1. \/ seen' = seen
      \/ seen' = seen \ {c} /\ ~Accepted(cl'[c])
  <2>1. CASE Create(c) \/ Edit(c) \/ Prepare(c) \/ Read(c) \/ MarkDeleting(c)
    BY <2>1 DEF Create, Edit, Prepare, Read, MarkDeleting
  <2>2. CASE Delete(c)
    BY <1>d, <2>2 DEF Delete
  <2>3. CASE Finalize(c)
    BY <1>o, <2>3 DEF Finalize, Gone
  <2> QED BY <2>1, <2>2, <2>3 DEF handleDelete
<1>2. \A d \in Cluster : Tame(cl[d], cl'[d])
  <2>1. CASE Create(c)
    <3>1. PICK old \in BOOLEAN :
            cl' = [cl EXCEPT ![c] = [NoCluster EXCEPT !.obj = "live", !.old = old, !.gen = 1, !.want = Wanted(c)]]
      BY <2>1 DEF Create
    <3>2. ~[NoCluster EXCEPT !.obj = "live", !.old = old, !.gen = 1, !.want = Wanted(c)].accepted
      BY DEF NoCluster
    <3> QED BY <3>1, <3>2, OneTame DEF Tame, Accepted
  <2>2. CASE Edit(c)
    <3> DEFINE x == [cl[c] EXCEPT !.gen = @ + 1, !.want = IF @ = "plain" THEN "registry" ELSE "plain",
                                  !.early = @ \/ cl[c].observed = 0]
    <3>1. cl' = [cl EXCEPT ![c] = x]
      BY <1>t, <2>2 DEF Edit
    <3>2. x.obj = cl[c].obj /\ x.accepted = cl[c].accepted /\ x.old = cl[c].old
      BY <1>t DEF ClusterType
    <3> HIDE DEF x
    <3> QED BY <3>1, <3>2, OneTame DEF Tame, Accepted
  <2>3. CASE Delete(c) \/ handleDelete(c)
    <3>1. CASE Delete(c)
      BY <1>d, <3>1 DEF Delete
    <3>2. CASE cl' = [cl EXCEPT ![c].obj = "gone"]
      BY <1>o, <3>2
    <3>3. CASE cl' = [cl EXCEPT ![c].reason = "Failed"]
      <4>1. LET x == [cl[c] EXCEPT !.reason = "Failed"] IN cl' = [cl EXCEPT ![c] = x] /\ Tame(cl[c], x)
        BY <1>t, <3>3 DEF Tame, Accepted, ClusterType
      <4> QED BY <4>1, OneTame
    <3>4. CASE MarkDeleting(c)
      <4>1. LET x == [cl[c] EXCEPT !.status = "Deleting", !.reason = "Deleting"]
            IN cl' = [cl EXCEPT ![c] = x] /\ Tame(cl[c], x)
        BY <1>t, <3>4 DEF MarkDeleting, Tame, Accepted, ClusterType
      <4> QED BY <4>1, OneTame
    <3> QED BY <2>3, <3>1, <3>2, <3>3, <3>4 DEF handleDelete, Finalize, Gone
  <2>4. CASE Prepare(c)
    <3>1. CASE cl' = [cl EXCEPT ![c].stage = "labelled"]
      <4>1. LET x == [cl[c] EXCEPT !.stage = "labelled"] IN cl' = [cl EXCEPT ![c] = x] /\ Tame(cl[c], x)
        BY <1>t, <3>1 DEF Tame, Accepted, ClusterType
      <4> QED BY <4>1, OneTame
    <3>2. CASE cl' = [cl EXCEPT ![c].stage = "ready", ![c].status = "Pending"]
      <4>1. LET x == [cl[c] EXCEPT !.stage = "ready", !.status = "Pending"]
            IN cl' = [cl EXCEPT ![c] = x] /\ Tame(cl[c], x)
        BY <1>t, <3>2 DEF Tame, Accepted, ClusterType
      <4> QED BY <4>1, OneTame
    <3> QED BY <2>4, <3>1, <3>2 DEF Prepare
  <2>5. CASE Read(c)
    BY <2>5 DEF Read, Tame
  <2> QED BY <2>1, <2>2, <2>3, <2>4, <2>5
<1>3. seen' \in SUBSET Cluster /\ \A d \in Cluster : d \in seen /\ Accepted(cl'[d]) => d \in seen'
  BY <1>t, <1>1
<1> QED BY <1>2, <1>3, QuietStep

\* The gate and the work on the target.
LEMMA PassKeepsLimit ==
  ASSUME FleetInv, LimitInv, UNCHANGED <<limit, top>>,
         Gate \/ Work \/ (EnsureStorage /\ UNCHANGED <<lag, seen>>)
  PROVE  LimitInv'
<1> DEFINE c == pass.c
<1>t. /\ c \in Cluster /\ cl \in [Cluster -> ClusterType] /\ cl[c] \in ClusterType
      /\ pass.read \in ClusterType /\ seen \in SUBSET Cluster
  BY DEF FleetInv, PassOK, PassType, Gate, Work, EnsureStorage, LimitInv
<1>1. ASSUME NEW x, Tame(cl[c], x), cl' = [cl EXCEPT ![c] = x] \/ UNCHANGED cl, UNCHANGED <<seen, lag>>
      PROVE  LimitInv'
  <2>1. \A d \in Cluster : Tame(cl[d], cl'[d])
    BY <1>t, <1>1, OneTame
  <2> QED BY <1>1, <1>t, <2>1, QuietStep
<1>2. ASSUME NEW new PROVE Tame(cl[c], StatusOf(new, cl[c]))
  <2>1. LET y == StatusOf(new, cl[c])
        IN y.obj = cl[c].obj /\ y.accepted = cl[c].accepted /\ y.old = cl[c].old
    BY <1>t DEF StatusOf, ClusterType
  <2> QED BY <2>1 DEF Tame, Accepted
<1>3. Tame(cl[c], cl[c])
  BY DEF Tame
<1>4. CASE Gate
  <2>1. CASE UNCHANGED <<cl, lag, seen>>
    BY <1>1, <1>3, <2>1
  <2>2. CASE cl[c].obj = "live" /\ (cl[c].old \/ CanAcceptCluster(c)) /\ acceptCluster(c)
    BY <1>t, <2>2, AcceptanceKeepsLimit
  <2>3. CASE refuse(c)
    <3>1. /\ UNCHANGED <<lag, seen>>
          /\ \E new : cl' = [cl EXCEPT ![c] = StatusOf(new, cl[c])] \/ UNCHANGED cl
      BY <1>t, <2>3 DEF refuse, updateClusterStatus
    <3> QED BY <1>1, <1>2, <3>1
  <2> QED BY <1>4, <2>1, <2>2, <2>3 DEF Gate
<1>5. CASE Work
  <2>1. /\ UNCHANGED <<lag, seen>>
        /\ \E new : cl' = [cl EXCEPT ![c] = StatusOf(new, cl[c])] \/ UNCHANGED cl
    BY <1>t, <1>5 DEF Work, updateClusterStatus
  <2> QED BY <1>1, <1>2, <2>1
<1>6. CASE EnsureStorage /\ UNCHANGED <<lag, seen>>
  <2>1. Tame(cl[c], [cl[c] EXCEPT !.ensure = FALSE])
    BY <1>t DEF Tame, Accepted, ClusterType
  <2>2. \E new : \/ cl' = [cl EXCEPT ![c] = StatusOf(new, cl[c])]
                 \/ cl' = [cl EXCEPT ![c] = [cl[c] EXCEPT !.ensure = FALSE]]
    BY <1>t, <1>6 DEF EnsureStorage
  <2> QED BY <1>1, <1>2, <1>6, <2>1, <2>2
<1> QED BY <1>4, <1>5, <1>6

\* As long as the informer cache is up to date, no more Clusters are accepted
\* than a license ever allowed, for any number of Clusters and any sequence of
\* licenses, whatever users do between the steps of a pass (CanAcceptCluster).
\* Clusters older than the gate do not count.
THEOREM LicenseLimitHolds == Spec => []LimitHolds
<1>1. Init => FleetInv /\ LimitInv
  <2> SUFFICES ASSUME Init PROVE FleetInv /\ LimitInv
    OBVIOUS
  <2>1. FleetInv
    BY FleetStarts
  <2>2. CASE part = "config"
    <3>1. Cardinality(Cluster) \in Nat /\ Counted \in SUBSET Cluster /\ Cluster \in SUBSET Cluster
      BY FleetAssumption, FS_CardinalityType DEF Counted
    <3>2. Cardinality(Counted) <= Cardinality(Cluster)
      BY <3>1, Smaller
    <3>3. limit = Cardinality(Cluster) /\ top = limit /\ lag = FALSE /\ seen = Cluster
      BY <2>2 DEF Init
    <3>4. limit \in Nat /\ top \in Nat /\ limit <= top /\ Cardinality(Counted) <= top
      BY <3>1, <3>2, <3>3
    <3> QED BY <2>1, <3>3, <3>4 DEF LimitInv
  <2>3. CASE part # "config"
    <3>1. limit \in Nat /\ top = limit /\ lag = FALSE /\ seen = {} /\ cl = [c \in Cluster |-> NoCluster]
      BY <2>3, FleetAssumption DEF Init, FleetInit
    <3>2. \A c \in Cluster : ~Accepted(cl[c])
      BY <3>1 DEF NoCluster, Accepted
    <3>3. Counted = {}
      BY <3>2 DEF Counted, Accepted
    <3>4. Cardinality(Counted) = 0
      BY <3>3, FS_EmptySet
    <3>5. top \in Nat /\ limit <= top /\ Cardinality(Counted) <= top
      BY <3>1, <3>4
    <3> QED BY <2>1, <3>1, <3>2, <3>5 DEF LimitInv
  <2> QED BY <2>2, <2>3
<1>2. FleetInv /\ [Next]_vars => FleetInv'
  BY FleetKept
<1>3. FleetInv /\ LimitInv /\ [Next]_vars => LimitInv'
  <2> SUFFICES ASSUME FleetInv, LimitInv, [Next]_vars PROVE LimitInv'
    OBVIOUS
  <2>t. seen \in SUBSET Cluster
    BY DEF LimitInv
  <2>0. CASE UNCHANGED <<cl, seen, lag, limit, top>>
    BY <2>t, <2>0, QuietStep DEF Tame
  <2>1. CASE UNCHANGED vars
    BY <2>0, <2>1 DEF vars
  <2>2. CASE FleetUser \/ ConfigUser
    <3>1. CASE InstallLicense
      <4>1. limit' \in Nat /\ limit \in Nat /\ top \in Nat
        BY <3>1, FleetAssumption DEF InstallLicense, LimitInv
      <4>2. top' = IF limit' > top THEN limit' ELSE top
        BY <3>1 DEF InstallLicense
      <4>3. top' \in Nat /\ limit' <= top' /\ top <= top'
        BY <4>1, <4>2
      <4>4. UNCHANGED <<cl, lag, seen>>
        BY <3>1 DEF InstallLicense
      <4> QED BY <2>t, <4>1, <4>3, <4>4, TameStep DEF Tame
    <3>2. ASSUME NEW c \in Cluster, Create(c) \/ Edit(c) \/ Delete(c) PROVE LimitInv'
      <4>1. UNCHANGED <<limit, top, lag>>
        BY <3>2 DEF Create, Edit, Delete
      <4> QED BY <3>2, <4>1, UsersKeepLimit
    <3> QED BY <2>2, <3>1, <3>2 DEF FleetUser, ConfigUser, UserStep
  <2>3. ASSUME NEW c \in Cluster, FleetStart(c) PROVE LimitInv'
    BY <2>3, UsersKeepLimit DEF FleetStart, StartPass
  <2>4. CASE FleetContinue
    BY <2>4, PassKeepsLimit DEF FleetContinue, ContinuePass
  <2>5. CASE FleetDeliver
    <3>1. UNCHANGED <<cl, lag, limit, top>> /\ seen \subseteq seen' /\ seen' \in SUBSET Cluster
      BY <2>5 DEF FleetDeliver, Deliver, LimitInv
    <3> QED BY <3>1, QuietStep DEF Tame
  <2>6. CASE EnsureStorage
    BY <2>6, PassKeepsLimit DEF EnsureStorage
  <2>7. CASE SignalStorage
    <3>1. PICK c \in Cluster : cl' = [cl EXCEPT ![c].ensure = TRUE]
      BY <2>7 DEF SignalStorage
    <3>2. cl \in [Cluster -> ClusterType] /\ UNCHANGED <<seen, lag, limit, top>>
      BY <2>7 DEF SignalStorage, FleetInv
    <3>3. \A d \in Cluster : Tame(cl[d], cl'[d])
      <4> DEFINE x == [cl[c] EXCEPT !.ensure = TRUE]
      <4>1. cl' = [cl EXCEPT ![c] = x]
        BY <3>1, <3>2
      <4>2. x.obj = cl[c].obj /\ x.accepted = cl[c].accepted /\ x.old = cl[c].old
        BY <3>2 DEF ClusterType
      <4> HIDE DEF x
      <4> QED BY <4>1, <4>2, OneTame DEF Tame, Accepted
    <3> QED BY <2>t, <3>2, <3>3, QuietStep
  <2>8. ASSUME NEW c \in Cluster, FleetVelero(c) \/ ValidateLocation(c) PROVE LimitInv'
    BY <2>0, <2>8 DEF FleetVelero, VeleroStarts, ValidateLocation
  <2>9. CASE FleetDisturb \/ ReconcileRepository \/ ReconcileConfig \/ EditStorage
    BY <2>0, <2>9 DEF FleetDisturb, Disturb, ReconcileRepository, ReconcileConfig, EditStorage
  <2>10. CASE ReconcileGroup \/ InstanceChanges \/ EditGroup
    BY <2>0, <2>10 DEF ReconcileGroup, InstanceChanges, EditGroup
  <2>11. CASE MemoryUser \/ RuntimePass \/ \E s \in Sync : SyncPass(s)
    BY <2>0, <2>11 DEF MemoryUser, RuntimePass, SyncPass, others, fleetVars
  <2> QED BY <2>1, <2>2, <2>3, <2>4, <2>5, <2>6, <2>7, <2>8, <2>9, <2>10, <2>11 DEF Next
<1>4. LimitInv => LimitHolds
  BY DEF LimitInv, LimitHolds, Counted
<1> QED BY <1>1, <1>2, <1>3, <1>4, PTL DEF Spec

(***************************************************************************)
(* The status of a DisasterGroup.                                          *)
(***************************************************************************)
\* A record of a group, whatever its status.
IsGroup(g) ==
  g \in [members : SUBSET Instance, edges : SUBSET Instance, status : {g.status},
         queued : BOOLEAN, missed : BOOLEAN]

\* The inductive invariant: the types, and the property.
GroupInv ==
  /\ DOMAIN inst = Instance /\ inst = [i \in Instance |-> inst[i]]
  /\ IsGroup(group)
  /\ GroupStatusCurrent

\* A group whose status is out of date is queued for a pass or has lost an event
\* since its last one, however changes, deletions, failed reads and lost events
\* follow each other: every event that mapInstanceToGroups can map queues the
\* group (by the name of the instance, so that one that is deleted reaches it
\* too), and one pass makes up for all that was missed before it.
THEOREM GroupStatusIsCurrent == Spec => []GroupStatusCurrent
<1>0. /\ IsGroup(NoGroup)
      /\ \A M \in SUBSET Instance :
           IsGroup([NoGroup EXCEPT !.members = M, !.queued = TRUE])
  <2>1. IsGroup(NoGroup)
    BY DEF NoGroup, IsGroup
  <2>2. ASSUME NEW M \in SUBSET Instance
        PROVE  IsGroup([NoGroup EXCEPT !.members = M, !.queued = TRUE])
    BY <2>1 DEF IsGroup
  <2> QED BY <2>1, <2>2
<1>1. Init => GroupInv
  <2> SUFFICES ASSUME Init PROVE GroupInv
    OBVIOUS
  <2>1. CASE part = "group"
    <3>1. PICK M \in SUBSET Instance : group = [NoGroup EXCEPT !.members = M, !.queued = TRUE]
      BY <2>1 DEF Init
    <3>2. DOMAIN inst = Instance /\ inst = [i \in Instance |-> inst[i]]
      BY <2>1 DEF Init
    <3>3. group.queued
      BY <3>1 DEF NoGroup
    <3> QED BY <1>0, <3>1, <3>2, <3>3 DEF GroupInv, GroupStatusCurrent
  <2>2. CASE part # "group"
    <3>1. inst = [i \in Instance |-> NoInstance] /\ group = NoGroup
      BY <2>2 DEF Init
    <3> QED BY <1>0, <2>2, <3>1 DEF GroupInv, GroupStatusCurrent
  <2> QED BY <2>1, <2>2
<1>2. GroupInv /\ [Next]_vars => GroupInv'
  <2> SUFFICES ASSUME GroupInv, [Next]_vars PROVE GroupInv'
    OBVIOUS
  <2>t. /\ DOMAIN inst = Instance /\ inst = [i \in Instance |-> inst[i]]
        /\ IsGroup(group)
    BY DEF GroupInv
  <2>0. CASE UNCHANGED <<part, inst, group>>
    <3>1. Aggregate' = Aggregate
      BY <2>0 DEF Aggregate, Members, summarizeInstanceError
    <3> QED BY <2>0, <3>1 DEF GroupInv, GroupStatusCurrent, IsGroup
  <2>1. CASE UNCHANGED vars
    BY <2>0, <2>1 DEF vars
  <2>2. CASE FleetUser \/ ConfigUser \/ FleetContinue \/ FleetDeliver \/ FleetDisturb
             \/ \E c \in Cluster : FleetStart(c) \/ FleetVelero(c)
    BY <2>0, <2>2 DEF FleetUser, ConfigUser, FleetContinue, FleetDeliver, FleetDisturb, FleetStart,
                      FleetVelero, rest, groupVars
  <2>3. CASE EnsureStorage \/ ReconcileRepository \/ ReconcileConfig \/ EditStorage \/ SignalStorage
             \/ \E c \in Cluster : ValidateLocation(c)
    BY <2>0, <2>3 DEF EnsureStorage, ReconcileRepository, ReconcileConfig, EditStorage, SignalStorage,
                      ValidateLocation, groupVars
  <2>4. CASE MemoryUser \/ RuntimePass \/ \E s \in Sync : SyncPass(s)
    BY <2>0, <2>4 DEF MemoryUser, RuntimePass, SyncPass, others, groupVars
  <2>5. CASE ReconcileGroup
    <3> DEFINE added == [group EXCEPT !.status = Aggregate, !.queued = FALSE, !.missed = FALSE]
    <3>1. PICK edges \in SUBSET Instance : group' \in {group, [group EXCEPT !.edges = edges], added}
      BY <2>t, <2>5 DEF ReconcileGroup, Members, IsGroup
    <3>2. UNCHANGED <<part, inst>> /\ group.queued
      BY <2>5 DEF ReconcileGroup
    <3>3. ASSUME group' = added PROVE GroupStatusCurrent'
      <4>1. group'.members = group.members /\ group'.status = Aggregate
        BY <2>t, <3>3 DEF IsGroup
      <4>2. Aggregate' = Aggregate
        BY <3>2, <4>1 DEF Aggregate, Members, summarizeInstanceError
      <4> QED BY <4>1, <4>2 DEF GroupStatusCurrent
    <3>4. ASSUME group' # added PROVE GroupStatusCurrent'
      <4>1. group'.queued
        BY <2>t, <3>1, <3>2, <3>4 DEF IsGroup
      <4> QED BY <4>1 DEF GroupStatusCurrent
    <3>5. IsGroup(group)'
      BY <2>t, <3>1 DEF IsGroup
    <3> QED BY <2>t, <3>2, <3>3, <3>4, <3>5 DEF GroupInv
  <2>6. CASE InstanceChanges
    <3>1. PICK i \in Instance, s \in InstanceStatus : inst' = [inst EXCEPT ![i] = s] /\ mapInstanceToGroups(i)
      BY <2>6 DEF InstanceChanges
    <3>2. UNCHANGED part
      BY <2>6 DEF InstanceChanges
    <3>3. /\ IsGroup(group)' /\ group'.members = group.members /\ group'.status = group.status
          /\ \/ group'.queued = (group.queued \/ i \in group.members) /\ group'.missed = group.missed
             \/ group'.missed = (group.missed \/ i \in group.members) /\ group'.queued = group.queued
      BY <2>t, <3>1 DEF mapInstanceToGroups, IsGroup
    <3>4. DOMAIN inst' = Instance /\ inst' = [j \in Instance |-> inst'[j]]
      BY <2>t, <3>1
    <3>5. ASSUME ~group'.queued, ~group'.missed PROVE Aggregate' = Aggregate
      <4>1. \A j \in group.members : inst'[j] = inst[j]
        BY <2>t, <3>1, <3>3, <3>5 DEF IsGroup
      <4>2. Members' = Members
        BY <3>3, <4>1 DEF Members
      <4>3. \A j \in Members : inst'[j] = inst[j] /\ summarizeInstanceError(j)' = summarizeInstanceError(j)
        BY <4>1 DEF Members, summarizeInstanceError
      <4> DEFINE errors == {j \in Members : inst[j].state = "Failed" \/ inst[j].reason # ""}
      <4>4. {j \in Members' : inst'[j].state = "Protected"} = {j \in Members : inst[j].state = "Protected"}
        BY <4>2, <4>3
      <4>5. errors' = errors
        BY <4>2, <4>3
      <4>6. {summarizeInstanceError(j)' : j \in errors'} = {summarizeInstanceError(j) : j \in errors}
        BY <4>3, <4>5
      <4> QED BY <3>3, <4>2, <4>4, <4>6 DEF Aggregate
    <3> QED BY <3>2, <3>3, <3>4, <3>5 DEF GroupInv, GroupStatusCurrent
  <2>7. CASE EditGroup
    <3>1. PICK M \in SUBSET Instance : group' = [group EXCEPT !.members = M, !.queued = TRUE]
      BY <2>7 DEF EditGroup
    <3>2. UNCHANGED inst
      BY <2>7 DEF EditGroup
    <3>3. IsGroup(group)' /\ group'.queued
      BY <2>t, <3>1 DEF IsGroup
    <3> QED BY <2>t, <3>2, <3>3 DEF GroupInv, GroupStatusCurrent
  <2> QED BY <2>1, <2>2, <2>3, <2>4, <2>5, <2>6, <2>7 DEF Next
<1>3. GroupInv => GroupStatusCurrent
  BY DEF GroupInv
<1> QED BY <1>1, <1>2, <1>3, PTL DEF Spec

(***************************************************************************)
(* The Clusters and their Velero.  What follows rests on what a pass may   *)
(* assume of a Cluster that users edit while it runs (Follows), and on     *)
(* what the status of a Cluster lets the next pass conclude about the      *)
(* target without looking at it (Sound).                                   *)
(***************************************************************************)

\* The target has the Velero that the Cluster x asks for.  One that was there
\* before the Cluster is left alone unless the Cluster asks for a registry.
Applied(x, t) == Installed(t) /\ (x.want = "registry" \/ t.ours => t.velero = x.want)

\* A live Cluster and its target.  A generation that was observed, or is waited
\* for, was applied, which is what needsInstall takes for granted: it installs
\* nothing for these.  Velero was installed for the spec of a Cluster that was
\* never edited.
SoundLive(x, t) ==
  /\ x.gen > 0 /\ x.observed <= x.gen /\ x.waits <= x.gen
  /\ x.observed > 0 => x.accepted
  /\ ~x.early =>
       /\ x.observed = x.gen => Applied(x, t)
       /\ x.reason \in Waiting /\ x.waits = x.gen => Applied(x, t)
       /\ x.observed = 0 /\ t.ours => t.velero = x.want

Sound(x, t) ==
  /\ x.accepted => x.stage = "ready"
  /\ x.obj = "gone" /\ x.uninstall /\ x.accepted => t.velero = "absent"
  /\ x.obj = "live" => SoundLive(x, t)

\* The pass p over the live Cluster x: the status it has read is that of the
\* Cluster, its generation is not ahead of it, and its spec is that of the
\* Cluster unless the Cluster was edited since.
FollowsLive(p, x) ==
  /\ p.at = "gate" => ~x.accepted
  /\ p.at = "work" => x.accepted
  /\ p.read.observed = x.observed /\ p.read.reason = x.reason /\ p.read.waits = x.waits
  /\ p.read.gen > 0 /\ p.read.gen <= x.gen
  /\ p.read.observed <= p.read.gen /\ p.read.waits <= p.read.gen
  /\ ~x.early /\ (p.read.gen = x.gen \/ x.observed = 0) => p.read.want = x.want

\* No pass outlives its Cluster: handleDelete starts when no other pass runs,
\* and the finalizer was there before the pass.
Follows(p, x) ==
  /\ x.obj \in {"live", "deleting"} /\ x.stage = "ready"
  /\ x.obj = "live" => FollowsLive(p, x)

CleanInv ==
  /\ \A c \in Cluster : Sound(cl[c], target[c])
  /\ pass # NoPass => Follows(pass, cl[pass.c])

\* The invariant is about Velero, and whose it is, and not about the rest of a
\* target.
SameVelero(t, u) == u.velero = t.velero /\ u.ours = t.ours

\* A change of the status that makes no new promise about the target.
Meek(x, y) ==
  /\ y.obj = x.obj /\ y.stage = x.stage /\ y.gen = x.gen /\ y.want = x.want /\ y.early = x.early
  /\ y.accepted = x.accepted /\ y.uninstall = x.uninstall
  /\ y.waits = x.waits /\ y.observed = x.observed
  /\ y.reason = x.reason \/ y.reason \notin Waiting

LEMMA MeekStep ==
  ASSUME NEW x, NEW y, NEW t, NEW u, Sound(x, t), Meek(x, y), SameVelero(t, u)
  PROVE  Sound(y, u)
BY DEF Sound, SoundLive, Meek, SameVelero, Applied, Installed

\* The numbers of a Cluster.
LEMMA Numbers ==
  ASSUME NEW x \in ClusterType
  PROVE  x.gen \in Nat /\ x.observed \in Nat /\ x.waits \in Nat
<1>1. MaxGen \in Nat
  BY FleetAssumption
<1>2. x.gen \in 0..MaxGen /\ x.observed \in 0..MaxGen /\ x.waits \in 0..MaxGen
  BY DEF ClusterType
<1> QED BY <1>1, <1>2

\* The types of a Cluster, its target and the pass.
LEMMA FleetTypes ==
  ASSUME FleetInv
  PROVE  /\ cl \in [Cluster -> ClusterType] /\ target \in [Cluster -> TargetType]
         /\ pass # NoPass => /\ pass \in PassType /\ pass.c \in Cluster
                             /\ pass.read \in ClusterType /\ pass.at \in {"gate", "work"}
                             /\ pass.at = "work" => Passed(cl[pass.c])
BY DEF FleetInv, PassOK, PassType

\* A step that writes one Cluster and its target.
LEMMA OneSound ==
  ASSUME FleetInv, CleanInv, NEW c \in Cluster, NEW x, NEW t, Sound(x, t),
         cl' = [cl EXCEPT ![c] = x], target' = [target EXCEPT ![c] = t],
         pass' # NoPass => Follows(pass', cl'[pass'.c])
  PROVE  CleanInv'
<1>1. ASSUME NEW d \in Cluster PROVE Sound(cl'[d], target'[d])
  <2>1. CASE d = c
    <3>1. cl'[d] = x /\ target'[d] = t
      BY <2>1, FleetTypes
    <3> QED BY <3>1
  <2>2. CASE d # c
    <3>1. cl'[d] = cl[d] /\ target'[d] = target[d]
      BY <2>2, FleetTypes
    <3> QED BY <3>1 DEF CleanInv
  <2> QED BY <2>1, <2>2
<1> QED BY <1>1 DEF CleanInv

\* A step that writes one Cluster only, or one target only.
LEMMA OneSoundCluster ==
  ASSUME FleetInv, CleanInv, NEW c \in Cluster, NEW x, Sound(x, target[c]),
         cl' = [cl EXCEPT ![c] = x], UNCHANGED target,
         pass' # NoPass => Follows(pass', cl'[pass'.c])
  PROVE  CleanInv'
<1>1. target' = [target EXCEPT ![c] = target[c]]
  BY FleetTypes
<1> QED BY <1>1, OneSound

LEMMA OneSoundTarget ==
  ASSUME FleetInv, CleanInv, NEW c \in Cluster, NEW t, Sound(cl[c], t),
         UNCHANGED cl, target' = [target EXCEPT ![c] = t],
         pass' # NoPass => Follows(pass', cl'[pass'.c])
  PROVE  CleanInv'
<1>1. cl' = [cl EXCEPT ![c] = cl[c]]
  BY FleetTypes
<1> QED BY <1>1, OneSound

(***************************************************************************)
(* Users, and the beginning of a pass.                                     *)
(***************************************************************************)

\* A new Cluster: nothing was installed for it.
LEMMA CreateKeepsClean ==
  ASSUME FleetInv, CleanInv, NEW c \in Cluster, Create(c)
  PROVE  CleanInv'
<1>1. PICK old \in BOOLEAN :
        cl' = [cl EXCEPT ![c] = [NoCluster EXCEPT !.obj = "live", !.old = old, !.gen = 1, !.want = Wanted(c)]]
  BY DEF Create
<1> DEFINE x == [NoCluster EXCEPT !.obj = "live", !.old = old, !.gen = 1, !.want = Wanted(c)]
<1>2. /\ x.obj = "live" /\ x.gen = 1 /\ x.observed = 0 /\ x.waits = 0 /\ x.reason = ""
      /\ ~x.accepted
  BY DEF NoCluster
<1> HIDE DEF x
<1>3. cl[c].obj = "none" /\ ~target[c].ours
  BY DEF Create, FleetInv, Passed
<1>4. Sound(x, target[c])
  <2>1. x.reason \notin Waiting
    BY <1>2 DEF Waiting
  <2>2. x.gen > 0 /\ x.observed <= x.gen /\ x.waits <= x.gen /\ x.observed # x.gen /\ ~(x.observed > 0)
    <3>1. x.gen = 1 /\ x.observed = 0 /\ x.waits = 0
      BY <1>2
    <3>2. \A n, k, w : n = 1 /\ k = 0 /\ w = 0 => n > 0 /\ k <= n /\ w <= n /\ k # n /\ ~(k > 0)
      OBVIOUS
    <3> QED BY <3>1, <3>2
  <2>3. SoundLive(x, target[c])
    BY <1>3, <2>1, <2>2 DEF SoundLive
  <2> QED BY <1>2, <2>3 DEF Sound
<1>5. pass' # NoPass => Follows(pass', cl'[pass'.c])
  <2>1. pass' = pass
    BY DEF Create
  <2>2. pass # NoPass => pass.c # c /\ pass.c \in Cluster
    BY <1>3, FleetTypes DEF CleanInv, Follows
  <2> QED BY <1>1, <2>1, <2>2, FleetTypes DEF CleanInv
<1>6. UNCHANGED target
  BY DEF Create
<1> QED BY <1>1, <1>4, <1>5, <1>6, OneSoundCluster DEF x

\* An edit: the generation it makes was not observed, and is not waited for.
LEMMA EditKeepsClean ==
  ASSUME FleetInv, CleanInv, NEW c \in Cluster, Edit(c)
  PROVE  CleanInv'
<1> DEFINE x == [cl[c] EXCEPT !.gen = @ + 1, !.want = IF @ = "plain" THEN "registry" ELSE "plain",
                              !.early = @ \/ cl[c].observed = 0]
<1>t. cl[c] \in ClusterType
  BY FleetTypes
<1>1. cl' = [cl EXCEPT ![c] = x] /\ UNCHANGED <<target, pass>>
  BY <1>t, FleetTypes DEF Edit
<1>2. /\ x.gen = cl[c].gen + 1 /\ (x.early <=> cl[c].early \/ cl[c].observed = 0)
      /\ x.obj = cl[c].obj /\ x.stage = cl[c].stage /\ x.accepted = cl[c].accepted
      /\ x.uninstall = cl[c].uninstall /\ x.reason = cl[c].reason /\ x.waits = cl[c].waits
      /\ x.observed = cl[c].observed
  BY <1>t DEF ClusterType
<1> HIDE DEF x
<1>3. cl[c].gen \in Nat /\ cl[c].observed \in Nat /\ cl[c].waits \in Nat /\ cl[c].obj = "live"
  BY <1>t, Numbers DEF Edit
<1>4. Sound(cl[c], target[c]) /\ SoundLive(cl[c], target[c])
  BY <1>3 DEF CleanInv, Sound
<1>5. Sound(x, target[c])
  <2>1. SoundLive(x, target[c])
    BY <1>2, <1>3, <1>4 DEF SoundLive
  <2> QED BY <1>2, <1>3, <1>4, <2>1 DEF Sound
<1>6. ASSUME pass # NoPass PROVE Follows(pass', cl'[pass'.c])
  <2>1. CASE pass.c = c
    <3>1. Follows(pass, cl[c]) /\ FollowsLive(pass, cl[c])
      BY <1>3, <1>6, <2>1 DEF CleanInv, Follows
    <3>2. pass.read.gen \in Nat
      BY <1>6, FleetTypes, Numbers
    <3>3. FollowsLive(pass, x)
      BY <1>2, <1>3, <3>1, <3>2 DEF FollowsLive
    <3>4. Follows(pass, x)
      BY <1>2, <3>1, <3>3 DEF Follows
    <3>5. cl'[pass'.c] = x /\ pass' = pass
      BY <1>1, <2>1, FleetTypes
    <3> QED BY <3>4, <3>5
  <2>2. CASE pass.c # c
    BY <1>1, <1>6, <2>2, FleetTypes DEF CleanInv
  <2> QED BY <2>1, <2>2
<1> QED BY <1>1, <1>5, <1>6, OneSoundCluster

\* A deletion: what was accepted has the finalizer.
LEMMA DeleteKeepsClean ==
  ASSUME FleetInv, CleanInv, NEW c \in Cluster, Delete(c)
  PROVE  CleanInv'
<1>t. cl[c] \in ClusterType
  BY FleetTypes
<1>1. PICK uninstall \in BOOLEAN :
        cl' = [cl EXCEPT ![c].uninstall = uninstall,
                         ![c].obj = IF cl[c].stage = "ready" THEN "deleting" ELSE "gone"]
  BY DEF Delete
<1> DEFINE x == [cl[c] EXCEPT !.uninstall = uninstall,
                              !.obj = IF cl[c].stage = "ready" THEN "deleting" ELSE "gone"]
<1>2. cl' = [cl EXCEPT ![c] = x] /\ UNCHANGED <<target, pass>>
  BY <1>t, <1>1, FleetTypes DEF Delete
<1>3. /\ x.obj = (IF cl[c].stage = "ready" THEN "deleting" ELSE "gone")
      /\ x.stage = cl[c].stage /\ x.accepted = cl[c].accepted
  BY <1>t DEF ClusterType
<1> HIDE DEF x
<1>4. Sound(x, target[c])
  <2>1. cl[c].accepted => cl[c].stage = "ready"
    BY DEF CleanInv, Sound
  <2> QED BY <1>3, <2>1 DEF Sound
<1>5. ASSUME pass # NoPass PROVE Follows(pass', cl'[pass'.c])
  <2>1. CASE pass.c = c
    <3>1. cl[c].stage = "ready"
      BY <1>5, <2>1 DEF CleanInv, Follows
    <3>2. Follows(pass, x)
      BY <1>3, <3>1 DEF Follows
    <3>3. cl'[pass'.c] = x /\ pass' = pass
      BY <1>2, <2>1, FleetTypes
    <3> QED BY <3>2, <3>3
  <2>2. CASE pass.c # c
    BY <1>2, <1>5, <2>2, FleetTypes DEF CleanInv
  <2> QED BY <2>1, <2>2
<1> QED BY <1>2, <1>4, <1>5, OneSoundCluster

(***************************************************************************)
(* The steps of a pass.                                                    *)
(***************************************************************************)

\* Labels and finalizer come before the gate.
LEMMA PrepareKeepsClean ==
  ASSUME FleetInv, CleanInv, NEW c \in Cluster, Prepare(c), Idle
  PROVE  CleanInv'
<1>t. cl[c] \in ClusterType
  BY FleetTypes
<1>1. UNCHANGED <<target, pass>> /\ pass' = NoPass /\ cl[c].stage # "ready" /\ cl[c].obj = "live"
  BY DEF Prepare, Idle
<1>2. Sound(cl[c], target[c]) /\ ~cl[c].accepted
  BY <1>1 DEF CleanInv, Sound
<1>3. CASE cl' = [cl EXCEPT ![c].stage = "labelled"]
  <2> DEFINE x == [cl[c] EXCEPT !.stage = "labelled"]
  <2>1. cl' = [cl EXCEPT ![c] = x]
    BY <1>3, FleetTypes
  <2>2. Sound(x, target[c])
    BY <1>t, <1>1, <1>2 DEF ClusterType, Sound, SoundLive, Applied
  <2> HIDE DEF x
  <2> QED BY <1>1, <2>1, <2>2, OneSoundCluster
<1>4. CASE cl' = [cl EXCEPT ![c].stage = "ready", ![c].status = "Pending"]
  <2> DEFINE x == [cl[c] EXCEPT !.stage = "ready", !.status = "Pending"]
  <2>1. cl' = [cl EXCEPT ![c] = x]
    BY <1>t, <1>4, FleetTypes
  <2>2. Sound(x, target[c])
    BY <1>t, <1>1, <1>2 DEF ClusterType, Sound, SoundLive, Applied
  <2> HIDE DEF x
  <2> QED BY <1>1, <2>1, <2>2, OneSoundCluster
<1> QED BY <1>3, <1>4 DEF Prepare

\* A pass begins with the Cluster as it is.
LEMMA ReadKeepsClean ==
  ASSUME FleetInv, CleanInv, NEW c \in Cluster, Read(c)
  PROVE  CleanInv'
<1>1. /\ UNCHANGED <<cl, target>> /\ cl[c].obj = "live" /\ cl[c].stage = "ready"
      /\ pass'.c = c /\ pass'.read = cl[c] /\ pass'.at = (IF cl[c].accepted THEN "work" ELSE "gate")
  BY DEF Read
<1>2. SoundLive(cl[c], target[c])
  BY <1>1 DEF CleanInv, Sound
<1>3. cl[c].gen \in Nat /\ cl[c].observed \in Nat /\ cl[c].waits \in Nat
  BY FleetTypes, Numbers
<1>4. FollowsLive(pass', cl[c])
  BY <1>1, <1>2, <1>3 DEF FollowsLive, SoundLive
<1>5. Follows(pass', cl'[pass'.c])
  BY <1>1, <1>4 DEF Follows
<1> QED BY <1>1, <1>5 DEF CleanInv

\* A Cluster that is accepted was never Ready, so the spec that the pass has
\* read is still its spec, or it was edited early.
LEMMA AcceptKeepsClean ==
  ASSUME FleetInv, CleanInv, pass # NoPass, pass.at = "gate", cl[pass.c].obj = "live",
         cl' = [cl EXCEPT ![pass.c].accepted = TRUE], UNCHANGED target,
         pass' = [pass EXCEPT !.at = "work", !.read.gen = cl[pass.c].gen, !.read.accepted = TRUE,
                                      !.read.ensure = cl[pass.c].ensure]
  PROVE  CleanInv'
<1> DEFINE c == pass.c
           x == [cl[c] EXCEPT !.accepted = TRUE]
           r == [pass.read EXCEPT !.gen = cl[c].gen, !.accepted = TRUE, !.ensure = cl[c].ensure]
<1>t. c \in Cluster /\ cl[c] \in ClusterType /\ pass.read \in ClusterType /\ pass \in PassType
  BY FleetTypes
<1>1. cl' = [cl EXCEPT ![c] = x]
  BY <1>t, FleetTypes
<1>2. pass'.c = c /\ pass'.at = "work" /\ pass'.read = r
  BY <1>t DEF PassType, ClusterType
<1>3. /\ x.accepted /\ x.obj = cl[c].obj /\ x.stage = cl[c].stage /\ x.gen = cl[c].gen
      /\ x.want = cl[c].want /\ x.early = cl[c].early /\ x.reason = cl[c].reason
      /\ x.waits = cl[c].waits /\ x.observed = cl[c].observed
  BY <1>t DEF ClusterType
<1>4. /\ r.gen = cl[c].gen /\ r.want = pass.read.want /\ r.observed = pass.read.observed
      /\ r.reason = pass.read.reason /\ r.waits = pass.read.waits
  BY <1>t DEF ClusterType
<1> HIDE DEF x, r
<1>5. Follows(pass, cl[c]) /\ FollowsLive(pass, cl[c]) /\ Sound(cl[c], target[c]) /\ SoundLive(cl[c], target[c])
  BY <1>t DEF CleanInv, Follows, Sound
<1>6. cl[c].observed = 0
  <2>1. cl[c].observed \in Nat /\ ~(cl[c].observed > 0)
    BY <1>t, <1>5, Numbers DEF FollowsLive, SoundLive
  <2> QED BY <2>1
<1>7. SoundLive(x, target[c])
  BY <1>3, <1>5 DEF SoundLive, Applied
<1>8. Sound(x, target[c])
  BY <1>3, <1>5, <1>7 DEF Sound, Follows
<1>9. FollowsLive(pass', x)
  <2>1. pass'.read.want = x.want \/ x.early
    BY <1>2, <1>3, <1>4, <1>5, <1>6 DEF FollowsLive
  <2>2. x.gen > 0 /\ x.observed <= x.gen /\ x.waits <= x.gen /\ x.gen <= x.gen
    <3>1. x.gen \in Nat
      BY <1>t, <1>3, Numbers
    <3> QED BY <1>7, <3>1 DEF SoundLive
  <2>3. pass'.read.observed = x.observed /\ pass'.read.reason = x.reason /\ pass'.read.waits = x.waits
        /\ pass'.read.gen = x.gen
    BY <1>2, <1>3, <1>4, <1>5 DEF FollowsLive
  <2> QED BY <1>2, <1>3, <2>1, <2>2, <2>3 DEF FollowsLive
<1>10. Follows(pass', cl'[pass'.c])
  <2>1. cl'[pass'.c] = x
    BY <1>t, <1>1, <1>2, FleetTypes
  <2> QED BY <1>3, <1>5, <1>9, <2>1 DEF Follows
<1> QED BY <1>t, <1>1, <1>8, <1>10, OneSoundCluster

\* The gate.
LEMMA GateKeepsClean ==
  ASSUME FleetInv, CleanInv, Gate
  PROVE  CleanInv'
<1> DEFINE c == pass.c
<1>t. c \in Cluster /\ cl[c] \in ClusterType /\ pass.read \in ClusterType /\ pass \in PassType
  BY FleetTypes DEF Gate
<1>0. pass # NoPass /\ pass.at = "gate" /\ UNCHANGED target /\ Follows(pass, cl[c]) /\ Sound(cl[c], target[c])
  BY <1>t DEF Gate, CleanInv
<1>m. ASSUME NEW x, Meek(cl[c], x), cl' = [cl EXCEPT ![c] = x], pass' = NoPass PROVE CleanInv'
  <2>1. Sound(x, target[c])
    BY <1>0, <1>m, MeekStep DEF SameVelero
  <2> QED BY <1>0, <1>m, <1>t, <2>1, OneSoundCluster
<1>1. CASE cl[c].obj = "deleting" /\ pass' = [pass EXCEPT !.at = "work"] /\ UNCHANGED cl
  <2>1. pass'.c = c
    BY <1>t, <1>1 DEF PassType
  <2>2. Follows(pass', cl[c])
    BY <1>0, <1>1 DEF Follows
  <2> QED BY <1>0, <1>1, <2>1, <2>2 DEF CleanInv
<1>2. CASE cl[c].obj = "live" /\ acceptCluster(c)
  <2>1. CASE /\ cl' = [cl EXCEPT ![c].accepted = TRUE]
             /\ pass' = [pass EXCEPT !.at = "work", !.read.gen = cl[c].gen, !.read.accepted = TRUE,
                                             !.read.ensure = cl[c].ensure]
    BY <1>0, <1>2, <2>1, AcceptKeepsClean
  <2>2. CASE /\ cl' = [cl EXCEPT ![c].status = "NotReady", ![c].reason = "LicenseInvalid"]
             /\ pass' = NoPass
    <3> DEFINE x == [cl[c] EXCEPT !.status = "NotReady", !.reason = "LicenseInvalid"]
    <3>1. cl' = [cl EXCEPT ![c] = x]
      BY <1>t, <2>2, FleetTypes
    <3>2. Meek(cl[c], x)
      BY <1>t DEF ClusterType, Meek, Waiting
    <3> HIDE DEF x
    <3> QED BY <1>m, <2>2, <3>1, <3>2
  <2> QED BY <1>2, <2>1, <2>2 DEF acceptCluster
<1>3. CASE cl[c].obj = "live" /\ refuse(c)
  <2> DEFINE new == [pass.read EXCEPT !.status = "NotReady", !.reason = "LicenseLimitExceeded"]
             x == StatusOf(new, cl[c])
  <2>1. FollowsLive(pass, cl[c])
    BY <1>0, <1>3 DEF Follows
  <2>2. Meek(cl[c], x)
    <3>1. /\ new.reason = "LicenseLimitExceeded" /\ new.waits = cl[c].waits
          /\ new.observed = cl[c].observed
      BY <1>t, <2>1 DEF ClusterType, FollowsLive
    <3> HIDE DEF new
    <3>2. /\ x.obj = cl[c].obj /\ x.stage = cl[c].stage /\ x.gen = cl[c].gen /\ x.want = cl[c].want
          /\ x.early = cl[c].early /\ x.accepted = cl[c].accepted /\ x.uninstall = cl[c].uninstall
          /\ x.reason = new.reason /\ x.waits = new.waits /\ x.observed = new.observed
      BY <1>t DEF ClusterType, StatusOf
    <3>3. "LicenseLimitExceeded" \notin Waiting
      BY DEF Waiting
    <3> HIDE DEF x
    <3> QED BY <3>1, <3>2, <3>3 DEF Meek
  <2>3. Meek(cl[c], cl[c])
    BY DEF Meek
  <2>4. pass' = NoPass /\ (cl' = [cl EXCEPT ![c] = x] \/ cl' = [cl EXCEPT ![c] = cl[c]])
    BY <1>3, <1>t, FleetTypes DEF refuse, updateClusterStatus
  <2> HIDE DEF x
  <2> QED BY <1>m, <2>2, <2>3, <2>4
<1> QED BY <1>1, <1>2, <1>3 DEF Gate

(***************************************************************************)
(* The work on the target.                                                 *)
(***************************************************************************)

\* The fields of a Cluster whose status was replaced.
LEMMA StatusFields ==
  ASSUME NEW x \in ClusterType, NEW new
  PROVE  LET y == StatusOf(new, x)
         IN /\ y.obj = x.obj /\ y.stage = x.stage /\ y.gen = x.gen /\ y.want = x.want
            /\ y.early = x.early /\ y.accepted = x.accepted /\ y.uninstall = x.uninstall
            /\ y.reason = new.reason /\ y.waits = new.waits /\ y.observed = new.observed
BY DEF ClusterType, StatusOf

\* The reason of an expired token is no reason to wait.
LEMMA TokenFields ==
  ASSUME NEW r0 \in ClusterType, NEW c
  PROVE  LET r == refreshClusterTokenExpiration(c, r0)
         IN /\ r.gen = r0.gen /\ r.want = r0.want /\ r.observed = r0.observed /\ r.waits = r0.waits
            /\ r.reason \in Waiting => r.reason = r0.reason
            /\ r.reason = r0.reason \/ r.reason = "TokenExpired"
BY DEF refreshClusterTokenExpiration, ClusterType, Waiting

\* What a pass reports: it observes the generation it has read, waits for it,
\* or does neither, as when it fails and keeps at most the reason it had.
LEMMA Reports ==
  ASSUME NEW r \in ClusterType, NEW t, NEW wasReady, NEW new \in {Verdict(r, t, wasReady)} \cup NotReady(r)
  PROVE  /\ new.observed \in {r.observed, r.gen} /\ new.waits \in {r.waits, r.gen}
         /\ new.reason \in Waiting => new.waits = r.gen \/ (r.reason \in Waiting /\ new.waits = r.waits)
         /\ new \in NotReady(r) =>
              /\ new.observed = r.observed /\ new.waits = r.waits
              /\ new.reason = r.reason \/ new.reason \notin Waiting
<1>1. ASSUME NEW x \in ClusterType, NEW reason
      PROVE  Waits(x, reason).observed = x.observed /\ Waits(x, reason).waits = x.gen
  BY DEF Waits, ClusterType
<1> DEFINE v == [r EXCEPT !.version = TRUE]
           ready == [r EXCEPT !.version = TRUE, !.status = "Ready", !.reason = "", !.observed = r.gen]
<1>2. v \in ClusterType /\ v.observed = r.observed /\ v.gen = r.gen
  BY DEF ClusterType
<1>3. ready.observed = r.gen /\ ready.waits = r.waits /\ ready.reason = "" /\ "" \notin Waiting
  BY DEF ClusterType, Waiting
<1>4. ASSUME new \in NotReady(r)
      PROVE  /\ new.observed = r.observed /\ new.waits = r.waits
             /\ new.reason = r.reason \/ new.reason \notin Waiting
  <2>1. PICK reason \in {"Failed", r.reason}, version \in {r.version, FALSE, TRUE} :
          new = [r EXCEPT !.status = "NotReady", !.reason = reason, !.version = version]
    BY <1>4 DEF NotReady
  <2>2. "Failed" \notin Waiting
    BY DEF Waiting
  <2> QED BY <2>1, <2>2 DEF ClusterType
<1> HIDE DEF v, ready
<1>5. \/ new = ready \/ new = Waits(v, "VeleroRuntimeNotReady")
      \/ new = Waits(r, diagnoseVeleroStatusPending(t)) \/ new \in NotReady(r)
  BY DEF Verdict, v, ready
<1> QED BY <1>1, <1>2, <1>3, <1>4, <1>5

\* An installation brings the target to the spec that was read.
LEMMA Installation ==
  ASSUME NEW r \in ClusterType, NEW t \in TargetType
  PROVE  LET u == InstallVelero(r, t)
         IN \/ needsInstall(r, t) /\ u.velero = r.want /\ u.ours /\ Installed(u)
            \/ ~needsInstall(r, t) /\ u = t
BY DEF InstallVelero, buildVeleroValuesFile, Installed, ClusterType, TargetType

\* After the work the target has what the Cluster asks for, if the pass has
\* read its generation.
LEMMA PassApplies ==
  ASSUME NEW x \in ClusterType, NEW t \in TargetType, NEW p \in PassType, NEW c,
         SoundLive(x, t), FollowsLive(p, x), ~x.early
  PROVE  LET r == refreshClusterTokenExpiration(c, p.read)
             u == InstallVelero(r, t)
         IN /\ r.gen = x.gen => Applied(x, u)
            /\ x.observed = 0 /\ u.ours => u.velero = x.want
<1> DEFINE r == refreshClusterTokenExpiration(c, p.read)
           u == InstallVelero(r, t)
<1>t. p.read \in ClusterType
  BY DEF PassType
<1>r. r \in ClusterType
  BY <1>t DEF refreshClusterTokenExpiration, ClusterType
<1>1. /\ r.gen = p.read.gen /\ r.want = p.read.want /\ r.observed = x.observed /\ r.waits = x.waits
      /\ r.reason \in Waiting => r.reason = x.reason
  BY <1>t, TokenFields DEF FollowsLive
<1>2. (r.gen = x.gen \/ x.observed = 0) => r.want = x.want
  BY <1>1 DEF FollowsLive
<1> HIDE DEF r
<1>3. \/ needsInstall(r, t) /\ u.velero = r.want /\ u.ours /\ Installed(u)
      \/ ~needsInstall(r, t) /\ u = t
  BY <1>r, Installation
<1> HIDE DEF u
<1>4. x.observed = 0 /\ u.ours => u.velero = x.want
  BY <1>2, <1>3 DEF SoundLive
<1>5. ASSUME r.gen = x.gen PROVE Applied(x, u)
  <2>1. CASE needsInstall(r, t)
    BY <1>2, <1>3, <1>5, <2>1 DEF Applied
  <2>2. CASE ~needsInstall(r, t) /\ x.observed = 0
    <3>1. Installed(t) /\ x.want # "registry" /\ u = t
      BY <1>1, <1>2, <1>3, <2>2 DEF needsInstall
    <3> QED BY <1>4, <2>2, <3>1 DEF Applied
  <2>3. CASE ~needsInstall(r, t) /\ x.observed # 0
    <3>1. x.observed \in Nat /\ x.gen \in Nat
      BY Numbers
    <3>2. x.observed <= x.gen /\ x.observed > 0
      BY <2>3, <3>1 DEF SoundLive
    <3>3. x.observed = x.gen \/ isClusterWaiting(r)
      BY <1>1, <1>5, <2>3, <3>1, <3>2 DEF needsInstall
    <3>4. Applied(x, t)
      BY <1>1, <1>5, <3>3 DEF isClusterWaiting, SoundLive
    <3> QED BY <1>3, <2>3, <3>4
  <2> QED BY <2>1, <2>2, <2>3
<1> QED BY <1>4, <1>5 DEF r, u

\* A pass reports what it did, or its report is lost; or it fails, before or
\* after the installation.
LEMMA WorkKeepsClean ==
  ASSUME FleetInv, CleanInv, Work
  PROVE  CleanInv'
<1> DEFINE c == pass.c
           r == refreshClusterTokenExpiration(c, pass.read)
           t == InstallVelero(r, target[c])
<1>t. /\ c \in Cluster /\ cl[c] \in ClusterType /\ target[c] \in TargetType
      /\ pass.read \in ClusterType /\ pass \in PassType
  BY FleetTypes DEF Work
<1>0. pass # NoPass /\ pass.at = "work" /\ pass' = NoPass /\ Follows(pass, cl[c]) /\ Sound(cl[c], target[c])
  BY <1>t DEF Work, CleanInv
<1>r. /\ r \in ClusterType /\ r.gen = pass.read.gen /\ r.observed = pass.read.observed
      /\ r.waits = pass.read.waits /\ (r.reason \in Waiting => r.reason = pass.read.reason)
  <2>1. r \in ClusterType
    BY <1>t DEF refreshClusterTokenExpiration, ClusterType
  <2> QED BY <1>t, <2>1, TokenFields
<1>a. cl[c].obj = "live" /\ ~cl[c].early =>
        /\ r.gen = cl[c].gen => Applied(cl[c], t)
        /\ cl[c].observed = 0 /\ t.ours => t.velero = cl[c].want
  BY <1>t, <1>0, PassApplies DEF Follows, Sound
<1> HIDE DEF r
<1>rep. \A new \in {Verdict(r, t, pass.wasReady)} \cup NotReady(r) :
          /\ new.observed \in {r.observed, r.gen} /\ new.waits \in {r.waits, r.gen}
          /\ new.reason \in Waiting => new.waits = r.gen \/ (r.reason \in Waiting /\ new.waits = r.waits)
          /\ new \in NotReady(r) =>
               /\ new.observed = r.observed /\ new.waits = r.waits
               /\ new.reason = r.reason \/ new.reason \notin Waiting
  BY <1>r, Reports
<1> HIDE DEF t
\* the target after the installation: what the Cluster had promised still holds
<1>1. Sound(cl[c], t)
  <2>1. ASSUME cl[c].obj = "live" PROVE SoundLive(cl[c], t)
    <3>1. SoundLive(cl[c], target[c]) /\ FollowsLive(pass, cl[c])
      BY <1>0, <2>1 DEF Sound, Follows
    <3>2. /\ cl[c].gen \in Nat /\ cl[c].observed \in Nat /\ cl[c].waits \in Nat
          /\ r.gen \in Nat /\ r.observed \in Nat /\ r.waits \in Nat
      BY <1>t, <1>r, Numbers
    <3>3. /\ r.gen <= cl[c].gen /\ r.observed <= r.gen /\ r.waits <= r.gen
          /\ r.observed = cl[c].observed /\ r.waits = cl[c].waits
      BY <1>r, <3>1 DEF FollowsLive
    <3>4. cl[c].observed = cl[c].gen \/ cl[c].waits = cl[c].gen => r.gen = cl[c].gen
      BY <3>2, <3>3
    <3> QED BY <1>a, <2>1, <3>1, <3>4 DEF SoundLive
  <2> QED BY <1>0, <2>1 DEF Sound, Follows
\* ... and so does what the pass reports
<1>2. ASSUME NEW new \in {Verdict(r, t, pass.wasReady)} \cup NotReady(r)
      PROVE  Sound(StatusOf(new, cl[c]), t)
  <2> DEFINE y == StatusOf(new, cl[c])
  <2>1. /\ y.obj = cl[c].obj /\ y.stage = cl[c].stage /\ y.gen = cl[c].gen /\ y.want = cl[c].want
        /\ y.early = cl[c].early /\ y.accepted = cl[c].accepted /\ y.uninstall = cl[c].uninstall
        /\ y.reason = new.reason /\ y.waits = new.waits /\ y.observed = new.observed
    BY <1>t, StatusFields
  <2> HIDE DEF y
  <2>2. ASSUME y.obj = "live" PROVE SoundLive(y, t)
    <3>1. SoundLive(cl[c], target[c]) /\ FollowsLive(pass, cl[c])
      BY <1>0, <2>1, <2>2 DEF Sound, Follows
    <3>2. /\ cl[c].gen \in Nat /\ cl[c].observed \in Nat /\ cl[c].waits \in Nat
          /\ r.gen \in Nat /\ r.observed \in Nat /\ r.waits \in Nat
      BY <1>t, <1>r, Numbers
    <3>3. /\ r.gen <= cl[c].gen /\ r.gen > 0 /\ r.observed <= r.gen /\ r.waits <= r.gen
          /\ r.observed = cl[c].observed /\ r.waits = cl[c].waits
      BY <1>r, <3>1 DEF FollowsLive
    <3>4. /\ y.observed \in {r.observed, r.gen} /\ y.waits \in {r.waits, r.gen}
          /\ y.reason \in Waiting => y.waits = r.gen \/ (r.reason \in Waiting /\ y.waits = r.waits)
      BY <1>rep, <2>1
    <3>5. y.gen > 0 /\ y.observed <= y.gen /\ y.waits <= y.gen
      BY <2>1, <3>1, <3>2, <3>3, <3>4 DEF SoundLive
    <3>6. y.accepted
      BY <1>0, <2>1, <3>1 DEF FollowsLive
    <3>7. y.observed = y.gen => r.gen = cl[c].gen
      BY <2>1, <3>2, <3>3, <3>4
    <3>w. y.reason \in Waiting /\ y.waits = y.gen => r.gen = cl[c].gen
      BY <2>1, <3>2, <3>3, <3>4
    <3>8. y.observed = 0 => cl[c].observed = 0
      BY <3>2, <3>3, <3>4
    <3>9. Applied(y, t) <=> Applied(cl[c], t)
      BY <2>1 DEF Applied
    <3> QED BY <1>a, <2>1, <2>2, <3>4, <3>5, <3>6, <3>7, <3>w, <3>8, <3>9 DEF SoundLive
  <2>3. Sound(y, t)
    BY <1>0, <2>1, <2>2 DEF Sound, Follows
  <2> QED BY <2>3 DEF y
\* A failure before the installation promises nothing new.
<1>3. ASSUME NEW new \in NotReady(r)
      PROVE  Sound(StatusOf(new, cl[c]), target[c])
  <2> DEFINE y == StatusOf(new, cl[c])
  <2>1. /\ y.obj = cl[c].obj /\ y.stage = cl[c].stage /\ y.gen = cl[c].gen /\ y.want = cl[c].want
        /\ y.early = cl[c].early /\ y.accepted = cl[c].accepted /\ y.uninstall = cl[c].uninstall
        /\ y.reason = new.reason /\ y.waits = new.waits /\ y.observed = new.observed
    BY <1>t, StatusFields
  <2> HIDE DEF y
  <2>2. /\ new.observed = r.observed /\ new.waits = r.waits
        /\ new.reason = r.reason \/ new.reason \notin Waiting
    BY <1>rep
  <2>3. CASE cl[c].obj = "live"
    <3>1. /\ r.observed = cl[c].observed /\ r.waits = cl[c].waits
          /\ r.reason \in Waiting => r.reason = cl[c].reason
      BY <1>0, <1>r, <2>3 DEF Follows, FollowsLive
    <3>2. Meek(cl[c], y)
      BY <2>1, <2>2, <3>1 DEF Meek
    <3> QED BY <1>0, <3>2, MeekStep DEF SameVelero, y
  <2>4. CASE cl[c].obj # "live"
    BY <1>0, <2>1, <2>4 DEF Sound, Follows, y
  <2> QED BY <2>3, <2>4
<1>4. CASE target' = [target EXCEPT ![c] = t] /\ updateClusterStatus(c, Verdict(r, t, pass.wasReady))
  <2>1. CASE cl' = [cl EXCEPT ![c] = StatusOf(Verdict(r, t, pass.wasReady), cl[c])]
    BY <1>t, <1>0, <1>2, <1>4, <2>1, OneSound
  <2>2. CASE UNCHANGED cl
    BY <1>t, <1>0, <1>1, <1>4, <2>2, OneSoundTarget
  <2> QED BY <1>t, <1>4, <2>1, <2>2 DEF updateClusterStatus
<1>5. ASSUME target' \in {target, [target EXCEPT ![c] = t]},
             NEW new \in NotReady(r), cl' = [cl EXCEPT ![c] = StatusOf(new, cl[c])]
      PROVE  CleanInv'
  <2>1. CASE UNCHANGED target
    BY <1>t, <1>0, <1>3, <1>5, <2>1, OneSoundCluster
  <2>2. CASE target' = [target EXCEPT ![c] = t]
    BY <1>t, <1>0, <1>2, <1>5, <2>2, OneSound
  <2> QED BY <1>5, <2>1, <2>2
<1>6. \/ target' = [target EXCEPT ![c] = t] /\ updateClusterStatus(c, Verdict(r, t, pass.wasReady))
      \/ /\ target' \in {target, [target EXCEPT ![c] = t]}
         /\ \E new \in NotReady(r) : cl' = [cl EXCEPT ![c] = StatusOf(new, cl[c])]
  BY <1>t DEF Work, r, t
<1> QED BY <1>4, <1>5, <1>6

(***************************************************************************)
(* The deletion, the storage and the environment.                          *)
(***************************************************************************)

\* A Cluster goes when its Velero was uninstalled, if it was to be, or was
\* never installed; a deletion that fails keeps it.
LEMMA DeletionKeepsClean ==
  ASSUME FleetInv, CleanInv, NEW c \in Cluster, handleDelete(c), Idle
  PROVE  CleanInv'
<1>t. cl[c] \in ClusterType /\ target[c] \in TargetType /\ pass' = NoPass
  BY FleetTypes DEF handleDelete, Idle
<1>0. cl[c].obj = "deleting" /\ (cl[c].accepted => cl[c].stage = "ready")
  BY DEF handleDelete, CleanInv, Sound
<1>1. ASSUME NEW x, x.obj = "deleting", x.stage = cl[c].stage, x.accepted = cl[c].accepted, NEW t
      PROVE  Sound(x, t)
  BY <1>0, <1>1 DEF Sound
<1>2. CASE /\ \/ UNCHANGED target
              \/ target' = [target EXCEPT ![c] = Residual(target[c])]
           /\ \/ cl' = [cl EXCEPT ![c].status = "Deleting", ![c].reason = "Deleting"]
              \/ cl' = [cl EXCEPT ![c].reason = "Failed"]
  <2> DEFINE marked == [cl[c] EXCEPT !.status = "Deleting", !.reason = "Deleting"]
             failed == [cl[c] EXCEPT !.reason = "Failed"]
  <2>1. \A x \in {marked, failed} :
          x.obj = "deleting" /\ x.stage = cl[c].stage /\ x.accepted = cl[c].accepted
    BY <1>t, <1>0 DEF ClusterType
  <2>2. \E x \in {marked, failed} : cl' = [cl EXCEPT ![c] = x]
    BY <1>t, <1>2, FleetTypes
  <2>3. PICK x \in {marked, failed} : cl' = [cl EXCEPT ![c] = x]
    BY <2>2
  <2> HIDE DEF marked, failed
  <2>4. \A t : Sound(x, t)
    BY <1>1, <2>1
  <2> QED BY <1>t, <1>2, <2>3, <2>4, OneSound, OneSoundCluster
<1>3. CASE Gone(c) /\ target' = (IF ~shouldSkipTargetCleanup(c) /\ cl[c].uninstall
                                 THEN [target EXCEPT ![c] = Uninstalled(target[c])] ELSE target)
  <2> DEFINE x == [cl[c] EXCEPT !.obj = "gone"]
  <2>1. cl' = [cl EXCEPT ![c] = x]
    BY <1>3, FleetTypes DEF Gone
  <2>2. x.obj = "gone" /\ x.stage = cl[c].stage /\ x.accepted = cl[c].accepted /\ x.uninstall = cl[c].uninstall
    BY <1>t DEF ClusterType
  <2>3. Uninstalled(target[c]).velero = "absent"
    BY <1>t DEF TargetType, Uninstalled
  <2> HIDE DEF x
  <2>4. CASE ~shouldSkipTargetCleanup(c) /\ cl[c].uninstall
    <3>1. Sound(x, Uninstalled(target[c]))
      BY <1>0, <2>2, <2>3 DEF Sound
    <3> QED BY <1>t, <1>3, <2>1, <2>4, <3>1, OneSound
  <2>5. CASE shouldSkipTargetCleanup(c) \/ ~cl[c].uninstall
    <3>1. ~cl[c].accepted \/ ~cl[c].uninstall
      BY <2>5 DEF shouldSkipTargetCleanup
    <3>2. Sound(x, target[c])
      BY <1>0, <2>2, <3>1 DEF Sound
    <3> QED BY <1>t, <1>3, <2>1, <2>5, <3>2, OneSoundCluster
  <2> QED BY <2>4, <2>5
<1>4. CASE MarkDeleting(c)
  BY <1>2, <1>4 DEF MarkDeleting
<1>5. CASE Finalize(c)
  BY <1>2, <1>3, <1>5, <1>t DEF Finalize
<1> QED BY <1>4, <1>5 DEF handleDelete

\* A storage location is applied to a target without touching its Velero.
LEMMA StorageSameVelero ==
  ASSUME NEW t \in TargetType
  PROVE  SameVelero(t, ApplyStorageRepository(t).t)
BY DEF SameVelero, ApplyStorageRepository, TargetType

\* The signal to apply a storage location, in the pass of its Cluster.
LEMMA EnsureStorageKeepsClean ==
  ASSUME FleetInv, CleanInv, EnsureStorage
  PROVE  CleanInv'
<1> DEFINE c == pass.c
           r == refreshClusterTokenExpiration(c, pass.read)
           apply == IF repo.obj = "live" THEN ApplyStorageRepository(target[c])
                    ELSE [ok |-> TRUE, t |-> target[c]]
           y == StatusOf(r, cl[c])
           e == [cl[c] EXCEPT !.ensure = FALSE]
<1>t. /\ c \in Cluster /\ cl[c] \in ClusterType /\ target[c] \in TargetType
      /\ pass.read \in ClusterType /\ pass \in PassType
  BY FleetTypes DEF EnsureStorage
<1>0. pass # NoPass /\ Follows(pass, cl[c]) /\ Sound(cl[c], target[c])
  BY <1>t DEF EnsureStorage, CleanInv
<1>1. SameVelero(target[c], apply.t)
  BY <1>t, StorageSameVelero DEF SameVelero
<1>2. /\ target' = [target EXCEPT ![c] = apply.t] /\ pass' = NoPass
      /\ (cl' = [cl EXCEPT ![c] = e] \/ cl' = [cl EXCEPT ![c] = y])
  BY <1>t DEF EnsureStorage
<1>3. Sound(e, apply.t)
  <2>1. Meek(cl[c], e)
    BY <1>t DEF Meek, ClusterType
  <2> HIDE DEF e, apply
  <2> QED BY <1>0, <1>1, <2>1, MeekStep
<1>4. /\ y.obj = cl[c].obj /\ y.stage = cl[c].stage /\ y.gen = cl[c].gen /\ y.want = cl[c].want
      /\ y.early = cl[c].early /\ y.accepted = cl[c].accepted /\ y.uninstall = cl[c].uninstall
      /\ y.reason = r.reason /\ y.waits = r.waits /\ y.observed = r.observed
  BY <1>t, StatusFields
<1>5. /\ r.observed = pass.read.observed /\ r.waits = pass.read.waits
      /\ r.reason \in Waiting => r.reason = pass.read.reason
  BY <1>t, TokenFields
<1> HIDE DEF r, apply, y, e
<1>6. Sound(y, apply.t)
  <2>1. CASE cl[c].obj = "live"
    <3>1. FollowsLive(pass, cl[c])
      BY <1>0, <2>1 DEF Follows
    <3>2. Meek(cl[c], y)
      BY <1>4, <1>5, <3>1 DEF Meek, FollowsLive
    <3> QED BY <1>0, <1>1, <3>2, MeekStep
  <2>2. CASE cl[c].obj # "live"
    BY <1>0, <1>4, <2>2 DEF Sound, Follows
  <2> QED BY <2>1, <2>2
<1> QED BY <1>t, <1>2, <1>3, <1>6, OneSound

\* A step that leaves every Cluster, the pass and every Velero alone.
LEMMA SameVelerosKeepClean ==
  ASSUME CleanInv, \A d \in Cluster : SameVelero(target[d], target'[d]), UNCHANGED <<cl, pass>>
  PROVE  CleanInv'
<1>1. ASSUME NEW d \in Cluster PROVE Sound(cl'[d], target'[d])
  <2>1. Meek(cl[d], cl[d])
    BY DEF Meek
  <2> QED BY <2>1, MeekStep DEF CleanInv
<1> QED BY <1>1 DEF CleanInv

\* The pass over the DisasterConfig.
LEMMA ConfigKeepsClean ==
  ASSUME FleetInv, CleanInv, ReconcileConfig
  PROVE  CleanInv'
<1>t. target \in [Cluster -> TargetType] /\ Source \in Cluster /\ Target \in Cluster /\ Source # Target
  BY FleetTypes, PlatformAssumption
<1>1. UNCHANGED <<cl, pass>> /\ (target' = target \/ target' = ApplyBoth.target)
  BY DEF ReconcileConfig
<1>2. ASSUME NEW d \in Cluster PROVE SameVelero(target[d], target'[d])
  <2>1. CASE target' = target
    BY <2>1 DEF SameVelero
  <2>2. CASE target' = ApplyBoth.target
    <3> DEFINE s == ApplyStorageRepository(target[Source])
               t == ApplyStorageRepository(target[Target])
    <3>1. SameVelero(target[Source], s.t) /\ SameVelero(target[Target], t.t) /\ SameVelero(target[d], target[d])
      BY <1>t, StorageSameVelero DEF SameVelero
    <3>2. target' = [target EXCEPT ![Source] = s.t, ![Target] = IF s.ok THEN t.t ELSE @]
      BY <2>2 DEF ApplyBoth
    <3> HIDE DEF s, t
    <3>3. target'[d] = target[d] \/ (d = Source /\ target'[d] = s.t) \/ (d = Target /\ target'[d] = t.t)
      <4>1. CASE d = Source
        BY <1>t, <3>2, <4>1
      <4>2. CASE d = Target
        BY <1>t, <3>2, <4>2
      <4>3. CASE d # Source /\ d # Target
        BY <1>t, <3>2, <4>3
      <4> QED BY <4>1, <4>2, <4>3
    <3> QED BY <3>1, <3>3
  <2> QED BY <1>1, <2>1, <2>2
<1> QED BY <1>1, <1>2, SameVelerosKeepClean

\* Velero that comes up or goes down, and looks at its locations; the restart of
\* the operator, which forgets the pass; and signals.
LEMMA EnvironmentKeepsClean ==
  ASSUME FleetInv, CleanInv,
         Disturb \/ SignalStorage \/ \E c \in Cluster : VeleroStarts(c) \/ ValidateLocation(c)
  PROVE  CleanInv'
<1>t. target \in [Cluster -> TargetType]
  BY FleetTypes
<1>1. ASSUME NEW c \in Cluster, VeleroStarts(c) PROVE CleanInv'
  <2>1. \A d \in Cluster : SameVelero(target[d], target'[d])
    BY <1>t, <1>1 DEF VeleroStarts, SameVelero, TargetType
  <2> QED BY <1>1, <2>1, SameVelerosKeepClean DEF VeleroStarts
<1>2. ASSUME NEW c \in Cluster, ValidateLocation(c) PROVE CleanInv'
  <2>1. \A d \in Cluster : SameVelero(target[d], target'[d])
    BY <1>t, <1>2 DEF ValidateLocation, SameVelero, TargetType
  <2> QED BY <1>2, <2>1, SameVelerosKeepClean DEF ValidateLocation
<1>3. CASE Disturb
  <2>1. ASSUME NEW c \in Cluster, UNCHANGED pass,
               target' \in {[target EXCEPT ![c].up = FALSE], [target EXCEPT ![c].answered = FALSE]}
        PROVE  CleanInv'
    <3>1. \A d \in Cluster : SameVelero(target[d], target'[d])
      BY <1>t, <2>1 DEF SameVelero, TargetType
    <3> QED BY <1>3, <2>1, <3>1, SameVelerosKeepClean DEF Disturb
  <2>2. CASE pass' = NoPass /\ UNCHANGED <<cl, target>>
    BY <2>2 DEF CleanInv
  <2> QED BY <1>3, <2>1, <2>2 DEF Disturb
<1>4. CASE SignalStorage
  <2>1. PICK c \in Cluster : cl' = [cl EXCEPT ![c].ensure = TRUE]
    BY <1>4 DEF SignalStorage
  <2> DEFINE x == [cl[c] EXCEPT !.ensure = TRUE]
  <2>2. cl' = [cl EXCEPT ![c] = x] /\ UNCHANGED <<target, pass>>
    BY <1>4, <2>1, FleetTypes DEF SignalStorage
  <2>3. cl[c] \in ClusterType
    BY FleetTypes
  <2>4. Meek(cl[c], x) /\ x.reason = cl[c].reason
    BY <2>3 DEF Meek, ClusterType
  <2> HIDE DEF x
  <2>5. Sound(x, target[c])
    BY <2>4, MeekStep DEF CleanInv, SameVelero
  <2>6. ASSUME pass # NoPass PROVE Follows(pass', cl'[pass'.c])
    <3>1. CASE pass.c = c
      <4>1. Follows(pass, cl[c]) /\ cl'[pass'.c] = x /\ pass' = pass
        BY <2>2, <2>6, <3>1, FleetTypes DEF CleanInv
      <4> QED BY <2>4, <4>1 DEF Follows, FollowsLive, Meek
    <3>2. CASE pass.c # c
      BY <2>2, <2>6, <3>2, FleetTypes DEF CleanInv
    <3> QED BY <3>1, <3>2
  <2> QED BY <2>2, <2>5, <2>6, OneSoundCluster
<1> QED BY <1>1, <1>2, <1>3, <1>4

(***************************************************************************)
(* The theorems.                                                           *)
(***************************************************************************)
LEMMA CleanStarts == Init => CleanInv
<1> SUFFICES ASSUME Init PROVE CleanInv
  OBVIOUS
<1>0. pass = NoPass
  BY DEF Init, FleetInit
<1>1. ASSUME NEW c \in Cluster PROVE Sound(cl[c], target[c])
  <2>1. CASE part = "config"
    <3>1. cl[c] = Settled(c) /\ target[c].velero = Wanted(c) /\ target[c].ours
      BY <2>1 DEF Init
    <3>2. /\ Settled(c).accepted /\ Settled(c).stage = "ready" /\ Settled(c).obj = "live"
          /\ Settled(c).gen = 1 /\ Settled(c).observed = 1 /\ Settled(c).waits = 0
          /\ Settled(c).want = Wanted(c)
      BY DEF Settled, NoCluster
    <3>3. Applied(cl[c], target[c])
      BY <3>1, <3>2 DEF Applied, Installed, Wanted, Config
    <3>4. SoundLive(cl[c], target[c])
      <4>1. \A n, k, w : n = 1 /\ k = 1 /\ w = 0 => n > 0 /\ k <= n /\ w <= n /\ k # 0
        OBVIOUS
      <4> QED BY <3>1, <3>2, <3>3, <4>1 DEF SoundLive
    <3> QED BY <3>1, <3>2, <3>4 DEF Sound
  <2>2. CASE part # "config"
    <3>1. cl[c] = NoCluster
      BY <2>2 DEF Init, FleetInit
    <3>2. NoCluster.obj = "none" /\ ~NoCluster.accepted
      BY DEF NoCluster
    <3> QED BY <3>1, <3>2 DEF Sound
  <2> QED BY <2>1, <2>2
<1> QED BY <1>0, <1>1 DEF CleanInv

LEMMA CleanKept == FleetInv /\ CleanInv /\ [Next]_vars => CleanInv'
<1> SUFFICES ASSUME FleetInv, CleanInv, [Next]_vars PROVE CleanInv'
  OBVIOUS
<1>0. CASE UNCHANGED <<cl, target, pass>>
  BY <1>0 DEF CleanInv
<1>1. CASE UNCHANGED vars
  BY <1>0, <1>1 DEF vars
<1>2. CASE FleetUser \/ ConfigUser
  <2>1. CASE InstallLicense
    BY <1>0, <2>1 DEF InstallLicense
  <2>2. ASSUME NEW c \in Cluster, Create(c) \/ Edit(c) \/ Delete(c) PROVE CleanInv'
    BY <2>2, CreateKeepsClean, EditKeepsClean, DeleteKeepsClean
  <2> QED BY <1>2, <2>1, <2>2 DEF FleetUser, ConfigUser, UserStep
<1>3. ASSUME NEW c \in Cluster, FleetStart(c) PROVE CleanInv'
  BY <1>3, PrepareKeepsClean, ReadKeepsClean, DeletionKeepsClean DEF FleetStart, StartPass
<1>4. CASE FleetContinue
  BY <1>4, GateKeepsClean, WorkKeepsClean DEF FleetContinue, ContinuePass
<1>5. CASE FleetDeliver
  BY <1>0, <1>5 DEF FleetDeliver, Deliver
<1>6. CASE FleetDisturb \/ SignalStorage \/ \E c \in Cluster : FleetVelero(c) \/ ValidateLocation(c)
  BY <1>6, EnvironmentKeepsClean DEF FleetDisturb, FleetVelero
<1>7. CASE ReconcileGroup \/ InstanceChanges \/ EditGroup \/ EditStorage \/ ReconcileRepository
  BY <1>0, <1>7 DEF ReconcileGroup, InstanceChanges, EditGroup, EditStorage, ReconcileRepository
<1>8. CASE MemoryUser \/ RuntimePass \/ \E s \in Sync : SyncPass(s)
  BY <1>0, <1>8 DEF MemoryUser, RuntimePass, SyncPass, others, fleetVars
<1> QED BY <1>1, <1>2, <1>3, <1>4, <1>5, <1>6, <1>7, <1>8,
           EnsureStorageKeepsClean, ConfigKeepsClean DEF Next

LEMMA CleanInvHolds == Spec => [](FleetInv /\ CleanInv)
BY FleetStarts, FleetKept, CleanStarts, CleanKept, PTL DEF Spec

\* A Cluster that is Ready for its current generation has Velero in its target
\* as its spec asks, whatever was edited while a pass was under way, whichever
\* calls failed and whichever status writes were lost (needsInstall concludes
\* from the observed and the awaited generation that nothing is to be done).
\* Specs edited before the Cluster was first Ready are excepted: the metadata
\* that acceptCluster brings to the pass is newer than its spec, and a Velero
\* that is there is not brought up to date before that unless a registry is
\* asked for.
THEOREM ReadyIsApplied == Spec => []ReadyMeansApplied
<1>1. FleetInv /\ CleanInv => ReadyMeansApplied
  BY DEF CleanInv, Sound, SoundLive, ReadyMeansApplied, Applied
<1> QED BY <1>1, CleanInvHolds, PTL

\* A Cluster that is deleted with its Velero leaves none behind, even if the
\* deletion came while a pass was about to install it: handleDelete waits for
\* the end of that pass, and what the gate accepted is never skipped.
THEOREM DeletionUninstalls == Spec => []DeletedMeansUninstalled
<1>1. FleetInv /\ CleanInv => DeletedMeansUninstalled
  BY DEF CleanInv, Sound, DeletedMeansUninstalled
<1> QED BY <1>1, CleanInvHolds, PTL

=============================================================================
