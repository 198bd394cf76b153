------------------------------ MODULE Platform ------------------------------
(***************************************************************************)
(* What the protected applications stand on: the Clusters of ClusterFleet, *)
(* a StorageRepository, the DisasterConfig that brings its storage         *)
(* location to the source and the target cluster, the status of a          *)
(* DisasterGroup, and the memory of the operator (OperatorMemory).         *)
(***************************************************************************)
EXTENDS ClusterFleet, OperatorMemory

CONSTANTS
  Source, Target,   \* the two clusters of the DisasterConfig
  Instance,         \* the DisasterInstances of the namespace
  MaxRev,           \* bound on the generation of the StorageRepository
  Parts             \* what a behaviour is about

ASSUME PlatformAssumption ==
  /\ Source \in Cluster /\ Target \in Cluster /\ Source # Target
  /\ MaxRev \in Nat \ {0}
  /\ Parts \subseteq {"fleet", "config", "group", "memory"}

VARIABLES
  part,       \* what this behaviour is about
  repo,       \* the StorageRepository
  s3,         \* its object storage answers
  config,     \* the DisasterConfig
  inst,       \* state and reason of each DisasterInstance, "none" if it does not exist
  group       \* the DisasterGroup: members, labels, status; queued for a pass;
              \* missed: an event of a member was lost since the last pass

storageVars == <<repo, s3, config>>
groupVars == <<inst, group>>
vars == <<cl, target, limit, top, lag, seen, pass, changes, part, repo, s3, config, inst, group,
          rc, active, sync, jobs, upsets>>

\* One state stands for all that count alike: Active for those that are neither
\* Protected nor an error, Failed for ConfigError and for a paused instance whose
\* sync failed as well, one reason for all.  Resumed, it is Protected with the reason.
NoInstance == [state |-> "none", reason |-> ""]
InstanceStatus ==
  {NoInstance} \cup [state : {"Protected"}, reason : {"", "DataSyncFailed"}]
    \cup {[state |-> "Active", reason |-> ""], [state |-> "Failed", reason |-> "DataSyncFailed"]}

NoRepo == [obj |-> "none", stage |-> "new", rev |-> 0, status |-> "", observed |-> 0]
NoConfig == [obj |-> "none", stage |-> "new", edges |-> {}, status |-> ""]
NoStatus == [total |-> 0, ready |-> 0, missing |-> {}, errors |-> {}]
NoGroup == [members |-> {}, edges |-> {}, status |-> NoStatus, queued |-> FALSE, missed |-> FALSE]

\* A Cluster that has been Ready for a while.
Settled(c) ==
  [NoCluster EXCEPT !.obj = "live", !.stage = "ready", !.gen = 1, !.want = Wanted(c),
                    !.accepted = TRUE, !.status = "Ready", !.observed = 1, !.version = TRUE,
                    !.touched = TRUE]

Init ==
  /\ part \in Parts
  /\ changes = MaxChanges /\ pass = NoPass
  /\ IF part = "config"
     THEN /\ cl = [c \in Cluster |-> Settled(c)]
          /\ target = [c \in Cluster |->
                         [velero |-> Wanted(c), ours |-> TRUE, up |-> TRUE, answered |-> TRUE,
                          bsl |-> 0, avail |-> FALSE]]
          /\ limit = Cardinality(Cluster) /\ top = limit /\ lag = FALSE /\ seen = Cluster
          /\ repo = [NoRepo EXCEPT !.obj = "live", !.rev = 1]
          /\ config = [NoConfig EXCEPT !.obj = "live"]
     ELSE FleetInit /\ repo = NoRepo /\ config = NoConfig
  /\ s3 = TRUE
  /\ MemoryInit
  /\ IF part = "group"
     THEN /\ inst \in [Instance -> InstanceStatus]
          /\ group \in {[NoGroup EXCEPT !.members = M, !.queued = TRUE] : M \in SUBSET Instance}
     ELSE inst = [i \in Instance |-> NoInstance] /\ group = NoGroup

(***************************************************************************)
(* StorageRepository.                                                      *)
(***************************************************************************)

\* The change is consumed whether the storage answers or not.  A write that
\* fails is tried again with the next check.
ValidateS3Configuration ==
  \/ /\ Calm
     /\ repo' = [repo EXCEPT !.stage = "ready", !.observed = repo.rev,
                             !.status = IF s3 THEN "Available" ELSE "Unavailable"]
  \/ /\ Change
     /\ repo' = [repo EXCEPT !.stage = "ready"]

ReconcileRepository ==
  /\ repo.obj = "live"
  /\ \/ /\ repo.stage = "new"
        /\ repo' = [repo EXCEPT !.stage = "labelled"]
        /\ Calm
     \/ /\ repo.stage # "new"
        /\ ValidateS3Configuration
  /\ UNCHANGED <<cl, target, limit, top, lag, seen, pass, part, s3, config, groupVars, memoryVars>>

(***************************************************************************)
(* The storage location in a target.                                       *)
(***************************************************************************)

\* A new location is applied with an error, so that it is looked at again; one
\* that is updated passes without a look at its phase.
ApplyStorageRepository(t) ==
  IF ~Installed(t) THEN [ok |-> FALSE, t |-> t]
  ELSE IF t.bsl = 0 THEN [ok |-> FALSE, t |-> [t EXCEPT !.bsl = repo.rev, !.avail = FALSE]]
  ELSE IF t.bsl # repo.rev THEN [ok |-> TRUE, t |-> [t EXCEPT !.bsl = repo.rev]]
  ELSE [ok |-> t.avail, t |-> t]

\* The signal on a Cluster, handled in its pass instead of the other work.  It
\* is dropped when the repository does not exist.
EnsureStorage ==
  /\ pass # NoPass /\ pass.at = "work" /\ pass.read.ensure
  /\ LET c == pass.c
         r == refreshClusterTokenExpiration(c, pass.read)
         apply == IF repo.obj = "live" THEN ApplyStorageRepository(target[c])
                  ELSE [ok |-> TRUE, t |-> target[c]]
         \* metadata.resourceVersion has changed since the pass read it
         conflict == cl[c].gen # pass.read.gen \/ cl[c].obj # "live"
     IN /\ target' = [target EXCEPT ![c] = apply.t]
        /\ cl' = [cl EXCEPT ![c] = IF apply.ok /\ ~conflict THEN [@ EXCEPT !.ensure = FALSE]
                                   ELSE StatusOf(r, @)]
  /\ pass' = NoPass
  /\ UNCHANGED <<limit, top, lag, seen, changes, part, storageVars, groupVars, memoryVars>>

(***************************************************************************)
(* DisasterConfig.                                                         *)
(***************************************************************************)
Found == {c \in {Source, Target} : Exists(c)} \cup (IF repo.obj = "live" THEN {"repo"} ELSE {})

\* Mutant: the location is brought to the target only.
ApplyTargetOnly ==
  [status |-> IF ApplyStorageRepository(target[Target]).ok THEN "Ready" ELSE "Error",
   target |-> [target EXCEPT ![Target] = ApplyStorageRepository(@).t]]

\* Source first; the target waits until the source has its location.
ApplyBoth ==
  LET s == ApplyStorageRepository(target[Source])
      t == ApplyStorageRepository(target[Target])
  IN [status |-> IF s.ok /\ t.ok THEN "Ready" ELSE "Error",
      target |-> [target EXCEPT ![Source] = s.t, ![Target] = IF s.ok THEN t.t ELSE @]]

\* The dependencies in the order in which they are looked at.
Dependencies ==
  IF ~Exists(Source) THEN "Error"
  ELSE IF cl[Source].status # "Ready" THEN "NotReady"
  ELSE IF ~Exists(Target) THEN "Error"
  ELSE IF cl[Target].status # "Ready" THEN "NotReady"
  ELSE IF repo.obj # "live" THEN "Error"
  ELSE "met"

ReconcileConfig ==
  /\ config.obj = "live"
  /\ \/ /\ config.stage = "new"
        /\ config' = [config EXCEPT !.stage = "ready"]
        /\ UNCHANGED <<target, changes>>
     \/ /\ config.stage = "ready" /\ config.edges # Found
        /\ config' = [config EXCEPT !.edges = Found]
        /\ UNCHANGED <<target, changes>>
     \/ /\ config.stage = "ready" /\ config.edges = Found
        /\ \/ /\ config.status = ""
              /\ config' = [config EXCEPT !.status = "Pending"]
              /\ UNCHANGED <<target, changes>>
           \/ /\ config.status # "" /\ Dependencies # "met"
              /\ config' = [config EXCEPT !.status = Dependencies]
              /\ UNCHANGED <<target, changes>>
           \/ /\ config.status # "" /\ Dependencies = "met"
              /\ \/ Calm /\ config' = [config EXCEPT !.status = ApplyBoth.status]
                 \/ Change /\ UNCHANGED config
                 \/ Change /\ config' = [config EXCEPT !.status = "Error"]
              /\ target' = ApplyBoth.target
  /\ UNCHANGED <<cl, limit, top, lag, seen, pass, part, repo, s3, groupVars, memoryVars>>

(***************************************************************************)
(* DisasterGroup: the status of its instances, added up when the group or  *)
(* an instance of it changes.                                              *)
(***************************************************************************)
Members == {i \in group.members : inst[i] # NoInstance}

\* The name, and the state with the reason if there is one.
summarizeInstanceError(i) ==
  [name |-> i, state |-> IF inst[i].reason = "" THEN "" ELSE inst[i].state, reason |-> inst[i].reason]

\* Instances that are missing hide those in error.
Aggregate ==
  LET missing == group.members \ Members
      errors == {i \in Members : inst[i].state = "Failed" \/ inst[i].reason # ""}
  IN [total |-> Cardinality(group.members),
      ready |-> Cardinality({i \in Members : inst[i].state = "Protected"}),
      missing |-> missing,
      errors |-> IF missing = {} THEN {summarizeInstanceError(i) : i \in errors} ELSE {}]

\* A pass that changes the labels comes back; an instance that cannot be read has
\* no label, and ends the pass with an error when its status is needed.
ReconcileGroup ==
  /\ group.queued
  /\ \/ \E edges \in SUBSET Members :
          /\ IF edges = Members THEN Calm ELSE Change
          /\ group' = IF group.edges # edges THEN [group EXCEPT !.edges = edges]
                      ELSE [group EXCEPT !.status = Aggregate, !.queued = FALSE, !.missed = FALSE]
     \/ Change /\ UNCHANGED group
  /\ UNCHANGED <<cl, target, limit, top, lag, seen, pass, part, storageVars, inst, memoryVars>>

\* Mutant: only instances that exist after the event are looked up.
mapInstanceToGroupsExisting(i) ==
  group' = [group EXCEPT !.queued = @ \/ (i \in group.members /\ inst'[i] # NoInstance)]

\* The event is lost when the groups cannot be listed.
mapInstanceToGroups(i) ==
  \/ group' = [group EXCEPT !.queued = @ \/ i \in group.members]
  \/ group' = [group EXCEPT !.missed = @ \/ i \in group.members]

(***************************************************************************)
(* Users and the environment.                                              *)
(***************************************************************************)
InstanceChanges ==
  /\ part = "group" /\ Change
  /\ \E i \in Instance :
       /\ \E s \in InstanceStatus \ {inst[i]} : inst' = [inst EXCEPT ![i] = s]
       /\ mapInstanceToGroups(i)
  /\ UNCHANGED <<cl, target, limit, top, lag, seen, pass, part, storageVars, memoryVars>>

EditGroup ==
  /\ part = "group" /\ Change
  /\ \E M \in SUBSET Instance : group' = [group EXCEPT !.members = M, !.queued = TRUE]
  /\ UNCHANGED <<cl, target, limit, top, lag, seen, pass, part, storageVars, inst, memoryVars>>

\* The finalizers are removed without asking whether the object is in use, and
\* nothing is taken back from the targets.
DeleteRepository == repo.obj = "live" /\ repo' = [repo EXCEPT !.obj = "gone"] /\ UNCHANGED <<s3, config>>
DeleteConfig == config.obj = "live" /\ config' = [config EXCEPT !.obj = "gone"] /\ UNCHANGED <<repo, s3>>

EditStorage ==
  /\ part = "config" /\ Change
  /\ \/ repo.obj = "live" /\ repo.rev < MaxRev /\ repo' = [repo EXCEPT !.rev = @ + 1] /\ UNCHANGED <<s3, config>>
     \/ s3' = ~s3 /\ UNCHANGED <<repo, config>>
     \/ DeleteRepository
     \/ DeleteConfig
  /\ UNCHANGED <<cl, target, limit, top, lag, seen, pass, part, groupVars, memoryVars>>

SignalStorage ==
  /\ part = "config" /\ Change
  /\ \E c \in Cluster : cl[c].obj = "live" /\ cl' = [cl EXCEPT ![c].ensure = TRUE]
  /\ UNCHANGED <<target, limit, top, lag, seen, pass, part, storageVars, groupVars, memoryVars>>

\* Velero looks at the storage of a location.
ValidateLocation(c) ==
  /\ target[c].up /\ target[c].bsl # 0 /\ target[c].avail # s3
  /\ target' = [target EXCEPT ![c].avail = s3]
  /\ UNCHANGED <<cl, limit, top, lag, seen, pass, changes, part, storageVars, groupVars, memoryVars>>

\* The steps of ClusterFleet, which leave the rest alone.
rest == <<part, storageVars, groupVars, memoryVars>>

\* The steps of OperatorMemory, likewise.
others == <<fleetVars, part, storageVars, groupVars>>

MemoryUser ==
  part = "memory" /\ (EditRuntimeConfig \/ Restart \/ \E s \in Sync : EditSync(s)) /\ UNCHANGED others
RuntimePass == ReconcileRuntimeConfig /\ UNCHANGED others
SyncPass(s) == ReconcileSync(s) /\ UNCHANGED others

FleetUser == part = "fleet" /\ UserStep /\ UNCHANGED rest
ConfigUser == part = "config" /\ (\E c \in Cluster : Edit(c) \/ Delete(c)) /\ UNCHANGED rest
FleetStart(c) == StartPass(c) /\ UNCHANGED rest
FleetContinue == ContinuePass /\ UNCHANGED rest
FleetVelero(c) == VeleroStarts(c) /\ UNCHANGED rest
FleetDeliver == Deliver /\ UNCHANGED rest
FleetDisturb == Disturb /\ UNCHANGED rest

Next ==
  \/ FleetUser
  \/ ConfigUser
  \/ \E c \in Cluster : FleetStart(c) \/ FleetVelero(c) \/ ValidateLocation(c)
  \/ FleetContinue
  \/ FleetDeliver
  \/ FleetDisturb
  \/ EnsureStorage
  \/ ReconcileRepository
  \/ ReconcileConfig
  \/ ReconcileGroup
  \/ InstanceChanges
  \/ EditGroup
  \/ EditStorage
  \/ SignalStorage
  \/ MemoryUser
  \/ RuntimePass
  \/ \E s \in Sync : SyncPass(s)

Spec == Init /\ [][Next]_vars

\* The queue of the Clusters is fair to each of them, the other controllers
\* requeue every object, and Velero comes up and looks at its locations.
Fairness ==
  /\ \A c \in Cluster :
       SF_vars(FleetStart(c)) /\ WF_vars(FleetVelero(c)) /\ WF_vars(ValidateLocation(c))
  /\ WF_vars(FleetContinue) /\ WF_vars(EnsureStorage)
  /\ WF_vars(ReconcileRepository) /\ WF_vars(ReconcileConfig) /\ WF_vars(ReconcileGroup)

FairSpec == Spec /\ Fairness

(***************************************************************************)
(* Properties.                                                             *)
(***************************************************************************)

\* The status of a group that is not queued adds up its instances, unless an
\* event of one of them was lost since its last pass: no other change of an
\* instance, its creation or its deletion goes unnoticed, and the next pass
\* makes up for all that was missed.
GroupStatusCurrent ==
  part = "group" /\ ~group.queued /\ ~group.missed => group.status = Aggregate

\* Once users and the environment leave them alone, the repository tells
\* whether its storage answers, a signal to a Cluster has been answered unless
\* it does not, and the configuration is Ready exactly if both clusters and
\* the repository are there and the storage answers: every edit of the
\* repository has then reached both clusters.
StorageWorks ==
  \A c \in {Source, Target} : target[c].bsl = repo.rev /\ target[c].avail

ConfigSettles ==
  <>[](/\ repo.obj = "live" => repo.status = (IF s3 THEN "Available" ELSE "Unavailable")
       /\ \A c \in Cluster : cl[c].obj = "live" /\ cl[c].ensure => ~s3
       /\ config.obj = "live"
            => IF /\ s3 /\ repo.obj = "live"
                  /\ \A c \in {Source, Target} : cl[c].obj = "live"
               THEN config.status = "Ready" /\ StorageWorks
               ELSE config.status # "Ready")
=============================================================================
