--------------------------- MODULE FailoverSystem ---------------------------
(***************************************************************************)
(* One protected application: its DisasterInstance controller, the         *)
(* DisasterOperation controller, the replica recording of its ResourceSync *)
(* and the users, over shared API objects and two clusters.                *)
(***************************************************************************)
EXTENDS DisasterOperation

CONSTANTS
  Starts,        \* where the instance is first seen, see Init
  ManualSync,    \* users trigger a ResourceSync by hand (spec.trigger.manual)
  AllowSkip,     \* users set skipScaleDownSource
  AllowDelete    \* users delete DisasterOperation objects

StartKinds == {"fresh", "source", "target"}

ASSUME SystemAssumption ==
  /\ Starts \subseteq StartKinds
  /\ {ManualSync, AllowSkip, AllowDelete} \subseteq BOOLEAN

Other(c) == IF c = Source THEN Target ELSE Source

\* A fresh instance has no roles and no record yet.  An instance protected in
\* the reverse direction, with its application in the target, was failed over
\* and reprotected: its old primary is annotated.
StartedFrom(start) ==
  LET primary == IF start = "target" THEN Target ELSE Source
      fresh == start = "fresh"
  IN /\ inst = [fsm |-> IF fresh THEN "Pending" ELSE "Protected",
                primary |-> IF fresh THEN NoCluster ELSE primary,
                secondary |-> IF fresh THEN NoCluster ELSE Other(primary),
                reason |-> "", lastStable |-> ""]
     /\ up = [c \in Cluster |-> IF c = primary THEN Workload ELSE {}]
     /\ annot = [c \in Cluster |->
                   IF start = "target" /\ c = Source THEN Workload ELSE {}]
     /\ cm = [w \in Workload |-> IF fresh THEN "absent" ELSE "some"]

Init ==
  /\ \E start \in Starts : StartedFrom(start)
  /\ paused = {} /\ configReady = TRUE /\ syncFailed = FALSE
  /\ ops = [o \in Op |-> NoOperation]

(***************************************************************************)
(* The DisasterInstance controller, with the operations its watchdogs see. *)
(***************************************************************************)
RunningOf(type) == \E o \in Op : ops[o].type = type /\ InFlight(o)

LatestTerminal(type) ==
  LET done == {o \in Op : ops[o].type = type /\ Terminal(o)}
  IN {ops[o] : o \in {x \in done : \A y \in done : ops[y].at <= ops[x].at}}

ReconcileInstance ==
  /\ \/ guardByConfigHealth
     \/ handlePending
     \/ handleInitializing
     \/ handleProtected
     \/ handleActive
     \/ handleFailed
     \/ handleFailingOver(RunningOf("failover"), LatestTerminal("failover"))
     \/ handleFailingBack(RunningOf("reprotect"), LatestTerminal("reprotect"))
  /\ UNCHANGED <<workloadVars, ops>>

(***************************************************************************)
(* A ResourceSync that goes InProgress records the replicas of the primary *)
(* it finds: on its schedule unless paused, triggered by FinalSync, or     *)
(* triggered by hand, which is honoured while paused too.                  *)
(***************************************************************************)
AtFinalSync ==
  \E o \in Op : /\ ops[o].type = "failover" /\ ops[o].state = "Running"
                /\ ops[o].step = 3 /\ ops[o].stepState = "Running"

StartResourceSync ==
  /\ inst.primary # NoCluster
  /\ "resource" \notin paused \/ AtFinalSync \/ ManualSync
  /\ cm' = recordReplicasToConfigMap(inst.primary)
  /\ UNCHANGED <<up, annot, instanceVars, ops>>

DependencyChanges ==
  /\ ConfigHealthChanges \/ SyncHealthChanges
  /\ UNCHANGED <<workloadVars, ops>>

UserStep ==
  \E o \in Op :
    \/ \E type \in OpType, skip \in {FALSE, AllowSkip} : Submit(o, type, skip)
    \/ AllowDelete /\ DeleteOperation(o)

Next ==
  \/ \E o \in Op : ReconcileOperation(o)
  \/ ReconcileInstance
  \/ StartResourceSync
  \/ DependencyChanges
  \/ UserStep

Spec == Init /\ [][Next]_vars

\* Every variable has its type: in particular the step counters of an
\* operation stay within its list of steps, and the role status that the
\* watchdogs copy into the instance always names both clusters.
TypeOK == WorkloadsTypeOK /\ InstanceTypeOK /\ OperationTypeOK

(***************************************************************************)
(* Fairness.  Every result of a reconciliation that is not final asks for  *)
(* another one (Requeue, RequeueAfter or an error), and the controllers    *)
(* share no worker: each operation and the instance are reconciled again.  *)
(***************************************************************************)
Fairness ==
  /\ \A o \in Op : WF_vars(ReconcileOperation(o))
  /\ WF_vars(ReconcileInstance)

FairSpec == Spec /\ Fairness

(***************************************************************************)
(* Safety.                                                                 *)
(***************************************************************************)

\* At most one failover of an instance is past its admission: the conflict
\* check of handleFailover, done on every reconciliation, keeps a second one
\* from filling its steps while the first is in flight.
FailoverExclusive ==
  \A o, q \in Op :
    /\ ops[o].type = "failover" /\ InFlight(o) /\ ops[o].step > 0
    /\ ops[q].type = "failover" /\ InFlight(q) /\ ops[q].step > 0
    => o = q

\* An operation that is Completed or Failed never changes again: neither its
\* own reconciliation nor a cancel or undo that supersedes failovers touches
\* it, whatever writes were lost before.
TerminalStable ==
  [][\A o \in Op : Terminal(o) => ops'[o] = ops[o] \/ ops'[o].state = "Deleted"]_vars

Lifecycle == INSTANCE OperationLifecycle WITH Name <- Op, state <- [o \in Op |-> ops[o].state]

\* The operations on an instance keep the promise that group operations and
\* drills rely on when they wait for them.
OperationsFollowLifecycle == Lifecycle!Spec

\* At most one failover and one undo, and nothing else.
SingleUndo ==
  /\ \A o \in Op : ops[o].type \in {"none", "failover", "undo"}
  /\ \A o, q \in Op : ops[o].type = ops[q].type => o = q \/ ops[o].type = "none"

\* How users keep clear of operations that scale in opposite directions at the
\* same time.  None skips the scale-down.  No failover is submitted while a
\* cancel or undo is in flight, which supersedes it only when it is reconciled
\* next.  Undo goes by the roles, which other operations may write under it, and
\* pause and resume, admitted in any state, let a reprotect in while a failover
\* is in flight: an undo comes with one failover only, and a reprotect with
\* neither pause nor resume.
Disciplined ==
  /\ \A o \in Op : ~ops[o].skipDown /\ ~ops[o].late
  /\ \/ /\ Submitted("undo") = {}
        /\ Submitted("reprotect") = {} \/ Submitted("pause") \cup Submitted("resume") = {}
     \/ SingleUndo

\* The application never runs in both clusters, not even in part, as long as
\* users are disciplined: ScaleDownSource comes before ScaleUpTarget in a
\* failover, ScaleDownTarget before ScaleUpSource in a cancel, an undo and the
\* automatic compensation, and no two operations that scale get in between.
NoDualActive == Disciplined => up[Source] = {} \/ up[Target] = {}

\* The primary and the secondary of an instance are two different clusters
\* once they are known, although four handlers write them (handlePending,
\* the end of a failover, undo's SwitchRoles and the watchdogs, which copy
\* them from a finished operation).
RolesDistinct ==
  /\ inst.primary = inst.secondary => inst.primary = NoCluster
  /\ \A o \in Op : ops[o].role.primary = ops[o].role.secondary
                     => ops[o].role.primary = NoCluster

PrimaryServes ==
  rolesKnown /\ up[inst.primary] = Workload /\ up[inst.secondary] = {}

\* One failover, and no pause or resume, which are admitted in any state: they and
\* a second failover make the ResourceSync record counts of a source that is
\* already scaled down in part.
OneFailover ==
  /\ \A o, q \in Submitted("failover") : o = q
  /\ \A o \in Op : ops[o].type \notin {"pause", "resume"} /\ ~ops[o].skipDown

\* A switch that succeeds moves the whole application: when the instance goes
\* from FailingOver to Active, by the end of handleFailover or by the
\* watchdog, the roles are exchanged and the new primary runs every workload,
\* the old one none.
SwitchServes ==
  [][inst.fsm = "FailingOver" /\ inst'.fsm = "Active" /\ OneFailover
       => inst'.primary = inst.secondary /\ PrimaryServes']_vars

\* Nor an undo, which may be admitted in FailingOver, or a reprotect, which may
\* be admitted before the failover wrote its end.
CancelOnly == OneFailover /\ \A o \in Op : ops[o].type \in {"none", "failover", "cancel"}

Completes(o) == ops[o].state # "Completed" /\ ops'[o].state = "Completed"

Compensated(o) == ops[o].ac # "Succeeded" /\ ops'[o].ac = "Succeeded"

\* A cancel that completes, and a single failover that reports its compensation
\* as Succeeded, leave the application as it was before the failover: same
\* primary, every workload up there and down in the other cluster, both syncs
\* resumed.
RollbackRestores ==
  [][\A o \in Op :
       /\ (ops[o].type = "cancel" /\ Completes(o)) \/ Compensated(o)
       /\ CancelOnly
       => PrimaryServes' /\ paused' = {} /\ inst'.primary = inst.primary]_vars

\* An undo of a switch that had succeeded, when it completes, has brought the
\* application back in full: the cluster it reports as primary runs every
\* workload, the other none, and both syncs are resumed.  A reprotect that ends
\* while the write of the switch is lost lets the failover exchange the roles twice,
\* and a second undo scales the source down before the first one has ended.
UndoOfSwitchRestores ==
  [][\A o \in Op :
       /\ ops[o].type = "undo" /\ Completes(o) /\ ~ops[o].skipDown /\ SingleUndo
       /\ \A q \in Op : ops[q].type = "failover" => ops[q].state = "Completed"
       => PrimaryServes' /\ paused' = {}]_vars

(***************************************************************************)
(* The configuration guard.                                                *)
(***************************************************************************)

\* The configuration guard always knows where to go back to: ConfigError
\* holds the steady state the instance was in, never ConfigError itself.
ConfigErrorRemembers ==
  inst.fsm = "ConfigError" =>
    inst.lastStable \in {"Pending", "Initializing", "Protected", "Paused", "Active"}

(***************************************************************************)
(* Liveness.                                                               *)
(***************************************************************************)

\* Every operation that was submitted ends: Completed or Failed.
OperationsEnd == \A o \in Op : InFlight(o) ~> ~InFlight(o)

\* No instance stays for ever in an intermediate state: when its operation
\* ends without settling it, the watchdog does.
SwitchesEnd ==
  inst.fsm \in {"FailingOver", "FailingBack"} ~> inst.fsm \notin {"FailingOver", "FailingBack"}

=============================================================================
