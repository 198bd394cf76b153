----------------------- MODULE FailoverOutcomeProofs -----------------------
(***************************************************************************)
(* What a failover leaves behind: a switch that succeeds serves the whole  *)
(* application from the other cluster, one that is cancelled or            *)
(* compensated leaves it as it was, and its undo brings it back.           *)
(***************************************************************************)
EXTENDS NoDualActiveProofs

(***************************************************************************)
(* The inductive invariants.                                               *)
(***************************************************************************)
IsFailover(o) == ops[o].type = "failover"
IsCancel(o) == ops[o].type = "cancel"

\* No failover was submitted.
NoFailover == \A o \in Op : ~IsFailover(o)

\* One failover, and no pause or resume: OneFailover, but that users may skip the
\* scale-down.
LoneFailover ==
  /\ \A o, q \in Submitted("failover") : o = q
  /\ \A o \in Op : ops[o].type \notin {"pause", "resume"}

\* A failover that may still switch.
Underway(o) == IsFailover(o) /\ InFlight(o) /\ ops[o].ac = "None"

\* The application runs in the source as it did before the failover.
AtHome == up[Source] = Workload /\ up[Target] = {}

\* No count is recorded as zero: checkReplicas waits for every workload.
NoZero == \A w \in Workload : cm[w] # "zero"

\* The failover has not scaled the source down yet.
Unscaled(o) == ops[o].step < 4 \/ (ops[o].step = 4 /\ ops[o].stepState = "Pending")

\* The instance has not been switched.
Unswitched ==
  /\ inst.primary # Target
  /\ inst.fsm \notin {"Active", "FailingBack"} /\ inst.lastStable # "Active"

\* How far a failover that may still switch has come: from its third step on the
\* schedules are paused and the instance is in FailingOver, which it only leaves
\* when the last step fails or the failover ends.
OnItsWay(o) ==
  LET k == ops[o].step
      failingOver == inst.fsm = "FailingOver"
  IN /\ k < 8 => Unswitched
     /\ k \in 1..7 \/ ops[o].annotated => inst.primary # NoCluster
     /\ Unscaled(o) => AtHome
     /\ k \in 3..6 => failingOver
     /\ k = 7 => failingOver \/ (inst.fsm = "Failed" /\ inst.reason = "StepFailed")
     /\ k < 7 \/ failingOver => NoZero
     /\ k >= 3 /\ failingOver => paused = Syncs /\ inst.primary = Source
     /\ k >= 5 /\ failingOver /\ ~ops[o].skipDown => up[Source] = {}
     /\ k >= 7 /\ failingOver => up[Target] = Workload

SwitchInv ==
  LoneFailover =>
    /\ NoFailover => Unswitched /\ inst.fsm # "FailingOver" /\ AtHome /\ NoZero
    /\ \A o \in Op : Underway(o) => OnItsWay(o)
    /\ \A o \in Op : IsFailover(o) /\ ops[o].state = "Completed" => inst.fsm # "FailingOver"

\* The roles as the DisasterConfig has them.
HomeRole == [primary |-> Source, secondary |-> Target]

\* A failover that has not switched the instance.
FailoverBack(o) ==
  /\ ops[o].state # "Completed"
  /\ ops[o].state # "Deleted" /\ Unscaled(o) => AtHome
  /\ ops[o].ac = "Succeeded" => AtHome /\ ops[o].role = HomeRole
  /\ ops[o].step = 8 => ops[o].stepState = "Pending" /\ ops[o].ac = "None"
  /\ Underway(o) /\ ops[o].step <= 1 => paused = {}
  /\ Underway(o) /\ ops[o].step = 8 => inst.fsm = "FailingOver"
  /\ InFlight(o) /\ ops[o].ac = "Running" =>
       /\ ops[o].acStep >= 2 => up[Target] = {}
       /\ ops[o].acStep >= 3 => AtHome
       /\ ops[o].acStep = 4 => paused = {}

\* A cancel that is past its admission has the failover out of the way.
CancelBack(o) ==
  /\ \E q \in Op : IsFailover(q) /\ ~InFlight(q)
  /\ ops[o].step >= 2 => up[Target] = {}
  /\ ops[o].step >= 3 => AtHome
  /\ ops[o].step = 4 => paused = {}

\* What is down in the source can be brought back, and the instance is out of its
\* steady states as long as something is down.
Recoverable ==
  /\ NoZero /\ Workload \ up[Source] \subseteq annot[Source]
  /\ inst.fsm \notin {"Active", "FailingBack", "Paused"}
  /\ inst.lastStable \notin {"Active", "Paused"}
  /\ inst.fsm = "Failed" => inst.reason \notin {"RoleDriftDetected", "SyncFailed"}
  /\ inst.fsm \notin {"FailingOver", "Failed"} => AtHome
  /\ Past => inst.primary = Source
  /\ AtHome \/ "resource" \in paused

\* Before a switch.
Before ==
  /\ Recoverable
  /\ inst.fsm \in {"FailingOver", "Failed"} => ~NoFailover
  /\ NoFailover => paused = {}
  /\ \A o \in Op : IsFailover(o) => FailoverBack(o)
  /\ \A o \in Op : IsCancel(o) /\ Started(o) => CancelBack(o)

\* After it: nothing brings the instance to a state that admits a cancel.
After ==
  /\ up[Source] = {} /\ up[Target] = Workload
  /\ inst.fsm = "Active" \/ (inst.fsm = "ConfigError" /\ inst.lastStable = "Active")

RollbackInv ==
  /\ ~syncFailed
  /\ CancelOnly => IF inst.primary = Target THEN After ELSE Before

(***************************************************************************)
(* The operations.                                                         *)
(***************************************************************************)

\* What supersedeInFlightOperations leaves of the progress of an operation.
LEMMA SupersededProgress ==
  ASSUME TypeOK, NEW o \in Op, NEW q \in Op
  PROVE  /\ Superseded(o)[q].annotated = ops[q].annotated
         /\ \/ Superseded(o)[q].stepState = ops[q].stepState
            \/ ops[q].stepState = "Running" /\ Superseded(o)[q].stepState = "Failed"
<1> DEFINE s == Stamp(ops[q])
           x == [s EXCEPT !.state = "Failed", !.stepState = IF @ = "Running" THEN "Failed" ELSE @]
<1>1. s \in Operation /\ s.annotated = ops[q].annotated /\ s.stepState = ops[q].stepState
  BY StampType DEF TypeOK, OperationTypeOK, Operation
<1>2. Superseded(o)[q] \in {x, ops[q]}
  BY DEF Superseded
<1> HIDE DEF s
<1>3. /\ x.annotated = s.annotated
      /\ \/ x.stepState = s.stepState
         \/ s.stepState = "Running" /\ x.stepState = "Failed"
  BY <1>1 DEF Operation
<1> HIDE DEF x
<1> QED BY <1>1, <1>2, <1>3

\* The progress of an operation that goes on, or waits.
SameProgress(o) ==
  /\ InFlight(o)'
  /\ ops'[o].step = ops[o].step /\ ops'[o].stepState = ops[o].stepState
  /\ ops'[o].annotated = ops[o].annotated
  /\ ops'[o].ac = ops[o].ac /\ ops'[o].acStep = ops[o].acStep /\ ops'[o].role = ops[o].role

\* A failover that was failed by a cancel or undo.
Overtaken(o) ==
  /\ IsFailover(o) /\ InFlight(o) /\ ops'[o].state = "Failed"
  /\ ops'[o].step = ops[o].step
  /\ \/ ops'[o].stepState = ops[o].stepState
     \/ ops[o].stepState = "Running" /\ ops'[o].stepState = "Failed"
  /\ ops'[o].ac = ops[o].ac /\ ops'[o].role = ops[o].role

\* What a reconciliation does to the other operations.
LEMMA OthersProgress ==
  ASSUME TypeOK, NEW o \in Op, ReconcileOperation(o), NEW q \in Op, q # o
  PROVE  ops'[q] = ops[q] \/ Overtaken(q)
<1>1. OperationsWrite(o)
  BY ReconcileWrites
<1>2. PICK base \in {ops, Superseded(o)} :
        \/ ops' = base
        \/ \E op \in Operation : OwnWrite(o, op) /\ ops' = [base EXCEPT ![o] = op]
  BY <1>1 DEF OperationsWrite
<1>3. ops \in [Op -> Operation] /\ Superseded(o) \in [Op -> Operation]
  BY Untouched DEF TypeOK, OperationTypeOK
<1>4. ops'[q] = ops[q] \/ ops'[q] = Superseded(o)[q]
  BY <1>2, <1>3
<1> QED BY <1>4, Untouched, SupersededProgress DEF Overtaken, IsFailover

\* Every reconciliation of a cancel or undo, but its start, fails the failovers
\* in flight.
LEMMA CancelOvertakes ==
  ASSUME TypeOK, Compensating, NEW o \in Op, ReconcileOperation(o), ~Start(o),
         ops[o].type \in {"cancel", "undo"}, NEW q \in Op, IsFailover(q)
  PROVE  ~InFlight(q)'
<1>1. InFlight(o) /\ ops[o].ac # "Running"
  BY InFlightReconciled DEF Compensating
<1>2. ops' = Superseded(o) \/ \E op : ops' = [Superseded(o) EXCEPT ![o] = op]
  <2>1. ASSUME NEW op, WriteOperation(o, op)
        PROVE  ops' = Superseded(o) \/ \E x : ops' = [Superseded(o) EXCEPT ![o] = x]
    BY <2>1 DEF WriteOperation
  <2>2. CASE Reject(o) \/ LockRoles(o) \/ InitSteps(o) \/ StartStep(o) \/ StepDone(o)
    BY <2>1, <2>2 DEF Reject, LockRoles, InitSteps, StartStep, StepDone
  <2>3. CASE StepWaits(o) \/ FailStep(o) \/ Finish(o) \/ CancelProtected(o)
    BY <2>1, <2>3 DEF StepWaits, FailStep, Finish, CancelProtected
  <2>4. ~FailFailoverStep(o) /\ ~FinishRetried(o) /\ ~handlePause(o) /\ ~handleResume(o)
    BY DEF FailFailoverStep, FinishRetried, handlePause, handleResume
  <2>5. /\ ~StartAutoCancelStep(o) /\ ~AutoCancelStepDone(o) /\ ~AutoCancelStepWaits(o)
        /\ ~failFailoverAutoCancel(o) /\ ~completeFailoverAutoCancel(o)
    BY <1>1 DEF StartAutoCancelStep, AutoCancelStepDone, AutoCancelStepWaits,
                failFailoverAutoCancel, completeFailoverAutoCancel, AtAutoCancelStep
  <2> QED BY <2>2, <2>3, <2>4, <2>5 DEF ReconcileOperation
<1>3. /\ Superseded(o) \in [Op -> Operation] /\ q # o
      /\ ~isInFlightOperationState(Superseded(o)[q].state)
  BY Untouched DEF IsFailover
<1>4. ops'[q] = Superseded(o)[q]
  BY <1>2, <1>3
<1> QED BY <1>3, <1>4 DEF InFlight

(***************************************************************************)
(* The workloads.                                                          *)
(***************************************************************************)

\* Scaling the source down: what goes down is annotated.
LEMMA SourceDown ==
  ASSUME TypeOK, NEW complete \in BOOLEAN, NEW recorded,
         executeScaleDownSource(Source, complete, recorded)
  PROVE  /\ up'[Target] = up[Target]
         /\ complete => up'[Source] = {}
         /\ Workload \ up[Source] \subseteq annot[Source] => Workload \ up'[Source] \subseteq annot'[Source]
         /\ NoZero => NoZero'
<1>1. PICK done \in Scaled(up[Source], complete) :
        /\ cm' = IF recorded THEN recordReplicasBeforeScaleDown(Source) ELSE cm
        /\ up' = [up EXCEPT ![Source] = @ \ done]
        /\ annot' = [annot EXCEPT ![Source] = @ \cup done]
  BY DEF executeScaleDownSource
<1>2. /\ Source \in Cluster /\ Target \in Cluster /\ Source # Target
      /\ up \in [Cluster -> SUBSET Workload] /\ annot \in [Cluster -> SUBSET Workload]
  BY ClusterAssumption DEF Cluster, TypeOK, WorkloadsTypeOK
<1>3. up'[Target] = up[Target] /\ up'[Source] = up[Source] \ done /\ annot'[Source] = annot[Source] \cup done
  BY <1>1, <1>2
<1>4. complete => done = up[Source]
  BY <1>1 DEF Scaled
<1>5. NoZero => NoZero'
  BY <1>1 DEF recordReplicasBeforeScaleDown, NoZero
<1> QED BY <1>3, <1>4, <1>5

\* Scaling a cluster up leaves the other one, the records, and what is up there.
LEMMA ClusterUp ==
  ASSUME TypeOK, NEW c \in Cluster, NEW complete \in BOOLEAN, doScaleUp(c, complete)
  PROVE  /\ UNCHANGED <<annot, cm>>
         /\ \A d \in Cluster \ {c} : up'[d] = up[d]
         /\ up[c] \subseteq up'[c] /\ up'[c] \subseteq Workload
         /\ complete => up'[c] = up[c] \cup Restorable(c)
BY DEF doScaleUp, Scaled, Restorable, TypeOK, WorkloadsTypeOK

\* Where everything that is down is annotated and no count is zero, scaling up
\* brings everything back.
LEMMA SourceRestorable ==
  ASSUME TypeOK, NoZero, Workload \ up[Source] \subseteq annot[Source]
  PROVE  up[Source] \cup Restorable(Source) = Workload
<1>1. \A w \in Workload : cm[w] \in {"absent", "some"}
  BY DEF NoZero, TypeOK, WorkloadsTypeOK, Recorded
<1>2. \A w \in Workload \ up[Source] : expectedReplicas(Source, w) = "some"
  BY <1>1 DEF expectedReplicas
<1>3. Source \in Cluster
  BY DEF Cluster
<1> QED BY <1>2, <1>3 DEF Restorable, TypeOK, WorkloadsTypeOK

\* A target that passes the check serves every workload, if no count is zero.
LEMMA CheckedTarget ==
  ASSUME TypeOK, NoZero, checkReplicas(Target)
  PROVE  up[Target] = Workload
<1>1. \A w \in Workload : cm[w] \in {"absent", "some"}
  BY DEF NoZero, TypeOK, WorkloadsTypeOK, Recorded
<1>2. \A w \in Workload : expectedReplicas(Target, w) # "zero"
  BY <1>1 DEF expectedReplicas
<1>3. Target \in Cluster
  BY DEF Cluster
<1> QED BY <1>2, <1>3 DEF checkReplicas, TypeOK, WorkloadsTypeOK

\* What step k of a failover op of an instance with the roles of the DisasterConfig
\* does, completed or not.
StepEffect(op, k, complete) ==
  /\ k \in {1, 3, 6, 7} => UNCHANGED <<up, annot, cm, paused>>
  /\ k = 2 => UNCHANGED <<up, annot, cm>> /\ (complete => paused' = Syncs)
  /\ k = 4 => /\ UNCHANGED paused /\ up'[Target] = up[Target]
              /\ complete /\ ~op.skipDown => up'[Source] = {}
              /\ Workload \ up[Source] \subseteq annot[Source]
                   => Workload \ up'[Source] \subseteq annot'[Source]
              /\ NoZero => NoZero'
  /\ k = 5 => UNCHANGED <<annot, cm, paused>> /\ up'[Source] = up[Source]
  /\ k = 6 /\ complete /\ NoZero => up[Target] = Workload

LEMMA FailoverStepEffect ==
  ASSUME TypeOK, NEW op, NEW k \in 1..7, NEW complete \in BOOLEAN,
         k > 3 => PrimaryCluster = Source /\ SecondaryCluster = Target,
         executeFailoverStep(op, FailoverSteps[k], complete)
  PROVE  StepEffect(op, k, complete)
<1>1. /\ Source \in Cluster /\ Target \in Cluster /\ Source # Target
  BY ClusterAssumption DEF Cluster
<1>2. CASE k \in {1, 3, 7}
  <2>1. FailoverSteps[k] \in {"PreCheck", "FinalSync", "SwitchRoles"}
    BY <1>2, StepNames
  <2> QED BY <1>2, <2>1 DEF executeFailoverStep, workloadVars, StepEffect
<1>3. CASE k = 2
  BY <1>3, StepNames DEF executeFailoverStep, executePauseSchedules, workloadVars, StepEffect
<1>4. CASE k = 4
  <2>1. ScaleDownPrimary(op, complete) /\ UNCHANGED paused
    BY <1>4, StepNames DEF executeFailoverStep
  <2>2. CASE op.skipDown /\ UNCHANGED workloadVars
    BY <1>4, <2>1, <2>2 DEF workloadVars, StepEffect, NoZero
  <2>3. CASE \E recorded \in BOOLEAN : executeScaleDownSource(PrimaryCluster, complete, recorded)
    <3>1. PICK recorded \in BOOLEAN : executeScaleDownSource(Source, complete, recorded)
      BY <1>4, <2>3
    <3> QED BY <1>4, <2>1, <3>1, SourceDown DEF StepEffect
  <2> QED BY <2>1, <2>2, <2>3 DEF ScaleDownPrimary
<1>5. CASE k = 5
  <2>1. doScaleUp(Target, complete) /\ UNCHANGED paused
    BY <1>5, StepNames DEF executeFailoverStep
  <2> QED BY <1>1, <1>5, <2>1, ClusterUp DEF StepEffect
<1>6. CASE k = 6
  <2>1. /\ UNCHANGED <<workloadVars, paused>>
        /\ complete => checkReplicas(Target)
    BY <1>6, StepNames DEF executeFailoverStep
  <2> QED BY <1>6, <2>1, CheckedTarget DEF workloadVars, StepEffect
<1> QED BY <1>2, <1>3, <1>4, <1>5, <1>6

\* What a step of a cancel or a compensation does: it only brings the application
\* back to the source.
Homeward ==
  /\ up'[Target] \subseteq up[Target]
  /\ up[Source] \subseteq up'[Source] /\ up'[Source] \subseteq Workload
  /\ UNCHANGED <<annot, cm>>

CancelEffect(j, complete) ==
  /\ Homeward
  /\ j # 3 => UNCHANGED paused
  /\ j = 3 => UNCHANGED up
  /\ paused' \subseteq paused /\ ("resource" \in paused /\ ~complete => "resource" \in paused')
  /\ complete =>
       /\ j = 1 => up'[Target] = {}
       /\ j = 2 /\ NoZero /\ Workload \ up[Source] \subseteq annot[Source] => up'[Source] = Workload
       /\ j = 3 => paused' = {}

\* Nothing to do.
LEMMA StayingHome ==
  ASSUME TypeOK, UNCHANGED <<up, annot, cm>>
  PROVE  Homeward
<1>1. Source \in Cluster
  BY DEF Cluster
<1> QED BY <1>1 DEF Homeward, TypeOK, WorkloadsTypeOK

LEMMA ResumingSchedules ==
  ASSUME TypeOK, NEW complete \in BOOLEAN, executeResumeSchedules(complete)
  PROVE  /\ paused' \subseteq paused /\ ("resource" \in paused /\ ~complete => "resource" \in paused')
         /\ complete => paused' = {}
BY DEF executeResumeSchedules

LEMMA CancelStepEffect ==
  ASSUME TypeOK, NEW j \in 1..3, NEW complete \in BOOLEAN, executeCancelStep(CancelSteps[j], complete)
  PROVE  CancelEffect(j, complete)
<1>1. /\ Source \in Cluster /\ Target \in Cluster /\ Source # Target
      /\ up \in [Cluster -> SUBSET Workload]
  BY ClusterAssumption DEF Cluster, TypeOK, WorkloadsTypeOK
<1>2. CASE j = 1
  <2>1. doScaleDown(Target, complete) /\ UNCHANGED paused
    BY <1>2, StepNames DEF executeCancelStep
  <2>2. PICK done \in Scaled(up[Target], complete) :
          up' = [up EXCEPT ![Target] = @ \ done] /\ UNCHANGED <<annot, cm>>
    BY <2>1 DEF doScaleDown
  <2>3. complete => done = up[Target]
    BY <2>2 DEF Scaled
  <2>4. Homeward /\ (complete => up'[Target] = {})
    BY <1>1, <2>2, <2>3 DEF Homeward
  <2> QED BY <1>2, <2>1, <2>4 DEF CancelEffect
<1>3. CASE j = 2
  <2>1. doScaleUp(Source, complete) /\ UNCHANGED paused
    BY <1>3, StepNames DEF executeCancelStep
  <2>2. Homeward /\ (complete => up'[Source] = up[Source] \cup Restorable(Source))
    BY <1>1, <2>1, ClusterUp DEF Homeward
  <2> QED BY <1>3, <2>1, <2>2, SourceRestorable DEF CancelEffect
<1>4. CASE j = 3
  <2>1. executeResumeSchedules(complete) /\ UNCHANGED <<up, annot, cm>>
    BY <1>4, StepNames DEF executeCancelStep, workloadVars
  <2> QED BY <1>4, <2>1, StayingHome, ResumingSchedules DEF CancelEffect
<1> QED BY <1>2, <1>3, <1>4

\* An application that is at home stays there.
LEMMA HomeStays ==
  ASSUME AtHome, Homeward
  PROVE  AtHome'
BY DEF AtHome, Homeward

(***************************************************************************)
(* The reconciliations of a failover.                                      *)
(***************************************************************************)
WorkStays == UNCHANGED <<up, annot, cm, paused>>
RolesStay == inst'.primary = inst.primary /\ inst'.secondary = inst.secondary

\* The failover goes on: the instance is in FailingOver, entered if need be.
GoesOn ==
  /\ inst.fsm \in {"Protected", "FailingOver"} /\ inst'.fsm = "FailingOver"
  /\ RolesStay /\ inst'.lastStable = inst.lastStable

LEMMA FailoverGoesOn ==
  ASSUME TypeOK, NEW o \in Op, IsFailover(o), Admitted(o), inst' = Entered("failover")
  PROVE  GoesOn
<1>1. inst.fsm \in {"Protected", "FailingOver"}
  BY DEF IsFailover, Admitted, AdmittedFsm
<1> QED BY <1>1 DEF GoesOn, RolesStay, Entered, To, TypeOK, InstanceTypeOK, InstanceStatus

\* It is started, or given up.
FailoverWaits(o) ==
  WorkStays /\ inst' = inst /\ (SameProgress(o) \/ Overtaken(o))

LEMMA WaitsShape ==
  ASSUME TypeOK, NEW o \in Op, IsFailover(o), Start(o) \/ Reject(o)
  PROVE  FailoverWaits(o)
<1> DEFINE s == Stamp(ops[o])
           r == [s EXCEPT !.state = "Running"]
           f == [s EXCEPT !.state = "Failed"]
<1>1. /\ s \in Operation /\ s.step = ops[o].step /\ s.stepState = ops[o].stepState
      /\ s.annotated = ops[o].annotated /\ s.ac = ops[o].ac /\ s.acStep = ops[o].acStep
      /\ s.role = ops[o].role
  BY StampType DEF TypeOK, OperationTypeOK, Operation
<1>2. InFlight(o)
  BY InFlightReconciled DEF ReconcileOperation
<1>3. WorkStays /\ inst' = inst
  BY DEF Start, Reject, workloadVars, instanceVars, WorkStays
<1>4. ops'[o] = r \/ ops'[o] \in {f, ops[o]}
  <2>1. CASE Start(o)
    BY <2>1 DEF Start, TypeOK, OperationTypeOK
  <2>2. CASE Reject(o)
    <3>1. WriteOperation(o, f)
      BY <2>2 DEF Reject, IsFailover
    <3> QED BY <3>1, OwnWritten
  <2> QED BY <2>1, <2>2
<1> HIDE DEF s
<1>5. /\ r.state = "Running" /\ r.step = s.step /\ r.stepState = s.stepState
      /\ r.annotated = s.annotated /\ r.ac = s.ac /\ r.acStep = s.acStep /\ r.role = s.role
  BY <1>1 DEF Operation
<1>6. /\ f.state = "Failed" /\ f.step = s.step /\ f.stepState = s.stepState
      /\ f.ac = s.ac /\ f.role = s.role
  BY <1>1 DEF Operation
<1> HIDE DEF r, f
<1> QED BY <1>1, <1>2, <1>3, <1>4, <1>5, <1>6
        DEF FailoverWaits, SameProgress, Overtaken, InFlight, isInFlightOperationState

\* It fills its steps or starts one.
FailoverBegins(o) ==
  /\ GoesOn /\ WorkStays /\ InFlight(o)'
  /\ ops[o].ac = "None" /\ ops'[o].ac = "None"
  /\ ops'[o].step = ops[o].step \/ (ops'[o].step = 1 /\ ops[o].step = 0 /\ ops[o].annotated)
  /\ Unscaled(o)' => Unscaled(o)
  /\ ops[o].step < 8
  /\ ops'[o].annotated => ops[o].annotated \/ inst.secondary # NoCluster

LEMMA BeginsShape ==
  ASSUME TypeOK, Compensating, NEW o \in Op, IsFailover(o),
         LockRoles(o) \/ InitSteps(o) \/ StartStep(o)
  PROVE  FailoverBegins(o)
<1> DEFINE known == inst.secondary # NoCluster
           l == [ops[o] EXCEPT !.annotated = known]
           i == [ops[o] EXCEPT !.step = 1]
           s == [ops[o] EXCEPT !.stepState = "Running"]
<1>1. ops[o] \in Operation
  BY DEF TypeOK, OperationTypeOK
<1>2. InFlight(o) /\ ops[o].state = "Running"
  BY InFlightReconciled DEF ReconcileOperation, LockRoles, InitSteps, StartStep, AtStep, Admitted
<1>3. GoesOn /\ WorkStays
  <2>1. Admitted(o) /\ inst' = Entered("failover") /\ WorkStays
    BY DEF LockRoles, InitSteps, StartStep, AtStep, IsFailover, workloadVars, WorkStays
  <2> QED BY <2>1, FailoverGoesOn
<1>4. ops[o].ac = "None" /\ ops[o].step < 8
  <2>1. CASE StartStep(o)
    BY <1>1, <1>2, <2>1, AtStepNames DEF StartStep, Compensating, IsFailover, Operation
  <2>2. CASE LockRoles(o) \/ InitSteps(o)
    BY <1>2, <2>2 DEF LockRoles, InitSteps, Compensating
  <2> QED BY <2>1, <2>2
<1>5. \/ LockRoles(o) /\ ops'[o] \in {l, ops[o]}
      \/ /\ ops[o].step = 0 /\ ops[o].annotated /\ ops'[o] \in {i, ops[o]}
      \/ ops'[o] \in {s, ops[o]}
  <2>1. CASE LockRoles(o)
    BY <2>1, OwnWritten DEF LockRoles
  <2>2. CASE InitSteps(o)
    BY <2>2, OwnWritten DEF InitSteps, IsFailover
  <2>3. CASE StartStep(o)
    BY <2>3, OwnWritten DEF StartStep
  <2> QED BY <2>1, <2>2, <2>3
<1>k. known \in BOOLEAN /\ (known <=> inst.secondary # NoCluster)
  OBVIOUS
<1> HIDE DEF known
<1>6. /\ l.annotated = known /\ l.step = ops[o].step /\ l.stepState = ops[o].stepState
      /\ l.ac = ops[o].ac /\ l.state = ops[o].state
  BY <1>1, <1>k DEF Operation
<1>7. /\ i.annotated = ops[o].annotated /\ i.step = 1
      /\ i.ac = ops[o].ac /\ i.state = ops[o].state
  BY <1>1 DEF Operation
<1>8. /\ s.annotated = ops[o].annotated /\ s.step = ops[o].step /\ s.stepState = "Running"
      /\ s.ac = ops[o].ac /\ s.state = ops[o].state
  BY <1>1 DEF Operation
<1> HIDE DEF l, i, s
<1>9. ops'[o] = ops[o] => FailoverBegins(o)
  BY <1>2, <1>3, <1>4 DEF FailoverBegins, Unscaled, InFlight
<1>10. LockRoles(o) /\ ops'[o] = l => FailoverBegins(o)
  BY <1>2, <1>3, <1>4, <1>6, <1>k DEF FailoverBegins, Unscaled, InFlight
<1>11. ops[o].step = 0 /\ ops[o].annotated /\ ops'[o] = i => FailoverBegins(o)
  BY <1>2, <1>3, <1>4, <1>7 DEF FailoverBegins, Unscaled, InFlight
<1>12. ops'[o] = s => FailoverBegins(o)
  <2>1. ops'[o] = s => (Unscaled(o)' => Unscaled(o))
    BY <1>1, <1>8 DEF Unscaled, Operation
  <2> QED BY <1>2, <1>3, <1>4, <1>8, <2>1 DEF FailoverBegins, InFlight
<1> QED BY <1>5, <1>9, <1>10, <1>11, <1>12

\* It completes a step.
FailoverGoes(o) ==
  /\ GoesOn /\ InFlight(o)'
  /\ ops[o].ac = "None" /\ ops'[o].ac = "None"
  /\ ops[o].step \in 1..7 /\ ops[o].stepState = "Running"
  /\ StepEffect(ops[o], ops[o].step, TRUE)
  /\ ops'[o].annotated = ops[o].annotated
  /\ \/ ops'[o].step = ops[o].step + 1 /\ ops'[o].stepState = "Pending"
     \/ ops'[o].step = ops[o].step /\ ops'[o].stepState = "Running"

\* The clusters that its steps scale.
OnSource(o) ==
  /\ ops[o].step \in 4..7 /\ ops[o].ac = "None"
  /\ inst.fsm \in {"Protected", "FailingOver"}
  => PrimaryCluster = Source /\ SecondaryCluster = Target

LEMMA StepsShape ==
  ASSUME TypeOK, Compensating, NEW o \in Op, IsFailover(o), OnSource(o), StepDone(o)
  PROVE  FailoverGoes(o)
<1> DEFINE k == ops[o].step
           n == k + 1
           op == [ops[o] EXCEPT !.step = n, !.stepState = "Pending"]
<1>1. ops[o] \in Operation
  BY DEF TypeOK, OperationTypeOK
<1>2. /\ AtStep(o, "Running") /\ ExecuteStep(ops[o], CurrentName(o), TRUE)
      /\ inst' = SwitchedBack(ops[o], CurrentName(o), Entered(ops[o].type))
  BY DEF StepDone
<1>3. InFlight(o) /\ ops[o].ac = "None" /\ ops[o].stepState = "Running"
  BY <1>2, AtStepNames DEF Compensating, AtStep
<1>4. k \in 1..7 /\ CurrentName(o) = FailoverSteps[k]
  BY <1>2, AtStepNames DEF IsFailover
<1>5. GoesOn
  BY <1>2, FailoverGoesOn DEF SwitchedBack, IsFailover, AtStep
<1>6. StepEffect(ops[o], k, TRUE)
  <2>1. executeFailoverStep(ops[o], FailoverSteps[k], TRUE)
    BY <1>2, <1>4 DEF ExecuteStep, IsFailover
  <2>2. k > 3 => PrimaryCluster = Source /\ SecondaryCluster = Target
    BY <1>3, <1>4, <1>5 DEF OnSource, GoesOn
  <2> QED BY <1>4, <2>1, <2>2, FailoverStepEffect
<1>7. ops'[o] \in {op, ops[o]}
  BY OwnWritten DEF StepDone
<1>n. n = ops[o].step + 1
  OBVIOUS
<1> HIDE DEF n
<1>8. /\ op.annotated = ops[o].annotated /\ op.step = n /\ op.stepState = "Pending"
      /\ op.ac = ops[o].ac /\ op.state = ops[o].state
  BY <1>1 DEF Operation
<1> HIDE DEF op, k
<1> QED BY <1>3, <1>4, <1>5, <1>6, <1>7, <1>8, <1>n DEF FailoverGoes, InFlight, k

\* One fails: it rolls back, begins its compensation, or gives up.
FailoverFails(o) ==
  LET k == ops[o].step
  IN /\ ops[o].ac = "None" /\ k \in 1..7 /\ ops[o].stepState = "Running"
     /\ inst.fsm \in {"Protected", "FailingOver"}
     /\ StepEffect(ops[o], k, FALSE)
     /\ RolesStay /\ inst'.lastStable = inst.lastStable
     /\ ops'[o].step = k
     /\ \/ /\ k = 1 /\ inst'.fsm \in {"Protected", "FailingOver"}
           /\ \/ SameProgress(o)
              \/ /\ ops'[o].state = "Failed" /\ ops'[o].ac = "Succeeded"
                 /\ ops'[o].role = RoleStatus(inst)
        \/ /\ k \in 2..6 /\ inst'.fsm = "FailingOver"
           /\ \/ SameProgress(o)
              \/ /\ InFlight(o)' /\ ops'[o].ac = "Running" /\ ops'[o].acStep = 1
                 /\ ops'[o].stepState = "Failed"
        \/ /\ k = 7
           /\ \/ inst'.fsm = "FailingOver"
              \/ inst'.fsm = "Failed" /\ inst'.reason = "StepFailed"
           /\ SameProgress(o) \/ (ops'[o].state = "Failed" /\ ops'[o].ac = "NotTriggered")

LEMMA FailsShape ==
  ASSUME TypeOK, Compensating, NEW o \in Op, IsFailover(o), OnSource(o), FailFailoverStep(o)
  PROVE  FailoverFails(o)
<1> DEFINE k == ops[o].step
           d == FailedAtStep(ops[o])
           i == Entered("failover")
           r == RoleStatus(i)
           name == CurrentName(o)
           mode == resolveFailoverAutoCancelMode(name)
           a == [d EXCEPT !.ac = "Succeeded", !.role = r]
           b == [ops[o] EXCEPT !.stepState = "Failed", !.ac = "Running", !.acStep = 1,
                   !.acState = "Pending", !.manual = FALSE]
           c == [d EXCEPT !.ac = "NotTriggered", !.manual = TRUE]
<1>1. ops[o] \in Operation
  BY DEF TypeOK, OperationTypeOK
<1>2. AtStep(o, "Running") /\ StepFails(o, name) /\ Admitted(o)
  BY DEF FailFailoverStep, AtStep
<1>3. InFlight(o) /\ ops[o].ac = "None" /\ ops[o].stepState = "Running"
  BY <1>2, AtStepNames DEF Compensating, AtStep
<1>4. k \in 1..7 /\ name = FailoverSteps[k]
  BY <1>2, AtStepNames DEF IsFailover
<1>5. /\ i \in InstanceStatus /\ i.fsm = "FailingOver" /\ i.primary = inst.primary
      /\ i.secondary = inst.secondary /\ i.lastStable = inst.lastStable
      /\ inst.fsm \in {"Protected", "FailingOver"}
  <2>1. inst.fsm \in {"Protected", "FailingOver"}
    BY <1>2 DEF IsFailover, Admitted, AdmittedFsm
  <2> QED BY <2>1, EnteredInstance DEF Entered, To, TypeOK, InstanceTypeOK, InstanceStatus
<1>6. StepEffect(ops[o], k, FALSE)
  <2>1. CASE ExecuteStep(ops[o], name, FALSE)
    <3>1. executeFailoverStep(ops[o], FailoverSteps[k], FALSE)
      BY <1>4, <2>1 DEF ExecuteStep, IsFailover
    <3>2. k > 3 => PrimaryCluster = Source /\ SecondaryCluster = Target
      BY <1>3, <1>4, <1>5 DEF OnSource
    <3> QED BY <1>4, <3>1, <3>2, FailoverStepEffect
  <2>2. CASE UNCHANGED <<workloadVars, paused>>
    BY <2>2 DEF workloadVars, StepEffect, NoZero
  <2> QED BY <1>2, <2>1, <2>2 DEF StepFails
<1>7. /\ d \in Operation /\ d.state = "Failed" /\ d.step = k
  <2> DEFINE s == Stamp(ops[o])
  <2>1. s \in Operation /\ s.step = k
    BY <1>1, StampType DEF Operation
  <2>2. d = [s EXCEPT !.state = "Failed", !.stepState = "Failed"]
    BY DEF FailedAtStep
  <2> HIDE DEF s, d
  <2> QED BY <2>1, <2>2 DEF Operation
<1>8. \/ k = 1 /\ ops'[o] \in {a, ops[o]} /\ inst' \in {i, To(i, "Protected")}
      \/ k \in 2..6 /\ ops'[o] \in {b, ops[o]} /\ inst' = i
      \/ k = 7 /\ ops'[o] \in {c, ops[o]} /\ inst' \in {i, ToFailed(i, "StepFailed")}
  <2>1. \/ k = 1 /\ mode = "DirectRollback"
        \/ k \in 2..6 /\ mode = "CancelPath"
        \/ k = 7 /\ mode = "NoAutoCancel"
    BY <1>4, StepNames DEF resolveFailoverAutoCancelMode
  <2>2. \/ mode = "DirectRollback" /\ Settle("failover", name, i) /\ WriteOperation(o, a)
        \/ mode = "CancelPath" /\ inst' = i /\ WriteOperation(o, b)
        \/ mode = "NoAutoCancel" /\ Settle("failover", name, i) /\ WriteOperation(o, c)
    BY DEF FailFailoverStep
  <2>3. Settle("failover", name, i) =>
          inst' \in {i, IF mode = "DirectRollback" THEN To(i, "Protected")
                        ELSE ToFailed(i, "StepFailed")}
    BY <1>5 DEF Settle, settleInstanceStateOnStepFailure
  <2>4. \A op : WriteOperation(o, op) => ops'[o] \in {op, ops[o]}
    BY OwnWritten
  <2> HIDE DEF mode, name, i, a, b, c
  <2> QED BY <2>1, <2>2, <2>3, <2>4
<1>9. r = RoleStatus(inst)
  BY <1>5 DEF RoleStatus
<1> HIDE DEF d, r
<1>10. a.state = "Failed" /\ a.ac = "Succeeded" /\ a.role = r /\ a.step = k
  BY <1>7 DEF Operation
<1>11. c.state = "Failed" /\ c.ac = "NotTriggered" /\ c.step = k
  BY <1>7 DEF Operation
<1>12. b.state = ops[o].state /\ b.ac = "Running" /\ b.acStep = 1 /\ b.step = k /\ b.stepState = "Failed"
  BY <1>1 DEF Operation
<1>13. \/ inst' = i
       \/ k = 1 /\ inst'.fsm = "Protected" /\ inst'.primary = i.primary
          /\ inst'.secondary = i.secondary /\ inst'.lastStable = i.lastStable
       \/ k = 7 /\ inst'.fsm = "Failed" /\ inst'.reason = "StepFailed" /\ inst'.primary = i.primary
          /\ inst'.secondary = i.secondary /\ inst'.lastStable = i.lastStable
  <2> HIDE DEF i
  <2> QED BY <1>5, <1>8 DEF To, ToFailed, InstanceStatus
<1>14. RolesStay /\ inst'.lastStable = inst.lastStable
  <2> HIDE DEF i
  <2> QED BY <1>5, <1>13 DEF RolesStay
<1>15. ops'[o] = ops[o] => SameProgress(o) /\ ops'[o].step = k
  BY <1>3 DEF SameProgress, InFlight
<1> HIDE DEF i, name, mode, a, b, c
<1>16. CASE k = 1
  <2>1. inst'.fsm \in {"Protected", "FailingOver"}
    BY <1>5, <1>13, <1>16
  <2>2. ops'[o] \in {a, ops[o]}
    BY <1>8, <1>16
  <2> QED BY <1>3, <1>4, <1>5, <1>6, <1>9, <1>10, <1>14, <1>15, <1>16, <2>1, <2>2 DEF FailoverFails
<1>17. CASE k \in 2..6
  <2>1. k # 1 /\ k # 7
    BY <1>17
  <2>2. InFlight(o)' \/ ops'[o] # b
    BY <1>3, <1>12 DEF InFlight
  <2> QED BY <1>3, <1>4, <1>5, <1>6, <1>8, <1>12, <1>13, <1>14, <1>15, <1>17, <2>1, <2>2 DEF FailoverFails
<1>18. CASE k = 7
  <2>1. inst'.fsm = "FailingOver" \/ (inst'.fsm = "Failed" /\ inst'.reason = "StepFailed")
    BY <1>5, <1>13, <1>18
  <2>2. ops'[o] \in {c, ops[o]}
    BY <1>8, <1>18
  <2> QED BY <1>3, <1>4, <1>5, <1>6, <1>11, <1>14, <1>15, <1>18, <2>1, <2>2 DEF FailoverFails
<1> QED BY <1>4, <1>16, <1>17, <1>18

\* It is compensated.
FailoverCompensates(o) ==
  LET j == ops[o].acStep
  IN /\ ops[o].ac = "Running" /\ inst.fsm \in {"Protected", "FailingOver"}
     /\ RolesStay /\ inst'.lastStable = inst.lastStable
     /\ ops'[o].step = ops[o].step /\ ops'[o].stepState = ops[o].stepState
     /\ \/ /\ inst'.fsm = "FailingOver" /\ WorkStays /\ SameProgress(o)
        \/ /\ inst'.fsm = "FailingOver" /\ j \in 1..3 /\ CancelEffect(j, TRUE)
           /\ InFlight(o)' /\ ops'[o].ac = "Running" /\ ops'[o].acStep \in {j, j + 1}
        \/ /\ \/ inst'.fsm = "FailingOver"
              \/ inst'.fsm = "Failed" /\ inst'.reason = "StepFailed"
           /\ j \in 1..3 /\ CancelEffect(j, FALSE)
           /\ SameProgress(o) \/ (ops'[o].state = "Failed" /\ ops'[o].ac = "Failed")
        \/ /\ inst'.fsm = "Protected" /\ j = 4 /\ WorkStays
           /\ \/ SameProgress(o)
              \/ /\ ops'[o].state = "Failed" /\ ops'[o].ac = "Succeeded"
                 /\ ops'[o].role = RoleStatus(inst)

LEMMA CompensatesShape ==
  ASSUME TypeOK, Compensating, NEW o \in Op, IsFailover(o),
         \/ StartAutoCancelStep(o) \/ AutoCancelStepDone(o) \/ AutoCancelStepWaits(o)
         \/ failFailoverAutoCancel(o) \/ completeFailoverAutoCancel(o)
  PROVE  FailoverCompensates(o)
<1> DEFINE j == ops[o].acStep
           n == j + 1
           s == Stamp(ops[o])
           i == Entered("failover")
           name == CancelSteps[j]
           a == [ops[o] EXCEPT !.acState = "Running"]
           b == [ops[o] EXCEPT !.acStep = n, !.acState = "Pending"]
           x == [s EXCEPT !.state = "Failed", !.ac = "Failed"]
           c == [x EXCEPT !.acState = "Failed", !.manual = TRUE]
           r == RoleStatus(inst)
           y == [s EXCEPT !.state = "Failed", !.ac = "Succeeded"]
           d == [y EXCEPT !.manual = FALSE, !.role = r]
<1>1. ops[o] \in Operation
  BY DEF TypeOK, OperationTypeOK
<1>2. /\ Admitted(o) /\ ops[o].ac = "Running" /\ InFlight(o)
      /\ inst.fsm \in {"Protected", "FailingOver"}
  <2>1. Admitted(o) /\ ops[o].ac = "Running"
    BY DEF StartAutoCancelStep, AutoCancelStepDone, AutoCancelStepWaits, failFailoverAutoCancel,
           completeFailoverAutoCancel, AtAutoCancelStep
  <2> QED BY <2>1 DEF IsFailover, Admitted, AdmittedFsm, InFlight, isInFlightOperationState
<1>3. /\ i \in InstanceStatus /\ i.fsm = "FailingOver" /\ i.primary = inst.primary
      /\ i.secondary = inst.secondary /\ i.lastStable = inst.lastStable
  BY <1>2, EnteredInstance DEF Entered, To, TypeOK, InstanceTypeOK, InstanceStatus
<1>4. /\ s \in Operation /\ s.step = ops[o].step /\ s.stepState = ops[o].stepState
  BY <1>1, StampType DEF Operation
<1>n. n = j + 1
  OBVIOUS
<1> HIDE DEF n, r
<1>5. /\ a.state = ops[o].state /\ a.step = ops[o].step /\ a.stepState = ops[o].stepState
      /\ a.annotated = ops[o].annotated /\ a.ac = ops[o].ac /\ a.acStep = j /\ a.role = ops[o].role
  BY <1>1 DEF Operation
<1>6. /\ b.state = ops[o].state /\ b.step = ops[o].step /\ b.stepState = ops[o].stepState
      /\ b.ac = ops[o].ac /\ b.acStep = n
  BY <1>1 DEF Operation
<1>7. /\ c.state = "Failed" /\ c.ac = "Failed" /\ c.step = ops[o].step /\ c.stepState = ops[o].stepState
  <2> HIDE DEF s
  <2>1. x \in Operation /\ x.state = "Failed" /\ x.ac = "Failed" /\ x.step = s.step
        /\ x.stepState = s.stepState
    BY <1>4 DEF Operation
  <2> HIDE DEF x
  <2> QED BY <1>4, <2>1 DEF Operation
<1>8. /\ d.state = "Failed" /\ d.ac = "Succeeded" /\ d.role = r /\ d.step = ops[o].step
      /\ d.stepState = ops[o].stepState
  <2> HIDE DEF s
  <2>1. y \in Operation /\ y.state = "Failed" /\ y.ac = "Succeeded" /\ y.step = s.step
        /\ y.stepState = s.stepState
    BY <1>4 DEF Operation
  <2> HIDE DEF y
  <2> QED BY <1>4, <2>1 DEF Operation
<1>9. /\ ops'[o] = ops[o] => /\ SameProgress(o) /\ InFlight(o)' /\ ops'[o].step = ops[o].step
                             /\ ops'[o].stepState = ops[o].stepState
      /\ ops'[o] = a => /\ SameProgress(o) /\ ops'[o].step = ops[o].step
                        /\ ops'[o].stepState = ops[o].stepState
      /\ ops'[o] = b => InFlight(o)'
  <2> HIDE DEF a, b
  <2> QED BY <1>2, <1>5, <1>6 DEF SameProgress, InFlight
<1>c. AtAutoCancelStep(o, "Pending") \/ AtAutoCancelStep(o, "Running") => j \in 1..3
  BY CancelStepCount DEF AtAutoCancelStep
<1>10. CASE StartAutoCancelStep(o)
  <2>1. inst' = i /\ WorkStays /\ ops'[o] \in {a, ops[o]}
    BY <1>10, OwnWritten DEF StartAutoCancelStep, workloadVars, WorkStays
  <2> HIDE DEF i, a
  <2> QED BY <1>2, <1>3, <1>9, <2>1 DEF FailoverCompensates, RolesStay
<1>11. CASE AutoCancelStepDone(o) \/ AutoCancelStepWaits(o)
  <2>1. inst' = i /\ j \in 1..3
    BY <1>11, <1>c DEF AutoCancelStepDone, AutoCancelStepWaits
  <2>2. CancelEffect(j, TRUE)
    <3>1. executeCancelStep(CancelSteps[j], TRUE)
      BY <1>11 DEF AutoCancelStepDone, AutoCancelStepWaits
    <3> QED BY <2>1, <3>1, CancelStepEffect
  <2>3. ops'[o] \in {b, ops[o]}
    BY <1>11, OwnWritten DEF AutoCancelStepDone, AutoCancelStepWaits, n
  <2> HIDE DEF i, b
  <2> QED BY <1>2, <1>3, <1>6, <1>9, <1>n, <2>1, <2>2, <2>3 DEF FailoverCompensates, RolesStay
<1>12. CASE failFailoverAutoCancel(o)
  <2>1. /\ j \in 1..3 /\ Settle("cancel", name, i) /\ ops'[o] \in {c, ops[o]}
    BY <1>12, <1>c, OwnWritten DEF failFailoverAutoCancel
  <2>2. CancelEffect(j, FALSE)
    <3>1. CASE executeCancelStep(CancelSteps[j], FALSE)
      BY <2>1, <3>1, CancelStepEffect
    <3>2. CASE UNCHANGED <<workloadVars, paused>>
      BY <3>2, StayingHome DEF workloadVars, CancelEffect
    <3> QED BY <1>12, <3>1, <3>2 DEF failFailoverAutoCancel
  <2>3. inst' \in {i, ToFailed(i, "StepFailed")}
    BY <1>3, <2>1 DEF Settle, settleInstanceStateOnStepFailure
  <2>4. /\ RolesStay /\ inst'.lastStable = inst.lastStable
        /\ inst'.fsm = "FailingOver" \/ (inst'.fsm = "Failed" /\ inst'.reason = "StepFailed")
    <3> HIDE DEF i
    <3> QED BY <1>3, <2>3 DEF RolesStay, ToFailed, InstanceStatus
  <2> HIDE DEF i, c
  <2> QED BY <1>2, <1>7, <1>9, <2>1, <2>2, <2>4 DEF FailoverCompensates
<1>13. CASE completeFailoverAutoCancel(o)
  <2>1. j = 4 /\ WorkStays /\ ops'[o] \in {d, ops[o]} /\ inst' = To(inst, "Protected")
    BY <1>13, OwnWritten, CancelStepCount DEF completeFailoverAutoCancel, r, workloadVars, WorkStays
  <2>2. RolesStay /\ inst'.fsm = "Protected" /\ inst'.lastStable = inst.lastStable
    BY <2>1 DEF RolesStay, To, TypeOK, InstanceTypeOK, InstanceStatus
  <2> HIDE DEF d
  <2> QED BY <1>2, <1>8, <1>9, <2>1, <2>2 DEF FailoverCompensates, r
<1> QED BY <1>10, <1>11, <1>12, <1>13

\* It ends: the roles are exchanged.
FailoverEnds(o) ==
  /\ ops[o].ac = "None" /\ ops[o].step = 8 /\ WorkStays
  /\ inst.fsm \in {"Protected", "FailingOver"} /\ inst'.fsm = "Active"
  /\ inst'.primary = inst.secondary /\ inst'.secondary = inst.primary
  /\ ops'[o].step = 8 /\ ops'[o].ac = "None"
  /\ SameProgress(o) \/ ops'[o].state = "Completed"

LEMMA EndsShape ==
  ASSUME TypeOK, Compensating, NEW o \in Op, IsFailover(o), Finish(o)
  PROVE  FailoverEnds(o)
<1> DEFINE s == Stamp(ops[o])
           r == RoleStatus(Finished("failover"))
           op == [s EXCEPT !.state = "Completed", !.role = r]
<1>1. /\ Admitted(o) /\ ops[o].ac # "Running" /\ ops[o].step = 8 /\ InFlight(o)
  <2>1. Admitted(o) /\ ops[o].ac # "Running" /\ ops[o].step = Len(StepsOf(ops[o].type)) + 1
    BY DEF Finish, AllStepsDone
  <2>2. StepsOf(ops[o].type) = FailoverSteps
    BY DEF StepsOf, IsFailover
  <2>3. ops[o].step = 8
    BY <2>1, <2>2, StepNames
  <2> QED BY <2>1, <2>3 DEF Admitted, InFlight, isInFlightOperationState
<1>2. ops[o].ac = "None" /\ inst.fsm \in {"Protected", "FailingOver"}
  BY <1>1 DEF Compensating, Admitted, AdmittedFsm, IsFailover
<1>3. /\ WorkStays /\ inst'.fsm = "Active"
      /\ inst'.primary = inst.secondary /\ inst'.secondary = inst.primary
  BY DEF Finish, IsFailover, Finished, To, WorkStays, workloadVars, TypeOK, InstanceTypeOK,
         InstanceStatus
<1>4. ops'[o] \in {op, ops[o]}
  BY OwnWritten DEF Finish, IsFailover
<1>5. s \in Operation /\ s.step = ops[o].step /\ s.ac = ops[o].ac
  BY StampType DEF TypeOK, OperationTypeOK, Operation
<1> HIDE DEF s, r
<1>6. op.state = "Completed" /\ op.step = s.step /\ op.ac = s.ac
  BY <1>5 DEF Operation
<1>7. ops'[o] = ops[o] => SameProgress(o)
  BY <1>1 DEF SameProgress, InFlight
<1> HIDE DEF op
<1> QED BY <1>1, <1>2, <1>3, <1>4, <1>5, <1>6, <1>7 DEF FailoverEnds

\* Every reconciliation of a failover is one of these.
LEMMA FailoverShapes ==
  ASSUME TypeOK, Compensating, NEW o \in Op, IsFailover(o), OnSource(o), ReconcileOperation(o)
  PROVE  \/ FailoverWaits(o) \/ FailoverBegins(o) \/ FailoverGoes(o) \/ FailoverFails(o)
         \/ FailoverCompensates(o) \/ FailoverEnds(o)
<1>1. ~FailStep(o) /\ ~StepWaits(o) /\ ~FinishRetried(o) /\ ~CancelProtected(o)
      /\ ~handlePause(o) /\ ~handleResume(o)
  BY DEF IsFailover, FailStep, StepWaits, FinishRetried, CancelProtected, handlePause, handleResume
<1> QED BY <1>1, WaitsShape, BeginsShape, StepsShape, FailsShape, CompensatesShape, EndsShape
        DEF ReconcileOperation

(***************************************************************************)
(* A switch serves: SwitchInv is kept by every step.                       *)
(***************************************************************************)

\* The steps of a failover scale the source down and the target up.
LEMMA SwitchOnSource ==
  ASSUME TypeOK, RolesDistinct, RolesTogether, SwitchInv, LoneFailover,
         NEW o \in Op, IsFailover(o), InFlight(o)
  PROVE  OnSource(o)
<1>1. ASSUME ops[o].step \in 4..7, ops[o].ac = "None", inst.fsm \in {"Protected", "FailingOver"}
      PROVE  PrimaryCluster = Source /\ SecondaryCluster = Target
  <2>1. OnItsWay(o)
    BY <1>1 DEF SwitchInv, Underway
  <2>2. inst.primary = Source
    <3> DEFINE k == ops[o].step
    <3>1. k \in 3..6 => inst.fsm = "FailingOver"
      BY <2>1 DEF OnItsWay
    <3>2. k = 7 => inst.fsm \in {"FailingOver", "Failed"}
      BY <2>1 DEF OnItsWay
    <3>3. k >= 3 /\ inst.fsm = "FailingOver" => inst.primary = Source
      BY <2>1 DEF OnItsWay
    <3>4. k \in 3..6 \/ k = 7
      BY <1>1
    <3> QED BY <1>1, <3>1, <3>2, <3>3, <3>4
  <2>3. inst.secondary \in {Source, Target, NoCluster}
    BY DEF TypeOK, InstanceTypeOK, InstanceStatus, Cluster
  <2> QED BY <2>2, <2>3, InstanceAssumption
          DEF RolesDistinct, RolesTogether, PrimaryCluster, SecondaryCluster, Cluster
<1> QED BY <1>1 DEF OnSource

\* What is left to show of a failover.
SwitchGoal(o) ==
  /\ Underway(o)' => OnItsWay(o)'
  /\ ops'[o].state = "Completed" => inst'.fsm # "FailingOver"

LEMMA SwitchFailover ==
  ASSUME TypeOK, RolesDistinct, Base, SwitchInv, LoneFailover,
         NEW o \in Op, IsFailover(o), ReconcileOperation(o)
  PROVE  SwitchGoal(o)
<1>1. RolesTogether /\ Compensating
  BY DEF Base
<1>2. InFlight(o)
  BY InFlightReconciled
<1>3. OnSource(o)
  BY <1>1, <1>2, SwitchOnSource
<1>4. ops[o].ac = "None" => OnItsWay(o)
  BY <1>2 DEF SwitchInv, Underway
<1>5. ops[o].step \in 0..8 /\ inst.primary \in {Source, Target, NoCluster}
  BY DEF TypeOK, OperationTypeOK, Operation, InstanceTypeOK, InstanceStatus, Cluster
<1>s. ops'[o].skipDown = ops[o].skipDown
  BY ReconcileMoves DEF OwnMove, Kept
<1>6. SameProgress(o) => ops'[o].state # "Completed"
  BY DEF SameProgress, InFlight, isInFlightOperationState
<1>7. CASE FailoverWaits(o)
  <2>1. CASE SameProgress(o)
    <3>1. Underway(o)' => OnItsWay(o)
      BY <1>4, <2>1 DEF Underway, SameProgress
    <3>2. OnItsWay(o) => OnItsWay(o)'
      BY <1>s, <1>7, <2>1 DEF FailoverWaits, WorkStays, SameProgress, OnItsWay, Unswitched, Unscaled,
                        AtHome, NoZero
    <3> QED BY <1>6, <2>1, <3>1, <3>2 DEF SwitchGoal
  <2>2. CASE Overtaken(o)
    BY <2>2 DEF Overtaken, SwitchGoal, Underway, InFlight, isInFlightOperationState
  <2> QED BY <1>7, <2>1, <2>2 DEF FailoverWaits
<1>8. CASE FailoverBegins(o)
  <2>1. OnItsWay(o) /\ ops[o].step < 8
    BY <1>4, <1>8 DEF FailoverBegins
  <2>2. ops'[o].state # "Completed"
    BY <1>8 DEF FailoverBegins, InFlight, isInFlightOperationState
  <2>3. ops[o].step >= 3 => inst.fsm = "FailingOver"
    BY <1>5, <1>8, <2>1 DEF FailoverBegins, GoesOn, OnItsWay
  <2>4. NoZero
    BY <1>5, <2>1, <2>3 DEF OnItsWay
  <2>5. OnItsWay(o)'
    BY <1>1, <1>s, <1>5, <1>8, <2>1, <2>3, <2>4
       DEF FailoverBegins, GoesOn, RolesStay, WorkStays, OnItsWay, Unswitched, AtHome, NoZero,
           RolesTogether
  <2> QED BY <2>2, <2>5 DEF SwitchGoal
<1>9. CASE FailoverGoes(o)
  <2> DEFINE k == ops[o].step
  <2>1. OnItsWay(o) /\ k \in 1..7
    BY <1>4, <1>9 DEF FailoverGoes
  <2>2. ops'[o].state # "Completed"
    BY <1>9 DEF FailoverGoes, InFlight, isInFlightOperationState
  <2>3. k >= 3 => inst.fsm = "FailingOver"
    BY <1>9, <2>1 DEF FailoverGoes, GoesOn, OnItsWay
  <2>4. NoZero /\ inst.primary = Source
    BY <1>5, <2>1, <2>3 DEF OnItsWay, Unswitched
  <2>5. NoZero' /\ (k >= 2 => paused' = Syncs)
    BY <1>9, <2>1, <2>3, <2>4 DEF FailoverGoes, StepEffect, OnItsWay, NoZero
  <2>6. k < 4 => AtHome'
    BY <1>9, <2>1 DEF FailoverGoes, StepEffect, OnItsWay, Unscaled, AtHome
  <2>7. k >= 4 /\ ~ops[o].skipDown => up'[Source] = {}
    BY <1>9, <2>1, <2>3 DEF FailoverGoes, StepEffect, OnItsWay
  <2>8. k >= 6 => up'[Target] = Workload
    BY <1>9, <2>1, <2>3, <2>4 DEF FailoverGoes, StepEffect, OnItsWay
  <2>9. ops'[o].step \in {k, k + 1} /\ inst'.fsm = "FailingOver" /\ inst'.primary = Source
    BY <1>9, <2>4 DEF FailoverGoes, GoesOn, RolesStay
  <2>10. Unscaled(o)' => AtHome'
    BY <1>9, <2>1, <2>6 DEF FailoverGoes, Unscaled
  <2>11. Unswitched'
    BY <2>9, <1>9, <2>1, ClusterAssumption DEF FailoverGoes, GoesOn, OnItsWay, Unswitched
  <2>12. OnItsWay(o)'
    <3> DEFINE m == ops'[o].step
    <3>1. /\ m >= 3 => paused' = Syncs
          /\ m >= 5 /\ ~ops[o].skipDown => up'[Source] = {}
          /\ m >= 7 => up'[Target] = Workload
      BY <2>1, <2>5, <2>7, <2>8, <2>9
    <3>2. inst'.primary # NoCluster
      BY <2>9, InstanceAssumption DEF Cluster
    <3> QED BY <1>s, <2>5, <2>9, <2>10, <2>11, <3>1, <3>2 DEF OnItsWay
  <2> QED BY <2>2, <2>12 DEF SwitchGoal
<1>10. CASE FailoverFails(o)
  <2> DEFINE k == ops[o].step
  <2>1. OnItsWay(o) /\ k \in 1..7
    BY <1>4, <1>10 DEF FailoverFails
  <2>2. ASSUME ~SameProgress(o) PROVE SwitchGoal(o)
    BY <1>10, <2>2 DEF FailoverFails, SwitchGoal, Underway, InFlight, isInFlightOperationState
  <2>3. ASSUME SameProgress(o) PROVE OnItsWay(o)'
    <3>1. k >= 3 => inst.fsm = "FailingOver"
      BY <1>10, <2>1 DEF FailoverFails, OnItsWay
    <3>2. NoZero
      BY <2>1, <3>1 DEF OnItsWay
    <3>3. NoZero' /\ (k >= 3 => paused' = Syncs)
      BY <1>10, <2>1, <3>1, <3>2 DEF FailoverFails, StepEffect, OnItsWay, NoZero
    <3>4. Unscaled(o)' => AtHome'
      BY <1>10, <2>1 DEF FailoverFails, StepEffect, OnItsWay, Unscaled, AtHome, SameProgress
    <3>5. /\ k >= 5 /\ ~ops[o].skipDown => up'[Source] = {}
          /\ k >= 7 => up'[Target] = Workload
      BY <1>10, <2>1, <3>1 DEF FailoverFails, StepEffect, OnItsWay
    <3>6. inst'.fsm \in {"Protected", "FailingOver", "Failed"} /\ Unswitched'
          /\ (k >= 3 => inst'.primary = Source) /\ inst'.primary # NoCluster
      BY <1>10, <2>1, <3>1 DEF FailoverFails, RolesStay, OnItsWay, Unswitched
    <3>7. /\ k \in 3..6 => inst'.fsm = "FailingOver"
          /\ k = 7 => inst'.fsm = "FailingOver" \/ (inst'.fsm = "Failed" /\ inst'.reason = "StepFailed")
      BY <1>10 DEF FailoverFails
    <3>8. ops'[o].step = k
      BY <2>3 DEF SameProgress
    <3> QED BY <1>s, <3>3, <3>4, <3>5, <3>6, <3>7, <3>8 DEF OnItsWay
  <2> QED BY <1>6, <2>2, <2>3 DEF SwitchGoal
<1>11. CASE FailoverCompensates(o)
  BY <1>6, <1>11 DEF FailoverCompensates, SameProgress, SwitchGoal, Underway, InFlight, isInFlightOperationState
<1>12. CASE FailoverEnds(o)
  <2>1. OnItsWay(o)
    BY <1>4, <1>12 DEF FailoverEnds
  <2>2. SameProgress(o) => OnItsWay(o)'
    BY <1>1, <1>12, <2>1 DEF FailoverEnds, SameProgress, OnItsWay, Unscaled, RolesTogether
  <2>3. ops'[o].state = "Completed" => ~Underway(o)'
    BY DEF Underway, InFlight, isInFlightOperationState
  <2> QED BY <1>12, <2>2, <2>3 DEF FailoverEnds, SwitchGoal
<1> QED BY <1>1, <1>3, <1>7, <1>8, <1>9, <1>10, <1>11, <1>12, FailoverShapes

(***************************************************************************)
(* The reconciliations of a cancel.                                        *)
(***************************************************************************)
AdmitsCancel == inst.fsm \in {"FailingOver", "Failed"}

\* It is started or given up, fills its steps or starts one.
CancelWaits(o) ==
  /\ WorkStays /\ inst' = inst /\ ops'[o].state # "Completed"
  /\ InFlight(o)' =>
       ops'[o].step = ops[o].step \/ (ops'[o].step = 1 /\ AdmitsCancel /\ ~Start(o))

LEMMA CancelWaitsShape ==
  ASSUME TypeOK, NEW o \in Op, IsCancel(o), Start(o) \/ Reject(o) \/ InitSteps(o) \/ StartStep(o)
  PROVE  CancelWaits(o)
<1> DEFINE s == Stamp(ops[o])
           r == [s EXCEPT !.state = "Running"]
           f == [s EXCEPT !.state = "Failed"]
           i == [ops[o] EXCEPT !.step = 1]
           g == [ops[o] EXCEPT !.stepState = "Running"]
<1>1. ops[o] \in Operation /\ InFlight(o)
  BY InFlightReconciled DEF ReconcileOperation, TypeOK, OperationTypeOK
<1>2. s \in Operation /\ s.step = ops[o].step
  BY <1>1, StampType DEF Operation
<1>3. inst' = inst /\ WorkStays
  BY DEF IsCancel, Start, Reject, InitSteps, StartStep, Entered, workloadVars, instanceVars, WorkStays
<1>4. \/ ops'[o] \in {r, f, g, ops[o]}
      \/ ops'[o] = i /\ AdmitsCancel /\ ~Start(o)
  <2>1. CASE Start(o)
    BY <2>1 DEF Start, TypeOK, OperationTypeOK
  <2>2. CASE Reject(o)
    <3>1. WriteOperation(o, f)
      BY <2>2 DEF Reject, IsCancel
    <3> QED BY <3>1, OwnWritten
  <2>3. CASE InitSteps(o)
    BY <2>3, OwnWritten DEF InitSteps, Admitted, AdmittedFsm, AdmitsCancel, IsCancel, Start
  <2>4. CASE StartStep(o)
    BY <2>4, OwnWritten DEF StartStep
  <2> QED BY <2>1, <2>2, <2>3, <2>4
<1> HIDE DEF s
<1>5. r.state = "Running" /\ r.step = s.step
  BY <1>2 DEF Operation
<1>6. f.state = "Failed"
  BY <1>2 DEF Operation
<1>7. i.step = 1 /\ i.state = ops[o].state /\ g.step = ops[o].step /\ g.state = ops[o].state
  BY <1>1 DEF Operation
<1> HIDE DEF r, f, i, g
<1> QED BY <1>1, <1>2, <1>3, <1>4, <1>5, <1>6, <1>7
        DEF CancelWaits, InFlight, isInFlightOperationState

\* It completes a step, or waits for its pods.
CancelGoes(o) ==
  LET k == ops[o].step
  IN /\ k \in 1..3 /\ AdmitsCancel /\ inst' = inst /\ CancelEffect(k, TRUE)
     /\ InFlight(o)' /\ ops'[o].step \in {k, k + 1}

LEMMA CancelGoesShape ==
  ASSUME TypeOK, NEW o \in Op, IsCancel(o), StepDone(o) \/ StepWaits(o)
  PROVE  CancelGoes(o)
<1> DEFINE k == ops[o].step
           n == k + 1
           op == [ops[o] EXCEPT !.step = n, !.stepState = "Pending"]
<1>1. ops[o] \in Operation
  BY DEF TypeOK, OperationTypeOK
<1>2. AtStep(o, "Running") /\ inst' = inst
  BY DEF StepDone, StepWaits, SwitchedBack, Entered, IsCancel, instanceVars
<1>3. k \in 1..3 /\ CurrentName(o) = CancelSteps[k] /\ InFlight(o)
  BY <1>2, AtStepNames DEF IsCancel
<1>4. AdmitsCancel
  BY <1>2 DEF AtStep, Admitted, AdmittedFsm, AdmitsCancel, IsCancel
<1>5. CancelEffect(k, TRUE)
  <2>1. executeCancelStep(CancelSteps[k], TRUE)
    <3>1. CASE StepDone(o)
      BY <1>3, <3>1 DEF StepDone, ExecuteStep, IsCancel
    <3>2. CASE StepWaits(o)
      BY <1>3, <3>2 DEF StepWaits
    <3> QED BY <3>1, <3>2
  <2> QED BY <1>3, <2>1, CancelStepEffect
<1>6. ops'[o] \in {op, ops[o]}
  <2>1. Superseded(o)[o] = ops[o]
    BY Untouched
  <2> QED BY <2>1, OwnWritten DEF StepDone, StepWaits
<1>n. n = k + 1
  OBVIOUS
<1> HIDE DEF n
<1>7. op.step = n /\ op.state = ops[o].state
  BY <1>1 DEF Operation
<1> HIDE DEF op
<1> QED BY <1>2, <1>3, <1>4, <1>5, <1>6, <1>7, <1>n DEF CancelGoes, InFlight

\* A step fails.
CancelFails(o) ==
  LET k == ops[o].step
  IN /\ k \in 1..3 /\ AdmitsCancel /\ CancelEffect(k, FALSE)
     /\ RolesStay /\ inst'.lastStable = inst.lastStable
     /\ inst' = inst \/ (inst'.fsm = "Failed" /\ inst'.reason = "StepFailed")
     /\ ops'[o].state # "Completed" /\ ops'[o].step = k

LEMMA CancelFailsShape ==
  ASSUME TypeOK, NEW o \in Op, IsCancel(o), FailStep(o)
  PROVE  CancelFails(o)
<1> DEFINE k == ops[o].step
           s == Stamp(ops[o])
           d == [s EXCEPT !.state = "Failed", !.stepState = "Failed"]
<1>1. ops[o] \in Operation
  BY DEF TypeOK, OperationTypeOK
<1>2. /\ AtStep(o, "Running") /\ StepFails(o, CurrentName(o))
      /\ Settle("cancel", CurrentName(o), inst)
  BY DEF FailStep, Entered, IsCancel
<1>3. k \in 1..3 /\ CurrentName(o) = CancelSteps[k] /\ InFlight(o)
  BY <1>2, AtStepNames DEF IsCancel
<1>4. AdmitsCancel
  BY <1>2 DEF AtStep, Admitted, AdmittedFsm, AdmitsCancel, IsCancel
<1>5. CancelEffect(k, FALSE)
  <2>1. CASE ExecuteStep(ops[o], CurrentName(o), FALSE)
    <3>1. executeCancelStep(CancelSteps[k], FALSE)
      BY <1>3, <2>1 DEF ExecuteStep, IsCancel
    <3> QED BY <1>3, <3>1, CancelStepEffect
  <2>2. CASE UNCHANGED <<workloadVars, paused>>
    BY <1>3, <2>2, StayingHome DEF workloadVars, CancelEffect
  <2> QED BY <1>2, <2>1, <2>2 DEF StepFails
<1>6. inst' \in {inst, ToFailed(inst, "StepFailed")}
  BY <1>2 DEF Settle, settleInstanceStateOnStepFailure
<1>7. /\ RolesStay /\ inst'.lastStable = inst.lastStable
      /\ inst' = inst \/ (inst'.fsm = "Failed" /\ inst'.reason = "StepFailed")
  BY <1>6 DEF RolesStay, ToFailed, TypeOK, InstanceTypeOK, InstanceStatus
<1>8. ops'[o] \in {d, ops[o]}
  BY OwnWritten DEF FailStep, FailedAtStep
<1>9. s \in Operation /\ s.step = k
  BY <1>1, StampType DEF Operation
<1> HIDE DEF s
<1>10. d.state = "Failed" /\ d.step = s.step
  BY <1>9 DEF Operation
<1> HIDE DEF d
<1> QED BY <1>3, <1>4, <1>5, <1>7, <1>8, <1>9, <1>10
        DEF CancelFails, InFlight, isInFlightOperationState

\* It ends.
CancelEnds(o) ==
  /\ ops[o].step = 4 /\ AdmitsCancel /\ WorkStays
  /\ inst'.fsm = "Protected" /\ RolesStay /\ inst'.lastStable = inst.lastStable
  /\ ops'[o].state = "Completed" \/ (InFlight(o)' /\ ops'[o].step = 4)

LEMMA CancelEndsShape ==
  ASSUME TypeOK, NEW o \in Op, IsCancel(o), Finish(o)
  PROVE  CancelEnds(o)
<1> DEFINE s == Stamp(ops[o])
           r == RoleStatus(Finished("cancel"))
           op == [s EXCEPT !.state = "Completed", !.role = r]
<1>1. Admitted(o) /\ ops[o].step = Len(StepsOf(ops[o].type)) + 1
  BY DEF Finish, AllStepsDone
<1>2. ops[o].step = 4 /\ AdmitsCancel /\ InFlight(o)
  <2>1. StepsOf(ops[o].type) = CancelSteps
    BY DEF StepsOf, IsCancel
  <2>2. ops[o].step = 4
    BY <1>1, <2>1, StepNames
  <2> QED BY <1>1, <2>2
          DEF Admitted, AdmittedFsm, AdmitsCancel, IsCancel, InFlight, isInFlightOperationState
<1>3. WorkStays /\ inst'.fsm = "Protected" /\ RolesStay /\ inst'.lastStable = inst.lastStable
  BY DEF Finish, IsCancel, Finished, To, WorkStays, RolesStay, workloadVars, TypeOK, InstanceTypeOK,
         InstanceStatus
<1>4. ops'[o] \in {op, ops[o]}
  BY OwnWritten DEF Finish, IsCancel
<1>5. s \in Operation
  BY StampType DEF TypeOK, OperationTypeOK
<1> HIDE DEF s, r
<1>6. op.state = "Completed"
  BY <1>5 DEF Operation
<1> HIDE DEF op
<1> QED BY <1>2, <1>3, <1>4, <1>6 DEF CancelEnds, InFlight

\* The instance is Protected: the schedules are resumed.
CancelHome(o) ==
  /\ inst.fsm = "Protected" /\ inst' = inst /\ UNCHANGED <<up, annot, cm>>
  /\ paused' \subseteq paused
  /\ ops'[o].state = "Completed" => paused' = {}
  /\ InFlight(o)' => ops'[o].step = ops[o].step

LEMMA CancelHomeShape ==
  ASSUME TypeOK, NEW o \in Op, IsCancel(o), CancelProtected(o)
  PROVE  CancelHome(o)
<1> DEFINE n == Len(CancelSteps) + 1
           r == RoleStatus(inst)
           x == [ops[o] EXCEPT !.state = "Completed", !.step = n]
           y == [x EXCEPT !.stepState = "Pending", !.role = r]
           z == [ops[o] EXCEPT !.state = "Failed"]
<1>1. ops[o] \in Operation /\ ops[o].state = "Running" /\ n \in 0..8
  BY CancelStepCount DEF TypeOK, OperationTypeOK, CancelProtected
<1>2. inst.fsm = "Protected" /\ inst' = inst /\ UNCHANGED <<up, annot, cm>>
  BY DEF CancelProtected, workloadVars
<1>3. \/ paused' = {} /\ ops'[o] \in {y, ops[o]}
      \/ paused' \subseteq paused /\ ops'[o] \in {z, ops[o]}
  <2>1. CASE executeResumeSchedules(TRUE) /\ WriteOperation(o, y)
    BY <2>1, OwnWritten DEF executeResumeSchedules
  <2>2. CASE executeResumeSchedules(FALSE) /\ WriteOperation(o, z)
    BY <2>2, OwnWritten DEF executeResumeSchedules
  <2> QED BY <2>1, <2>2 DEF CancelProtected
<1> HIDE DEF n, r
<1>4. x \in Operation /\ x.state = "Completed"
  BY <1>1 DEF Operation
<1> HIDE DEF x
<1>5. y.state = "Completed"
  BY <1>4 DEF Operation
<1>6. z.state = "Failed"
  BY <1>1 DEF Operation
<1> HIDE DEF y, z
<1> QED BY <1>1, <1>2, <1>3, <1>5, <1>6 DEF CancelHome, InFlight, isInFlightOperationState

\* Every reconciliation of a cancel is one of these.
LEMMA CancelShapes ==
  ASSUME TypeOK, Compensating, NEW o \in Op, IsCancel(o), ReconcileOperation(o)
  PROVE  CancelWaits(o) \/ CancelGoes(o) \/ CancelFails(o) \/ CancelEnds(o) \/ CancelHome(o)
<1>1. InFlight(o) /\ ops[o].ac # "Running"
  BY InFlightReconciled DEF Compensating, IsCancel
<1>2. /\ ~LockRoles(o) /\ ~FailFailoverStep(o) /\ ~FinishRetried(o)
      /\ ~handlePause(o) /\ ~handleResume(o)
  BY DEF IsCancel, LockRoles, FailFailoverStep, FinishRetried, handlePause, handleResume
<1>3. /\ ~StartAutoCancelStep(o) /\ ~AutoCancelStepDone(o) /\ ~AutoCancelStepWaits(o)
      /\ ~failFailoverAutoCancel(o) /\ ~completeFailoverAutoCancel(o)
  BY <1>1 DEF StartAutoCancelStep, AutoCancelStepDone, AutoCancelStepWaits,
              failFailoverAutoCancel, completeFailoverAutoCancel, AtAutoCancelStep
<1> QED BY <1>2, <1>3, CancelWaitsShape, CancelGoesShape, CancelFailsShape, CancelEndsShape,
           CancelHomeShape DEF ReconcileOperation

(***************************************************************************)
(* The other operations, next to a failover and without one.               *)
(***************************************************************************)

\* A start or rejection touches nothing but the operations.
LEMMA OnlyOperations ==
  ASSUME NEW o \in Op, Start(o) \/ Reject(o)
  PROVE  inst' = inst /\ WorkStays
BY DEF Start, Reject, workloadVars, instanceVars, WorkStays

\* Apart from that, undo and reprotect act in the states that admit them only.
LEMMA ActsAdmitted ==
  ASSUME TypeOK, Compensating, LoneFailover, NEW o \in Op, ~IsFailover(o), ReconcileOperation(o),
         ~Start(o), ~Reject(o)
  PROVE  \/ IsCancel(o)
         \/ ops[o].type = "undo" /\ inst.fsm \in {"Active", "FailingOver"}
         \/ ops[o].type = "reprotect" /\ inst.fsm \in {"Active", "FailingBack"}
<1>1. ops[o].type \notin {"pause", "resume"} /\ ops[o].ac # "Running"
  BY InFlightReconciled DEF LoneFailover, Compensating, IsFailover
<1>2. ~handlePause(o) /\ ~handleResume(o) /\ ~FailFailoverStep(o)
  BY <1>1 DEF handlePause, handleResume, FailFailoverStep, IsFailover
<1>3. /\ ~StartAutoCancelStep(o) /\ ~AutoCancelStepDone(o) /\ ~AutoCancelStepWaits(o)
      /\ ~failFailoverAutoCancel(o) /\ ~completeFailoverAutoCancel(o)
  BY <1>1 DEF StartAutoCancelStep, AutoCancelStepDone, AutoCancelStepWaits,
              failFailoverAutoCancel, completeFailoverAutoCancel, AtAutoCancelStep
<1>4. Admitted(o) \/ IsCancel(o)
  <2>1. CASE LockRoles(o) \/ InitSteps(o) \/ StartStep(o) \/ StepDone(o) \/ FailStep(o)
    BY <2>1 DEF LockRoles, InitSteps, StartStep, StepDone, FailStep, AtStep
  <2>2. CASE StepWaits(o) \/ Finish(o) \/ FinishRetried(o) \/ CancelProtected(o)
    BY <2>2 DEF StepWaits, Finish, FinishRetried, AllStepsDone, CancelProtected, IsCancel
  <2> QED BY <1>2, <1>3, <2>1, <2>2 DEF ReconcileOperation
<1> QED BY <1>4 DEF Admitted, Stepped, AdmittedFsm, IsFailover, IsCancel

\* A failover next to another operation.
LEMMA SwitchNext ==
  ASSUME TypeOK, Base, SwitchInv, LoneFailover, NEW o \in Op, ~IsFailover(o), ReconcileOperation(o),
         NEW q \in Op, IsFailover(q)
  PROVE  SwitchGoal(q)
<1>1. Compensating /\ RolesTogether
  BY DEF Base
<1>2. ops'[q] = ops[q] \/ Overtaken(q)
  BY OthersProgress
<1>3. CASE Overtaken(q)
  BY <1>3 DEF Overtaken, SwitchGoal, Underway, InFlight, isInFlightOperationState
<1>4. CASE ops'[q] = ops[q]
  <2>1. InstanceMove(o)
    BY <1>1, ReconcileMovesInstance
  <2>2. ops'[q].state = "Completed" => inst'.fsm # "FailingOver"
    BY <1>4, <2>1 DEF SwitchInv, InstanceMove, FsmMove, IsFailover
  <2>3. ASSUME Underway(q)' PROVE OnItsWay(q)'
    <3>1. Underway(q) /\ OnItsWay(q)
      BY <1>4, <2>3 DEF Underway, IsFailover, InFlight, SwitchInv
    <3>2. CASE inst' = inst /\ WorkStays
      BY <1>4, <3>1, <3>2 DEF WorkStays, OnItsWay, Unswitched, Unscaled, AtHome, NoZero
    <3>3. CASE ~Start(o) /\ ~Reject(o)
      <4>1. ops[o].type \notin {"cancel", "undo"}
        BY <1>1, <2>3, <3>3, CancelOvertakes DEF Underway
      <4>2. ops[o].type = "reprotect" /\ inst.fsm \in {"Active", "FailingBack"}
        BY <1>1, <3>3, <4>1, ActsAdmitted DEF IsCancel
      <4>3. ops[q].step = 8
        <5>1. ops[q].step \in 0..8
          BY DEF TypeOK, OperationTypeOK, Operation
        <5> QED BY <3>1, <4>2, <5>1 DEF OnItsWay, Unswitched
      <4>4. inst'.fsm # "FailingOver" /\ inst'.primary = inst.primary
        BY <2>1, <4>2 DEF InstanceMove, FsmMove, RolesMove, MayWriteRoles
      <4> QED BY <1>4, <3>1, <4>3, <4>4 DEF OnItsWay, Unscaled
    <3> QED BY <3>2, <3>3, OnlyOperations
  <2> QED BY <2>2, <2>3 DEF SwitchGoal
<1> QED BY <1>2, <1>3, <1>4

\* The application as it is before any failover.
Home == Unswitched /\ inst.fsm # "FailingOver" /\ AtHome /\ NoZero

LEMMA SwitchBefore ==
  ASSUME TypeOK, Base, LoneFailover, NoFailover, Home, NEW o \in Op, ReconcileOperation(o)
  PROVE  Home'
<1>1. Compensating
  BY DEF Base
<1>2. CASE inst' = inst /\ WorkStays
  BY <1>2 DEF Home, WorkStays, Unswitched, AtHome, NoZero
<1>3. CASE ~Start(o) /\ ~Reject(o)
  <2>1. IsCancel(o)
    BY <1>1, <1>3, ActsAdmitted DEF NoFailover, Home, Unswitched
  <2>2. CASE CancelWaits(o)
    BY <2>2, <1>2 DEF CancelWaits
  <2>3. CASE CancelHome(o)
    BY <2>3 DEF CancelHome, Home, Unswitched, AtHome, NoZero
  <2>4. CASE CancelGoes(o) \/ CancelFails(o)
    BY <2>4, HomeStays DEF CancelGoes, CancelFails, CancelEffect, Homeward, RolesStay, Home,
                           Unswitched, NoZero
  <2>5. CASE CancelEnds(o)
    BY <2>5 DEF CancelEnds, WorkStays, RolesStay, Home, Unswitched, AtHome, NoZero
  <2> QED BY <1>1, <2>1, <2>2, <2>3, <2>4, <2>5, CancelShapes
<1> QED BY <1>2, <1>3, OnlyOperations

\* Who is a failover, and that there is only one, cannot be taken back.
LEMMA LoneFailoverKept ==
  ASSUME TypesKept
  PROVE  /\ LoneFailover' => LoneFailover
         /\ \A q \in Op : IsFailover(q) => IsFailover(q)'
         /\ CancelOnly' => CancelOnly
<1>1. \A q \in Op : ops'[q].type = ops[q].type \/ (ops[q].type = "none" /\ ~ops[q].skipDown)
  BY DEF TypesKept
<1>2. \A q \in Op : IsFailover(q) => IsFailover(q)'
  BY <1>1 DEF IsFailover
<1>3. LoneFailover' => LoneFailover
  <2> SUFFICES ASSUME LoneFailover' PROVE LoneFailover
    OBVIOUS
  <2>1. \A o, q \in Submitted("failover") : o = q
    BY <1>2 DEF LoneFailover, Submitted, IsFailover
  <2>2. \A q \in Op : ops[q].type \notin {"pause", "resume"}
    BY DEF TypesKept, LoneFailover
  <2> QED BY <2>1, <2>2 DEF LoneFailover
<1>4. CancelOnly' => CancelOnly
  <2> SUFFICES ASSUME CancelOnly' PROVE CancelOnly
    OBVIOUS
  <2>1. LoneFailover' /\ \A q \in Op : ~ops'[q].skipDown
    BY DEF CancelOnly, OneFailover, LoneFailover, Submitted
  <2>2. \A q \in Op : ~ops[q].skipDown
    BY <2>1 DEF TypesKept
  <2> QED BY <1>1, <1>3, <2>1, <2>2 DEF CancelOnly, OneFailover, LoneFailover
<1> QED BY <1>2, <1>3, <1>4

LEMMA SwitchReconcile ==
  ASSUME IInv, Base, SwitchInv, NEW o \in Op, ReconcileOperation(o)
  PROVE  SwitchInv'
<1>1. TypeOK /\ RolesDistinct
  BY DEF IInv
<1>2. \A q \in Op : ops'[q].type = ops[q].type
  BY <1>1, ReconcileMoves, OthersMove DEF OwnMove, Kept
<1>3. SUFFICES ASSUME LoneFailover' PROVE /\ NoFailover' => Home'
                                         /\ \A q \in Op : IsFailover(q) => SwitchGoal(q)
  BY <1>2 DEF SwitchInv, NoFailover, IsFailover, Home, SwitchGoal, Underway
<1>4. LoneFailover
  BY <1>1, <1>3, ReconcileKeepsTypes, LoneFailoverKept
<1>5. NoFailover' => Home'
  <2>1. NoFailover' => NoFailover
    BY <1>2 DEF NoFailover, IsFailover
  <2> QED BY <1>1, <1>4, <2>1, SwitchBefore DEF SwitchInv, Home
<1>6. ASSUME NEW q \in Op, IsFailover(q) PROVE SwitchGoal(q)
  <2>1. CASE IsFailover(o)
    <3>1. q = o
      BY <1>4, <1>6, <2>1 DEF LoneFailover, Submitted, IsFailover
    <3> QED BY <1>1, <1>4, <2>1, <3>1, SwitchFailover
  <2>2. CASE ~IsFailover(o)
    BY <1>1, <1>4, <1>6, <2>2, SwitchNext
  <2> QED BY <2>1, <2>2
<1> QED BY <1>5, <1>6

(***************************************************************************)
(* The other steps.                                                        *)
(***************************************************************************)

\* The handlers of the instance never lose its primary, and leave an instance
\* unswitched that is not in FailingOver.  None acts on a failed switch.
LEMMA HandlersStay ==
  ASSUME TypeOK, ConfigErrorRemembers, ReconcileInstance
  PROVE  /\ inst.primary # NoCluster => inst'.primary # NoCluster
         /\ Unswitched /\ inst.fsm # "FailingOver" => Unswitched'
         /\ ~(inst.fsm = "Failed" /\ inst.reason = "StepFailed")
<1> USE ClusterAssumption, InstanceAssumption
    DEF TypeOK, InstanceTypeOK, InstanceStatus, FsmState, Reason, To, ToFailed, Unswitched, Cluster
<1>1. CASE guardByConfigHealth
  <2>1. CASE /\ inst.fsm # "ConfigError" /\ isConfigGuardManagedState(inst.fsm)
             /\ inst' = [To(inst, "ConfigError") EXCEPT !.lastStable = inst.fsm]
    BY <2>1 DEF isConfigGuardManagedState
  <2>2. CASE /\ inst.fsm = "ConfigError"
             /\ inst' = [To(inst, inst.lastStable) EXCEPT !.lastStable = ""]
    BY <2>2 DEF ConfigErrorRemembers
  <2> QED BY <1>1, <2>1, <2>2 DEF guardByConfigHealth
<1>2. CASE handlePending \/ handleInitializing
  BY <1>2 DEF handlePending, handleInitializing
<1>3. CASE handleProtected \/ handleActive
  BY <1>3 DEF handleProtected, handleActive, SteadyFailure
<1>4. CASE handleFailed
  BY <1>4 DEF handleFailed, resolveRecoveredSteadyState
<1>r. ASSUME NEW q \in Op, NEW st \in {"Protected", "Active"},
             inst' = WithRoles(To(inst, st), ops[q].role)
      PROVE  inst.primary # NoCluster => inst'.primary # NoCluster
  BY <1>r DEF WithRoles
<1>5. CASE handleFailingOver(RunningOf("failover"), LatestTerminal("failover"))
  <2>1. inst.fsm = "FailingOver"
    BY <1>5 DEF handleFailingOver
  <2>2. \/ inst'.primary = inst.primary
        \/ \E q \in Op, st \in {"Protected", "Active"} : inst' = WithRoles(To(inst, st), ops[q].role)
    BY <1>5 DEF handleFailingOver, LatestTerminal
  <2> QED BY <2>1, <2>2, <1>r
<1>6. CASE handleFailingBack(RunningOf("reprotect"), LatestTerminal("reprotect"))
  <2>1. inst.fsm = "FailingBack"
    BY <1>6 DEF handleFailingBack
  <2>2. \/ inst'.primary = inst.primary
        \/ \E q \in Op, st \in {"Protected", "Active"} : inst' = WithRoles(To(inst, st), ops[q].role)
    BY <1>6 DEF handleFailingBack, LatestTerminal
  <2> QED BY <2>1, <2>2, <1>r
<1> QED BY <1>1, <1>2, <1>3, <1>4, <1>5, <1>6 DEF ReconcileInstance

LEMMA SwitchInstance ==
  ASSUME IInv, SwitchInv, ReconcileInstance
  PROVE  SwitchInv'
<1>1. TypeOK /\ ConfigErrorRemembers
  BY DEF IInv
<1>2. ops' = ops /\ WorkStays
  BY <1>1, InstanceHandlers DEF WorkStays
<1>3. /\ inst'.fsm \notin {"FailingOver", "FailingBack"}
      /\ inst.fsm = "FailingOver" => \A q \in Op : IsFailover(q) => ~InFlight(q)
  BY <1>1, HandlersMove DEF IsFailover
<1>4. SUFFICES ASSUME LoneFailover
               PROVE  /\ NoFailover => Home'
                      /\ \A q \in Op : Underway(q) => OnItsWay(q)'
  BY <1>2, <1>3 DEF SwitchInv, LoneFailover, Submitted, NoFailover, IsFailover, Home, Underway, InFlight
<1>5. NoFailover => Home'
  BY <1>1, <1>2, <1>3, <1>4, HandlersStay DEF SwitchInv, Home, WorkStays, AtHome, NoZero
<1>6. ASSUME NEW q \in Op, Underway(q) PROVE OnItsWay(q)'
  <2> DEFINE k == ops[q].step
  <2>1. OnItsWay(q) /\ inst.fsm # "FailingOver" /\ k \in 0..8
    BY <1>1, <1>3, <1>4, <1>6 DEF SwitchInv, Underway, TypeOK, OperationTypeOK, Operation
  <2>2. k \notin 3..7
    BY <1>1, <2>1, HandlersStay DEF OnItsWay
  <2>3. k < 8 => Unswitched'
    BY <1>1, <2>1, HandlersStay DEF OnItsWay
  <2>4. k \in 1..7 \/ ops[q].annotated => inst'.primary # NoCluster
    BY <1>1, <2>1, HandlersStay DEF OnItsWay
  <2>5. /\ Unscaled(q)' => AtHome'
        /\ k < 7 => NoZero'
    BY <1>2, <2>1 DEF OnItsWay, Unscaled, WorkStays, AtHome, NoZero
  <2> QED BY <1>2, <1>3, <2>1, <2>2, <2>3, <2>4, <2>5 DEF OnItsWay
<1> QED BY <1>5, <1>6

\* What a ResourceSync records of an application that is at home.
LEMMA RecordHome ==
  ASSUME TypeOK, AtHome, cm' = recordReplicasToConfigMap(Source)
  PROVE  NoZero'
BY DEF AtHome, recordReplicasToConfigMap, NoZero

\* No sync records a source that is scaled down: until the failover ends the
\* schedules are paused, and it triggers one before it scales.
LEMMA SwitchSync ==
  ASSUME TypeOK, SwitchInv, ManualSync = FALSE, StartResourceSync
  PROVE  SwitchInv'
<1>1. /\ UNCHANGED <<up, annot, inst, paused, ops>>
      /\ inst.primary # NoCluster
      /\ "resource" \notin paused \/ AtFinalSync
      /\ cm' = recordReplicasToConfigMap(inst.primary)
  BY DEF StartResourceSync, instanceVars
<1>2. inst.primary \in {Source, Target}
  BY <1>1 DEF TypeOK, InstanceTypeOK, InstanceStatus, Cluster
<1>3. SUFFICES ASSUME LoneFailover
               PROVE  /\ NoFailover => Home'
                      /\ \A q \in Op : Underway(q) => OnItsWay(q)'
  BY <1>1 DEF SwitchInv, LoneFailover, Submitted, NoFailover, IsFailover, Home, Underway, InFlight
<1>4. NoFailover => Home'
  BY <1>1, <1>2, <1>3, RecordHome DEF SwitchInv, Home, Unswitched, AtHome
<1>5. ASSUME NEW q \in Op, Underway(q) PROVE OnItsWay(q)'
  <2> DEFINE k == ops[q].step
  <2>1. OnItsWay(q) /\ k \in 0..8
    BY <1>3, <1>5 DEF SwitchInv, TypeOK, OperationTypeOK, Operation
  <2>2. k < 7 \/ inst.fsm = "FailingOver" => NoZero'
    <3>1. CASE k <= 3
      <4>1. AtHome /\ inst.primary = Source
        BY <1>2, <2>1, <3>1 DEF OnItsWay, Unscaled, Unswitched
      <4> QED BY <1>1, <4>1, RecordHome
    <3>2. CASE k > 3 /\ inst.fsm = "FailingOver"
      <4>1. "resource" \in paused
        BY <2>1, <3>2 DEF OnItsWay, Syncs
      <4>2. PICK o \in Op : IsFailover(o) /\ ops[o].step = 3
        BY <1>1, <4>1 DEF AtFinalSync, IsFailover
      <4>3. o = q
        BY <1>3, <1>5, <4>2 DEF LoneFailover, Submitted, IsFailover, Underway
      <4> QED BY <3>2, <4>2, <4>3
    <3>3. CASE k > 3 /\ inst.fsm # "FailingOver"
      BY <2>1, <3>3 DEF OnItsWay
    <3> QED BY <2>1, <3>1, <3>2, <3>3
  <2> QED BY <1>1, <2>1, <2>2 DEF OnItsWay, Unswitched, Unscaled, AtHome
<1> QED BY <1>4, <1>5

\* What users submit or delete is left without progress.
LEMMA UserLeavesBlank ==
  ASSUME TypeOK, UserStep, NEW q \in Op, ops'[q] # ops[q]
  PROVE  /\ ~ops'[q].annotated /\ ops'[q].step = 0 /\ ops'[q].ac = "None"
         /\ ops'[q].state \in {"Pending", "Deleted"}
         /\ ops'[q].state = "Pending" => ops[q].state = "Absent"
<1>1. PICK o \in Op :
        \/ \E type \in OpType, skip \in {FALSE, AllowSkip} : Submit(o, type, skip)
        \/ DeleteOperation(o)
  BY DEF UserStep
<1>t. ops \in [Op -> Operation]
  BY DEF TypeOK, OperationTypeOK
<1>2. ASSUME NEW type \in OpType, NEW skip \in {FALSE, AllowSkip}, Submit(o, type, skip)
      PROVE  /\ q = o /\ ops[o].state = "Absent"
             /\ ~ops'[o].annotated /\ ops'[o].step = 0 /\ ops'[o].ac = "None"
             /\ ops'[o].state = "Pending"
  <2> DEFINE late == \E p \in Op : InFlight(p) /\ shouldSupersedeOperation(ops[p].type, type)
             op == [NoOperation EXCEPT !.type = type, !.state = "Pending", !.skipDown = skip,
                      !.late = late]
  <2>1. ops[o].state = "Absent" /\ ops' = [ops EXCEPT ![o] = op]
    BY <1>2 DEF Submit
  <2> HIDE DEF late
  <2>2. op.state = "Pending" /\ op.step = 0 /\ op.ac = "None" /\ ~op.annotated
    BY DEF NoOperation
  <2> HIDE DEF op
  <2> QED BY <2>1, <2>2, <1>t
<1>3. ASSUME DeleteOperation(o)
      PROVE  /\ q = o
             /\ ~ops'[o].annotated /\ ops'[o].step = 0 /\ ops'[o].ac = "None"
             /\ ops'[o].state = "Deleted"
  BY <1>3, <1>t DEF DeleteOperation, NoOperation
<1> QED BY <1>1, <1>2, <1>3

\* The only failover, when it is submitted, finds none.
LEMMA FirstFailover ==
  ASSUME Fresh, TypesKept, LoneFailover', NEW q \in Op, IsFailover(q)', ops[q].state = "Absent"
  PROVE  NoFailover
<1>1. ops[q].type = "none"
  BY DEF Fresh
<1>2. \A p \in Op : IsFailover(p) => p = q
  BY LoneFailoverKept DEF LoneFailover, Submitted, IsFailover
<1> QED BY <1>1, <1>2 DEF NoFailover, IsFailover

LEMMA SwitchUser ==
  ASSUME IInv, Base, SwitchInv, UserStep
  PROVE  SwitchInv'
<1>1. TypeOK /\ Fresh /\ TypesKept
  BY UserKeepsTypes DEF IInv, Base
<1>2. inst' = inst /\ WorkStays
  BY <1>1, UserWrites DEF WorkStays
<1>3. SUFFICES ASSUME LoneFailover'
               PROVE  /\ NoFailover => Home'
                      /\ \A q \in Op : Underway(q)' => OnItsWay(q)'
                      /\ \A q \in Op : IsFailover(q)' /\ ops'[q].state = "Completed"
                                         => inst'.fsm # "FailingOver"
  <2>1. NoFailover' => NoFailover
    BY <1>1, LoneFailoverKept DEF NoFailover
  <2> QED BY <2>1 DEF SwitchInv, Home
<1>4. LoneFailover
  BY <1>1, <1>3, LoneFailoverKept
<1>5. NoFailover => Home /\ Home'
  BY <1>2, <1>4 DEF SwitchInv, Home, WorkStays, Unswitched, AtHome, NoZero
<1>6. ASSUME NEW q \in Op, Underway(q)' PROVE OnItsWay(q)'
  <2>1. CASE ops'[q] = ops[q]
    <3>1. OnItsWay(q)
      BY <1>4, <1>6, <2>1 DEF SwitchInv, Underway, IsFailover, InFlight
    <3> QED BY <1>2, <2>1, <3>1 DEF OnItsWay, WorkStays, Unswitched, Unscaled, AtHome, NoZero
  <2>2. CASE ops'[q] # ops[q]
    <3>1. /\ ~ops'[q].annotated /\ ops'[q].step = 0 /\ ops[q].state = "Absent"
      BY <1>1, <1>6, <2>2, UserLeavesBlank DEF Underway, InFlight, isInFlightOperationState
    <3>2. Home /\ Home'
      BY <1>1, <1>3, <1>5, <1>6, <3>1, FirstFailover DEF Underway
    <3> QED BY <3>1, <3>2 DEF Home, OnItsWay
  <2> QED BY <2>1, <2>2
<1>7. ASSUME NEW q \in Op, IsFailover(q)', ops'[q].state = "Completed"
      PROVE  inst'.fsm # "FailingOver"
  <2>1. ops'[q] = ops[q]
    BY <1>1, <1>7, UserLeavesBlank
  <2> QED BY <1>2, <1>4, <1>7, <2>1 DEF SwitchInv, IsFailover
<1> QED BY <1>5, <1>6, <1>7

LEMMA InitSwitchInv ==
  ASSUME "target" \notin Starts, Init
  PROVE  SwitchInv
<1>1. PICK start \in {"fresh", "source"} : StartedFrom(start)
  BY SystemAssumption DEF Init, StartKinds
<1>2. \A o \in Op : ops[o] = NoOperation
  BY DEF Init
<1>3. \A o \in Op : ~IsFailover(o)
  BY <1>2 DEF IsFailover, NoOperation
<1>4. Home
  BY <1>1, ClusterAssumption, InstanceAssumption
     DEF StartedFrom, Home, Unswitched, AtHome, NoZero, Cluster
<1> QED BY <1>3, <1>4 DEF SwitchInv, Home, Underway

LEMMA NextSwitchInv ==
  ASSUME IInv, Base, SwitchInv, ManualSync = FALSE, [Next]_vars
  PROVE  SwitchInv'
<1>1. CASE DependencyChanges \/ UNCHANGED vars
  <2>1. UNCHANGED <<up, annot, cm, inst, paused, ops>>
    BY <1>1 DEF DependencyChanges, ConfigHealthChanges, SyncHealthChanges, workloadVars, vars
  <2> QED BY <2>1 DEF SwitchInv, LoneFailover, Submitted, NoFailover, IsFailover, Unswitched, AtHome,
                      NoZero, Underway, InFlight, OnItsWay, Unscaled
<1> QED BY <1>1, SwitchReconcile, SwitchInstance, SwitchSync, SwitchUser DEF Next, IInv

\* Only the end of a failover leads to Active.
LEMMA ActiveReached ==
  ASSUME TypeOK, NEW o \in Op, ~IsFailover(o), ops[o].type \notin {"pause", "resume"},
         ops[o].ac # "Running", ReconcileOperation(o), inst'.fsm = "Active"
  PROVE  inst.fsm = "Active"
<1> DEFINE i == Entered(ops[o].type)
<1>1. /\ i \in InstanceStatus
      /\ i.fsm = "Active" => inst.fsm = "Active"
  BY EnteredInstance DEF Entered, To, TypeOK, InstanceTypeOK, InstanceStatus
<1>2. CASE Start(o) \/ Reject(o) \/ StepWaits(o) \/ CancelProtected(o)
  BY <1>2 DEF Start, Reject, StepWaits, CancelProtected, instanceVars
<1>3. CASE LockRoles(o) \/ InitSteps(o) \/ StartStep(o) \/ FinishRetried(o)
  <2>1. inst' = i
    BY <1>3 DEF LockRoles, IsFailover, InitSteps, StartStep, FinishRetried
  <2> HIDE DEF i
  <2> QED BY <1>1, <2>1
<1>4. CASE StepDone(o)
  <2>1. inst' = i \/ inst' = [i EXCEPT !.primary = Source, !.secondary = Target]
    BY <1>4 DEF StepDone, SwitchedBack
  <2> HIDE DEF i
  <2> QED BY <1>1, <2>1 DEF InstanceStatus
<1>5. CASE FailStep(o)
  <2>1. Settle(ops[o].type, CurrentName(o), i)
    BY <1>5 DEF FailStep
  <2> HIDE DEF i
  <2> QED BY <1>1, <2>1, SettledMove
<1>6. CASE Finish(o)
  BY <1>6 DEF Finish, Finished, IsFailover, To, TypeOK, InstanceTypeOK, InstanceStatus
<1>7. ~FailFailoverStep(o) /\ ~handlePause(o) /\ ~handleResume(o)
  BY DEF FailFailoverStep, handlePause, handleResume, IsFailover
<1>8. /\ ~StartAutoCancelStep(o) /\ ~AutoCancelStepDone(o) /\ ~AutoCancelStepWaits(o)
      /\ ~failFailoverAutoCancel(o) /\ ~completeFailoverAutoCancel(o)
  BY DEF StartAutoCancelStep, AutoCancelStepDone, AutoCancelStepWaits,
         failFailoverAutoCancel, completeFailoverAutoCancel, AtAutoCancelStep
<1> QED BY <1>2, <1>3, <1>4, <1>5, <1>6, <1>7, <1>8 DEF ReconcileOperation

SwitchesWhole ==
  inst.fsm = "FailingOver" /\ inst'.fsm = "Active" /\ OneFailover
    => inst'.primary = inst.secondary /\ PrimaryServes'

LEMMA NextSwitches ==
  ASSUME IInv, Base, SwitchInv, [Next]_vars
  PROVE  SwitchesWhole
<1> SUFFICES ASSUME inst.fsm = "FailingOver", inst'.fsm = "Active", LoneFailover,
                    \A q \in Op : ~ops[q].skipDown
             PROVE  inst'.primary = inst.secondary /\ PrimaryServes'
  BY DEF SwitchesWhole, OneFailover, LoneFailover
<1>1. TypeOK /\ RolesDistinct /\ ConfigErrorRemembers /\ Compensating /\ RolesTogether
  BY DEF IInv, Base
<1>2. ASSUME NEW o \in Op, ReconcileOperation(o), IsFailover(o)
      PROVE  inst'.primary = inst.secondary /\ PrimaryServes'
  <2>1. InFlight(o)
    BY <1>1, <1>2, InFlightReconciled
  <2>2. OnSource(o)
    BY <1>1, <1>2, <2>1, SwitchOnSource
  <2>3. ~FailoverWaits(o) /\ ~FailoverBegins(o) /\ ~FailoverGoes(o) /\ ~FailoverFails(o)
        /\ ~FailoverCompensates(o)
    BY DEF FailoverWaits, FailoverBegins, FailoverGoes, FailoverFails, FailoverCompensates, GoesOn
  <2>4. FailoverEnds(o)
    BY <1>1, <1>2, <2>2, <2>3, FailoverShapes
  <2>5. OnItsWay(o)
    BY <1>2, <2>1, <2>4 DEF SwitchInv, Underway, FailoverEnds
  <2>6. /\ inst.primary = Source /\ up'[Source] = {} /\ up'[Target] = Workload
    BY <2>4, <2>5 DEF OnItsWay, FailoverEnds, WorkStays
  <2>7. inst.secondary = Target
    <3>1. inst.secondary \in {Source, Target, NoCluster}
      BY <1>1 DEF TypeOK, InstanceTypeOK, InstanceStatus, Cluster
    <3> QED BY <1>1, <2>6, <3>1, InstanceAssumption DEF RolesDistinct, RolesTogether, Cluster
  <2> QED BY <2>4, <2>6, <2>7, InstanceAssumption DEF FailoverEnds, PrimaryServes, rolesKnown, Cluster
<1>3. ASSUME NEW o \in Op, ReconcileOperation(o) PROVE IsFailover(o)
  <2>1. InFlight(o)
    BY <1>1, <1>3, InFlightReconciled
  <2> QED BY <1>1, <1>3, <2>1, ActiveReached DEF LoneFailover, Compensating, IsFailover
<1>4. ~ReconcileInstance
  <2> SUFFICES ASSUME ReconcileInstance PROVE FALSE
    OBVIOUS
  <2>1. handleFailingOver(RunningOf("failover"), LatestTerminal("failover"))
    BY DEF ReconcileInstance, guardByConfigHealth, isConfigGuardManagedState, handlePending,
           handleInitializing, handleProtected, handleActive, handleFailed, handleFailingBack
  <2>2. ASSUME NEW q \in Op, NEW st \in {"Protected", "Active"},
               inst' = WithRoles(To(inst, st), ops[q].role)
        PROVE  st = "Active"
    BY <1>1, <2>2 DEF WithRoles, To, TypeOK, InstanceTypeOK, InstanceStatus
  <2>3. ToFailed(inst, "OperationMissing").fsm = "Failed"
        /\ ToFailed(inst, "OperationFailed").fsm = "Failed"
        /\ To(inst, "Protected").fsm = "Protected"
    BY <1>1 DEF To, ToFailed, TypeOK, InstanceTypeOK, InstanceStatus
  <2>4. PICK op \in LatestTerminal("failover") :
          /\ op.state = "Completed" \/ inst' = WithRoles(To(inst, "Protected"), op.role)
    BY <2>1, <2>3 DEF handleFailingOver
  <2>5. PICK q \in Op : op = ops[q] /\ IsFailover(q)
    BY DEF LatestTerminal, IsFailover
  <2> QED BY <2>2, <2>4, <2>5 DEF SwitchInv
<1>5. CASE StartResourceSync \/ DependencyChanges \/ UserStep \/ UNCHANGED vars
  <2>1. inst' = inst
    BY <1>1, <1>5, UserWrites DEF StartResourceSync, DependencyChanges, ConfigHealthChanges,
                                  SyncHealthChanges, instanceVars, vars
  <2> QED BY <2>1
<1> QED BY <1>2, <1>3, <1>4, <1>5 DEF Next

\* A switch that succeeds moves the whole application: for any workloads, mixes of
\* one failover with cancels, undos and reprotects, faults and interleavings, of
\* an instance that starts with its application in the source and whose users
\* trigger no ResourceSync by hand.
THEOREM SwitchMovesAll ==
  ASSUME ManualSync = FALSE, "target" \notin Starts
  PROVE  Spec => SwitchServes
<1>1. Spec => []IInv
  BY Invariance
<1>2. Init => DInv /\ SwitchInv
  BY InitDInv, InitSwitchInv
<1>3. IInv /\ DInv /\ SwitchInv /\ [Next]_vars => DInv' /\ SwitchInv'
  BY NextDInv, NextSwitchInv DEF DInv
<1>4. IInv /\ DInv /\ SwitchInv /\ [Next]_vars => [SwitchesWhole]_vars
  BY NextSwitches DEF DInv
<1> QED BY <1>1, <1>2, <1>3, <1>4, PTL DEF Spec, SwitchServes, SwitchesWhole

(***************************************************************************)
(* A failover that is cancelled leaves no trace: RollbackInv is kept by    *)
(* the reconciliations of the failover.                                    *)
(***************************************************************************)

\* A failover past its admission runs on the roles of the DisasterConfig.
LEMMA RunsAtHome ==
  ASSUME TypeOK, RolesDistinct, RolesTogether, Recoverable,
         inst.fsm \in {"Protected", "FailingOver", "Failed"}
  PROVE  inst.primary = Source /\ inst.secondary = Target /\ RoleStatus(inst) = HomeRole
<1>1. inst.primary = Source
  BY DEF Recoverable, Past
<1>2. inst.secondary \in {Source, Target, NoCluster}
  BY DEF TypeOK, InstanceTypeOK, InstanceStatus, Cluster
<1>3. inst.secondary = Target
  BY <1>1, <1>2, InstanceAssumption DEF RolesDistinct, RolesTogether, Cluster
<1> QED BY <1>1, <1>3 DEF RoleStatus, HomeRole

FailoverGoal(o) ==
  IF inst'.primary = Target THEN After' ELSE Recoverable' /\ FailoverBack(o)'

LEMMA BackWaits ==
  ASSUME Compensating, Recoverable, NEW o \in Op, IsFailover(o), InFlight(o), FailoverBack(o),
         inst.primary # Target, FailoverWaits(o)
  PROVE  FailoverGoal(o)
<1>1. inst' = inst /\ WorkStays
  BY DEF FailoverWaits
<1>2. Recoverable'
  BY <1>1 DEF WorkStays, Recoverable, NoZero, AtHome, Past
<1>3. CASE SameProgress(o)
  <2>1. Unscaled(o)' => Unscaled(o)
    BY <1>3 DEF SameProgress, Unscaled
  <2>2. Underway(o)' => Underway(o)
    BY <1>3 DEF SameProgress, Underway
  <2>3. ops[o].state # "Deleted" /\ ops'[o].state # "Completed"
    BY <1>3 DEF SameProgress, InFlight, isInFlightOperationState
  <2> QED BY <1>1, <1>2, <1>3, <2>1, <2>2, <2>3
          DEF SameProgress, FailoverGoal, FailoverBack, WorkStays, AtHome, HomeRole
<1>4. CASE Overtaken(o)
  <2>1. Unscaled(o)' => Unscaled(o)
    BY <1>4 DEF Overtaken, Unscaled
  <2>2. ~InFlight(o)' /\ ops'[o].ac # "Succeeded" /\ ops[o].state # "Deleted"
    BY <1>4 DEF Overtaken, Compensating, InFlight, isInFlightOperationState
  <2> QED BY <1>1, <1>2, <1>4, <2>1, <2>2
          DEF Overtaken, Underway, FailoverGoal, FailoverBack, WorkStays, AtHome
<1> QED BY <1>3, <1>4 DEF FailoverWaits

LEMMA BackBegins ==
  ASSUME TypeOK, RolesDistinct, RolesTogether, Recoverable, NEW o \in Op, IsFailover(o), InFlight(o),
         FailoverBack(o), FailoverBegins(o)
  PROVE  FailoverGoal(o)
<1>1. inst.primary = Source /\ inst'.primary = Source /\ inst'.fsm = "FailingOver"
      /\ inst'.lastStable = inst.lastStable
  BY RunsAtHome DEF FailoverBegins, GoesOn, RolesStay
<1>2. Recoverable'
  BY <1>1 DEF FailoverBegins, WorkStays, Recoverable, NoZero, AtHome
<1>3. ops'[o].state \notin {"Completed", "Deleted"} /\ ops[o].state # "Deleted"
  BY DEF FailoverBegins, InFlight, isInFlightOperationState
<1>4. Unscaled(o)' => AtHome'
  BY <1>3 DEF FailoverBack, FailoverBegins, WorkStays, AtHome
<1>5. Underway(o)' /\ ops'[o].step <= 1 => paused' = {}
  BY DEF FailoverBack, FailoverBegins, WorkStays, Underway
<1> QED BY <1>1, <1>2, <1>3, <1>4, <1>5, ClusterAssumption DEF FailoverBegins, FailoverGoal, FailoverBack

LEMMA BackGoes ==
  ASSUME TypeOK, RolesDistinct, RolesTogether, Recoverable, NEW o \in Op, IsFailover(o), InFlight(o),
         FailoverBack(o), OnItsWay(o), FailoverGoes(o)
  PROVE  FailoverGoal(o)
<1> DEFINE k == ops[o].step
<1>1. inst.primary = Source /\ inst'.primary = Source /\ inst'.fsm = "FailingOver"
      /\ inst'.lastStable = inst.lastStable
  BY RunsAtHome DEF FailoverGoes, GoesOn, RolesStay
<1>2. k \in 1..7 /\ StepEffect(ops[o], k, TRUE)
  BY DEF FailoverGoes
<1>3. k >= 3 => paused = Syncs
  BY DEF FailoverGoes, GoesOn, OnItsWay
<1>4. k < 4 => AtHome /\ AtHome'
  BY <1>2 DEF FailoverBack, InFlight, isInFlightOperationState, Unscaled, StepEffect, AtHome
<1>5. AtHome' \/ "resource" \in paused'
  BY <1>2, <1>3, <1>4 DEF StepEffect, Syncs
<1>6. NoZero' /\ Workload \ up'[Source] \subseteq annot'[Source]
  BY <1>2 DEF Recoverable, StepEffect, NoZero
<1>7. Recoverable'
  BY <1>1, <1>5, <1>6 DEF Recoverable
<1>8. Unscaled(o)' => AtHome'
  BY <1>2, <1>4 DEF FailoverGoes, Unscaled
<1>9. Underway(o)' /\ ops'[o].step <= 1 => paused' = {}
  BY <1>2 DEF FailoverGoes, FailoverBack, Underway, StepEffect
<1>10. ops'[o].state \notin {"Completed", "Deleted"} /\ ops'[o].ac = "None"
  BY DEF FailoverGoes, InFlight, isInFlightOperationState
<1>11. ops'[o].step = 8 => ops'[o].stepState = "Pending"
  BY <1>2 DEF FailoverGoes
<1> QED BY <1>1, <1>7, <1>8, <1>9, <1>10, <1>11, ClusterAssumption DEF FailoverGoal, FailoverBack

LEMMA BackFails ==
  ASSUME TypeOK, RolesDistinct, RolesTogether, Recoverable, NEW o \in Op, IsFailover(o), InFlight(o),
         FailoverBack(o), OnItsWay(o), FailoverFails(o)
  PROVE  FailoverGoal(o)
<1> DEFINE k == ops[o].step
<1>1. /\ inst.primary = Source /\ inst'.primary = Source /\ RoleStatus(inst) = HomeRole
      /\ inst'.lastStable = inst.lastStable
      /\ inst'.fsm \in {"Protected", "FailingOver", "Failed"}
  BY RunsAtHome DEF FailoverFails, RolesStay
<1>2. k \in 1..7 /\ StepEffect(ops[o], k, FALSE) /\ ops'[o].step = k /\ ops[o].ac = "None"
  BY DEF FailoverFails
<1>3. k >= 3 => paused = Syncs
  BY DEF FailoverFails, OnItsWay
<1>4. k < 4 => AtHome /\ AtHome'
  BY <1>2 DEF FailoverBack, InFlight, isInFlightOperationState, Unscaled, StepEffect, AtHome
<1>5. AtHome' \/ "resource" \in paused'
  BY <1>2, <1>3, <1>4 DEF StepEffect, Syncs
<1>6. NoZero' /\ Workload \ up'[Source] \subseteq annot'[Source]
  BY <1>2 DEF Recoverable, StepEffect, NoZero
<1>7. /\ inst'.fsm = "Protected" => k = 1
      /\ inst'.fsm = "Failed" => inst'.reason = "StepFailed"
  BY DEF FailoverFails
<1>8. Recoverable'
  BY <1>1, <1>4, <1>5, <1>6, <1>7 DEF Recoverable
<1>9. Unscaled(o)' => AtHome'
  BY <1>2, <1>4 DEF FailoverFails, SameProgress, Unscaled
<1>10. Underway(o)' /\ ops'[o].step <= 1 => paused' = {}
  BY <1>2 DEF FailoverFails, FailoverBack, Underway, StepEffect
<1>11. ops'[o].state # "Completed"
  BY DEF FailoverFails, SameProgress, InFlight, isInFlightOperationState
<1>12. ops'[o].ac = "Succeeded" => k = 1 /\ ops'[o].role = HomeRole
  BY <1>1, <1>2 DEF FailoverFails, SameProgress
<1>13. InFlight(o)' /\ ops'[o].ac = "Running" => ops'[o].acStep = 1
  BY <1>2 DEF FailoverFails, SameProgress, InFlight, isInFlightOperationState
<1> QED BY <1>1, <1>2, <1>4, <1>8, <1>9, <1>10, <1>11, <1>12, <1>13, ClusterAssumption
        DEF FailoverGoal, FailoverBack, HomeRole

LEMMA BackCompensates ==
  ASSUME TypeOK, RolesDistinct, RolesTogether, Recoverable, NEW o \in Op, IsFailover(o), InFlight(o),
         FailoverBack(o), FailoverCompensates(o)
  PROVE  FailoverGoal(o)
<1> DEFINE j == ops[o].acStep
<1>1. /\ inst.primary = Source /\ inst'.primary = Source /\ RoleStatus(inst) = HomeRole
      /\ inst'.lastStable = inst.lastStable
      /\ inst'.fsm \in {"Protected", "FailingOver", "Failed"}
      /\ inst'.fsm = "Failed" => inst'.reason = "StepFailed"
  BY RunsAtHome DEF FailoverCompensates, RolesStay
<1>2. /\ j >= 2 => up[Target] = {}
      /\ j >= 3 => AtHome
      /\ j = 4 => paused = {}
      /\ Unscaled(o) => AtHome
      /\ ops[o].ac = "Running" /\ j \in 0..4
  BY DEF FailoverBack, FailoverCompensates, InFlight, isInFlightOperationState, TypeOK,
         OperationTypeOK, Operation
<1>3. \/ WorkStays /\ (inst'.fsm = "Protected" => j = 4)
      \/ /\ j \in 1..3 /\ inst'.fsm # "Protected"
         /\ CancelEffect(j, TRUE) \/ (CancelEffect(j, FALSE) /\ (InFlight(o)' => ops'[o].acStep = j))
  BY DEF FailoverCompensates, SameProgress, InFlight, isInFlightOperationState
<1>4. Homeward
  BY <1>3, StayingHome DEF WorkStays, CancelEffect
<1>5. AtHome => AtHome'
  BY <1>4, HomeStays
<1>6. AtHome' \/ "resource" \in paused'
  BY <1>2, <1>3, <1>5 DEF Recoverable, WorkStays, CancelEffect
<1>7. NoZero' /\ Workload \ up'[Source] \subseteq annot'[Source]
  BY <1>4 DEF Recoverable, Homeward, NoZero
<1>8. inst'.fsm = "Protected" => AtHome'
  BY <1>2, <1>3, <1>5
<1>9. Recoverable'
  BY <1>1, <1>6, <1>7, <1>8 DEF Recoverable
<1>10. Unscaled(o)' => AtHome'
  BY <1>2, <1>5 DEF FailoverCompensates, Unscaled
<1>11. ops'[o].state # "Completed" /\ ops'[o].ac # "None"
  BY DEF FailoverCompensates, SameProgress, InFlight, isInFlightOperationState
<1>12. ops'[o].ac = "Succeeded" => AtHome' /\ ops'[o].role = HomeRole
  <2>1. ops'[o].ac = "Succeeded" => j = 4 /\ ops'[o].role = HomeRole
    BY <1>1, <1>2 DEF FailoverCompensates, SameProgress
  <2> QED BY <1>2, <1>5, <2>1
<1>13. ASSUME InFlight(o)', ops'[o].ac = "Running"
       PROVE  /\ ops'[o].acStep >= 2 => up'[Target] = {}
              /\ ops'[o].acStep >= 3 => AtHome'
              /\ ops'[o].acStep = 4 => paused' = {}
  <2>1. CASE ops'[o].acStep = j
    <3>1. up[Target] = {} => up'[Target] = {}
      BY <1>4 DEF Homeward
    <3>2. j = 4 => paused' = {}
      BY <1>2, <1>3 DEF WorkStays
    <3> QED BY <1>2, <1>5, <2>1, <3>1, <3>2
  <2>2. CASE ops'[o].acStep # j
    <3>1. j \in 1..3 /\ CancelEffect(j, TRUE) /\ ops'[o].acStep = j + 1
      BY <1>13, <2>2 DEF FailoverCompensates, SameProgress, InFlight, isInFlightOperationState
    <3>2. j >= 1 => up'[Target] = {}
      BY <1>2, <1>4, <3>1 DEF CancelEffect, Homeward
    <3>3. j >= 2 => AtHome'
      BY <1>2, <1>5, <3>1, <3>2 DEF CancelEffect, Recoverable, AtHome
    <3>4. j = 3 => paused' = {}
      BY <3>1 DEF CancelEffect
    <3> QED BY <3>1, <3>2, <3>3, <3>4
  <2> QED BY <2>1, <2>2
<1>14. ops'[o].step # 8
  BY DEF FailoverBack, FailoverCompensates
<1> QED BY <1>1, <1>9, <1>10, <1>11, <1>12, <1>13, <1>14, ClusterAssumption
        DEF FailoverGoal, FailoverBack, Underway, HomeRole

LEMMA BackEnds ==
  ASSUME TypeOK, RolesDistinct, RolesTogether, Recoverable, NEW o \in Op, IsFailover(o), InFlight(o),
         ~ops[o].skipDown, FailoverBack(o), OnItsWay(o), FailoverEnds(o)
  PROVE  FailoverGoal(o)
<1>1. inst.fsm = "FailingOver"
  BY DEF FailoverBack, FailoverEnds, Underway
<1>2. up'[Source] = {} /\ up'[Target] = Workload
  BY <1>1 DEF OnItsWay, FailoverEnds, WorkStays
<1>3. inst'.primary = Target /\ inst'.fsm = "Active"
  BY <1>1, RunsAtHome DEF FailoverEnds
<1> QED BY <1>2, <1>3 DEF FailoverGoal, After

LEMMA RollbackFailover ==
  ASSUME TypeOK, RolesDistinct, Base, SwitchInv, LoneFailover, inst.primary # Target, Recoverable,
         NEW o \in Op, IsFailover(o), ~ops[o].skipDown, FailoverBack(o), ReconcileOperation(o)
  PROVE  FailoverGoal(o)
<1>1. RolesTogether /\ Compensating /\ InFlight(o)
  BY InFlightReconciled DEF Base
<1>2. OnSource(o)
  BY <1>1, SwitchOnSource
<1>3. ops[o].ac = "None" => OnItsWay(o)
  BY <1>1 DEF SwitchInv, Underway
<1> QED BY <1>1, <1>2, <1>3, FailoverShapes, BackWaits, BackBegins, BackGoes, BackFails,
           BackCompensates, BackEnds DEF FailoverGoes, FailoverFails, FailoverEnds

(***************************************************************************)
(* And by those of a cancel.                                               *)
(***************************************************************************)

\* A reconciliation that only brings the application back, of another operation
\* than the failover, leaves the failover and the other cancels as they are.
Backward == Homeward /\ paused' \subseteq paused

LEMMA FailoverKeptBack ==
  ASSUME TypeOK, Compensating, NEW o \in Op, ~IsFailover(o), ReconcileOperation(o), Backward,
         NEW q \in Op, IsFailover(q), FailoverBack(q),
         InFlight(q)' => inst' = inst /\ WorkStays
  PROVE  FailoverBack(q)'
<1>1. ops'[q] = ops[q] \/ Overtaken(q)
  BY OthersProgress
<1>2. AtHome => AtHome'
  BY HomeStays DEF Backward
<1>3. CASE ops'[q] = ops[q]
  <2>1. CASE InFlight(q)'
    BY <1>3, <2>1 DEF FailoverBack, Unscaled, Underway, IsFailover, InFlight, HomeRole, AtHome,
                      WorkStays
  <2>2. CASE ~InFlight(q)'
    BY <1>2, <1>3, <2>2 DEF FailoverBack, Unscaled, Underway, HomeRole
  <2> QED BY <2>1, <2>2
<1>4. CASE Overtaken(q)
  <2>1. Unscaled(q)' => Unscaled(q)
    BY <1>4 DEF Overtaken, Unscaled
  <2>2. ~InFlight(q)' /\ ops'[q].ac # "Succeeded" /\ ops[q].state # "Deleted"
    BY <1>4 DEF Overtaken, Compensating, InFlight, isInFlightOperationState
  <2> QED BY <1>2, <1>4, <2>1, <2>2 DEF Overtaken, Underway, FailoverBack
<1> QED BY <1>1, <1>3, <1>4

LEMMA CancelKeptBack ==
  ASSUME TypeOK, NEW o \in Op, ReconcileOperation(o), Backward,
         NEW q \in Op, CancelBack(q), ops'[q].step = ops[q].step,
         \A p \in Op : IsFailover(p) /\ ~InFlight(p) => IsFailover(p)' /\ ~InFlight(p)'
  PROVE  CancelBack(q)'
<1>1. AtHome => AtHome'
  BY HomeStays DEF Backward
<1> QED BY <1>1 DEF CancelBack, Backward, Homeward

\* A failover that ended has ended.
LEMMA FailoversStayDone ==
  ASSUME TypeOK, NEW o \in Op, ~IsFailover(o), ReconcileOperation(o),
         NEW p \in Op, IsFailover(p), ~InFlight(p)
  PROVE  IsFailover(p)' /\ ~InFlight(p)'
<1>1. ops'[p] = ops[p] \/ Overtaken(p)
  BY OthersProgress
<1>2. ops'[p].type = ops[p].type
  BY OthersMove
<1> QED BY <1>1, <1>2 DEF IsFailover, InFlight, Overtaken

LEMMA CancelBackward ==
  ASSUME NEW o \in Op,
         CancelWaits(o) \/ CancelGoes(o) \/ CancelFails(o) \/ CancelEnds(o) \/ CancelHome(o), TypeOK
  PROVE  Backward
<1>1. CASE CancelWaits(o) \/ CancelEnds(o)
  BY <1>1, StayingHome DEF CancelWaits, CancelEnds, WorkStays, Backward
<1>2. CASE CancelGoes(o) \/ CancelFails(o)
  BY <1>2 DEF CancelGoes, CancelFails, CancelEffect, Backward
<1>3. CASE CancelHome(o)
  BY <1>3, StayingHome DEF CancelHome, Backward
<1> QED BY <1>1, <1>2, <1>3

\* The progress of the cancel itself.
LEMMA CancelOwnBack ==
  ASSUME TypeOK, NEW o \in Op, IsCancel(o), ReconcileOperation(o), Compensating,
         Recoverable, Started(o) => CancelBack(o),
         inst.fsm \in {"FailingOver", "Failed"} => ~NoFailover,
         Started(o)'
  PROVE  CancelBack(o)'
<1>1. CancelWaits(o) \/ CancelGoes(o) \/ CancelFails(o) \/ CancelEnds(o) \/ CancelHome(o)
  BY CancelShapes
<1>2. Backward /\ InFlight(o) /\ ~IsFailover(o)
  BY <1>1, CancelBackward, InFlightReconciled DEF IsFailover, IsCancel
<1>3. \A p \in Op : IsFailover(p) /\ ~InFlight(p) => IsFailover(p)' /\ ~InFlight(p)'
  BY <1>2, FailoversStayDone
<1>4. AtHome => AtHome'
  BY <1>2, HomeStays DEF Backward
<1>5. CASE ops'[o].step = ops[o].step
  BY <1>2, <1>3, <1>5, CancelKeptBack DEF Started
<1>6. CASE CancelWaits(o) /\ ops'[o].step # ops[o].step
  <2>1. ops'[o].step = 1 /\ AdmitsCancel /\ ~Start(o)
    BY <1>6 DEF CancelWaits, Started
  <2>2. PICK p \in Op : IsFailover(p)
    BY <2>1 DEF AdmitsCancel, NoFailover
  <2>3. ~InFlight(p)'
    BY <2>1, <2>2, CancelOvertakes DEF IsCancel
  <2>4. IsFailover(p)'
    BY <1>2, <2>2, OthersMove DEF IsFailover
  <2> QED BY <2>1, <2>3, <2>4 DEF CancelBack
<1>7. CASE CancelGoes(o) /\ ops'[o].step # ops[o].step
  <2> DEFINE k == ops[o].step
  <2>1. k \in 1..3 /\ CancelEffect(k, TRUE) /\ ops'[o].step = k + 1
    BY <1>7 DEF CancelGoes
  <2>2. CancelBack(o)
    BY <1>2, <2>1 DEF Started
  <2>3. \E p \in Op : IsFailover(p)' /\ ~InFlight(p)'
    BY <1>3, <2>2 DEF CancelBack
  <2>4. up'[Target] = {}
    BY <2>1, <2>2, <1>2 DEF CancelEffect, CancelBack, Backward, Homeward
  <2>5. k >= 2 => AtHome'
    BY <1>4, <2>1, <2>2, <2>4 DEF CancelEffect, CancelBack, Recoverable, AtHome
  <2>6. k = 3 => paused' = {}
    BY <2>1 DEF CancelEffect
  <2> QED BY <2>1, <2>3, <2>4, <2>5, <2>6 DEF CancelBack
<1>8. CASE CancelFails(o) \/ CancelEnds(o) \/ CancelHome(o)
  <2>1. ops'[o].step = ops[o].step
    BY <1>8 DEF CancelFails, CancelEnds, CancelHome, Started, InFlight, isInFlightOperationState
  <2> QED BY <1>5, <2>1
<1> QED BY <1>1, <1>5, <1>6, <1>7, <1>8

\* What a cancel leaves of the application and the instance.
LEMMA CancelRecovers ==
  ASSUME TypeOK, NEW o \in Op, IsCancel(o), ReconcileOperation(o), Compensating,
         Recoverable, Started(o) => CancelBack(o)
  PROVE  /\ Recoverable' /\ inst'.primary = inst.primary
         /\ inst'.fsm \in {"FailingOver", "Failed"} => inst.fsm \in {"FailingOver", "Failed"}
<1>1. CancelWaits(o) \/ CancelGoes(o) \/ CancelFails(o) \/ CancelEnds(o) \/ CancelHome(o)
  BY CancelShapes
<1>2. Backward /\ InFlight(o)
  BY <1>1, CancelBackward, InFlightReconciled
<1>3. AtHome => AtHome'
  BY <1>2, HomeStays DEF Backward
<1>4. NoZero' /\ Workload \ up'[Source] \subseteq annot'[Source]
  BY <1>2 DEF Backward, Homeward, Recoverable, NoZero
<1>5. AtHome' \/ "resource" \in paused'
  <2>1. CASE CancelWaits(o) \/ CancelEnds(o)
    BY <1>3, <2>1 DEF CancelWaits, CancelEnds, WorkStays, Recoverable
  <2>2. CASE CancelGoes(o) \/ CancelFails(o)
    <3>1. ops[o].step \in 1..3
      BY <2>2 DEF CancelGoes, CancelFails
    <3>2. ops[o].step = 3 => AtHome
      BY <1>2, <3>1 DEF CancelBack, Started
    <3>3. ops[o].step # 3 => paused' = paused
      BY <2>2 DEF CancelGoes, CancelFails, CancelEffect
    <3> QED BY <1>3, <3>2, <3>3 DEF Recoverable
  <2>3. CASE CancelHome(o)
    BY <1>3, <2>3 DEF CancelHome, Recoverable
  <2> QED BY <1>1, <2>1, <2>2, <2>3
<1>6. CASE inst' = inst
  BY <1>3, <1>4, <1>5, <1>6 DEF Recoverable, Past
<1>7. CASE inst' # inst
  <2>1. AdmitsCancel /\ RolesStay /\ inst'.lastStable = inst.lastStable
    BY <1>1, <1>7 DEF CancelWaits, CancelGoes, CancelFails, CancelEnds, CancelHome
  <2>2. \/ inst'.fsm = "Failed" /\ inst'.reason = "StepFailed"
        \/ inst'.fsm = "Protected" /\ AtHome'
    <3>1. CancelEnds(o) => AtHome
      BY <1>2 DEF CancelEnds, CancelBack, Started
    <3> QED BY <1>1, <1>3, <1>7, <3>1 DEF CancelWaits, CancelGoes, CancelFails, CancelEnds, CancelHome
  <2>3. inst.primary = Source
    BY <2>1 DEF AdmitsCancel, Recoverable, Past
  <2> QED BY <1>4, <1>5, <2>1, <2>2, <2>3 DEF Recoverable, RolesStay, AdmitsCancel
<1> QED BY <1>6, <1>7

(***************************************************************************)
(* RollbackInv is kept by every step.                                      *)
(***************************************************************************)
Outcome == IF inst.primary = Target THEN After ELSE Before

LEMMA BeforeFailover ==
  ASSUME IInv, Base, SwitchInv, CancelOnly, inst.primary # Target, Before,
         NEW o \in Op, IsFailover(o), ReconcileOperation(o)
  PROVE  Outcome'
<1>1. TypeOK /\ RolesDistinct /\ LoneFailover /\ ~ops[o].skipDown
  BY DEF IInv, CancelOnly, OneFailover, LoneFailover
<1>2. FailoverGoal(o)
  BY <1>1, RollbackFailover DEF Before
<1>3. InFlight(o)
  BY <1>1, InFlightReconciled
<1>4. \A q \in Op : ops'[q].type = ops[q].type
  BY <1>1, ReconcileMoves, OthersMove DEF OwnMove, Kept
<1>5. \A q \in Op : IsFailover(q) => q = o
  BY <1>1 DEF LoneFailover, Submitted, IsFailover
<1>6. ASSUME NEW q \in Op, IsCancel(q)' PROVE ~Started(q)'
  <2>1. IsCancel(q) /\ q # o
    BY <1>4, <1>6 DEF IsCancel, IsFailover
  <2>2. ~Started(q)
    BY <1>3, <1>5, <2>1 DEF Before, CancelBack
  <2>3. ops'[q] = ops[q]
    BY <1>1, <2>1, OthersProgress DEF Overtaken, IsFailover, IsCancel
  <2> QED BY <2>2, <2>3 DEF Started, InFlight
<1>7. ~NoFailover'
  BY <1>4 DEF NoFailover, IsFailover
<1>8. \A q \in Op : IsFailover(q)' => q = o
  BY <1>4, <1>5 DEF IsFailover
<1> QED BY <1>2, <1>6, <1>7, <1>8 DEF FailoverGoal, Outcome, Before

LEMMA BeforeOther ==
  ASSUME IInv, Base, CancelOnly, inst.primary # Target, Before,
         NEW o \in Op, ~IsFailover(o), ReconcileOperation(o)
  PROVE  Outcome'
<1>1. TypeOK /\ LoneFailover /\ Compensating
  BY DEF IInv, CancelOnly, OneFailover, LoneFailover, Base
<1>2. IsCancel(o) \/ Start(o) \/ Reject(o)
  BY <1>1, ActsAdmitted DEF CancelOnly
<1>3. Start(o) \/ Reject(o) => inst' = inst /\ WorkStays
  BY OnlyOperations
<1>4. Recoverable /\ (IsCancel(o) /\ Started(o) => CancelBack(o))
  BY DEF Before
<1>5. Backward
  <2>1. CASE IsCancel(o)
    BY <1>1, <2>1, CancelShapes, CancelBackward
  <2>2. CASE inst' = inst /\ WorkStays
    BY <1>1, <2>2, StayingHome DEF WorkStays, Backward
  <2> QED BY <1>2, <1>3, <2>1, <2>2
<1>6. /\ Recoverable' /\ inst'.primary = inst.primary
      /\ inst'.fsm \in {"FailingOver", "Failed"} => inst.fsm \in {"FailingOver", "Failed"}
  <2>1. CASE IsCancel(o)
    BY <1>1, <1>4, <2>1, CancelRecovers
  <2>2. CASE inst' = inst /\ WorkStays
    BY <1>4, <2>2 DEF WorkStays, Recoverable, NoZero, AtHome, Past
  <2> QED BY <1>2, <1>3, <2>1, <2>2
<1>7. \A q \in Op : ops'[q].type = ops[q].type
  BY <1>1, ReconcileMoves, OthersMove DEF OwnMove, Kept
<1>8. NoFailover' <=> NoFailover
  BY <1>7 DEF NoFailover, IsFailover
<1>9. NoFailover => paused' = {}
  BY <1>5 DEF Before, Backward
<1>10. ASSUME NEW q \in Op, IsFailover(q)' PROVE FailoverBack(q)'
  <2>1. IsFailover(q) /\ FailoverBack(q)
    BY <1>7, <1>10 DEF IsFailover, Before
  <2>2. ASSUME InFlight(q)' PROVE inst' = inst /\ WorkStays
    <3>1. IsCancel(o) => Start(o)
      BY <1>1, <2>1, <2>2, CancelOvertakes DEF IsCancel
    <3> QED BY <1>2, <1>3, <3>1
  <2> QED BY <1>1, <1>5, <2>1, <2>2, FailoverKeptBack
<1>11. ASSUME NEW q \in Op, IsCancel(q)', Started(q)' PROVE CancelBack(q)'
  <2>1. IsCancel(q)
    BY <1>7, <1>11 DEF IsCancel
  <2>2. CASE q = o
    BY <1>1, <1>4, <1>11, <2>1, <2>2, CancelOwnBack DEF Before
  <2>3. CASE q # o
    <3>1. ops'[q] = ops[q]
      BY <1>1, <2>1, <2>3, OthersProgress DEF Overtaken, IsFailover, IsCancel
    <3>2. CancelBack(q)
      BY <1>11, <2>1, <3>1 DEF Before, Started, InFlight
    <3> QED BY <1>1, <1>5, <3>1, <3>2, CancelKeptBack, FailoversStayDone
  <2> QED BY <2>2, <2>3
<1> QED BY <1>6, <1>8, <1>9, <1>10, <1>11 DEF Outcome, Before

\* After the switch no operation but those that start or are given up acts.
LEMMA AfterOperation ==
  ASSUME IInv, Base, SwitchInv, CancelOnly, After, NEW o \in Op, ReconcileOperation(o)
  PROVE  inst' = inst /\ WorkStays
<1>1. TypeOK /\ RolesDistinct /\ LoneFailover /\ Compensating /\ RolesTogether /\ InFlight(o)
  BY InFlightReconciled DEF IInv, CancelOnly, OneFailover, LoneFailover, Base
<1>2. CASE IsFailover(o)
  <2>1. OnSource(o)
    BY <1>1, <1>2, SwitchOnSource
  <2>2. FailoverWaits(o)
    BY <1>1, <1>2, <2>1, FailoverShapes
       DEF After, FailoverBegins, FailoverGoes, FailoverFails, FailoverCompensates, FailoverEnds, GoesOn
  <2> QED BY <2>2 DEF FailoverWaits
<1>3. CASE IsCancel(o)
  BY <1>1, <1>3, CancelShapes
     DEF After, AdmitsCancel, CancelWaits, CancelGoes, CancelFails, CancelEnds, CancelHome
<1>4. CASE ~IsFailover(o) /\ ~IsCancel(o)
  BY <1>1, <1>4, ActsAdmitted, OnlyOperations DEF CancelOnly
<1> QED BY <1>2, <1>3, <1>4

LEMMA OutcomeReconcile ==
  ASSUME IInv, Base, SwitchInv, CancelOnly, Outcome, NEW o \in Op, ReconcileOperation(o)
  PROVE  Outcome'
<1>1. CASE inst.primary = Target
  BY <1>1, AfterOperation DEF Outcome, After, WorkStays
<1>2. CASE inst.primary # Target
  BY <1>2, BeforeFailover, BeforeOther DEF Outcome
<1> QED BY <1>1, <1>2

\* Which steady states a guard saves or restores.
GuardMoves ==
  /\ inst'.primary = inst.primary
  /\ \/ /\ inst.fsm \notin {"ConfigError", "FailingOver", "FailingBack", "Failed"}
        /\ inst'.fsm = "ConfigError" /\ inst'.lastStable = inst.fsm
     \/ /\ inst.fsm = "ConfigError" /\ inst'.fsm = inst.lastStable /\ inst'.lastStable = ""
        /\ inst.lastStable \in {"Pending", "Initializing", "Protected", "Paused", "Active"}

LEMMA GuardShape ==
  ASSUME TypeOK, ConfigErrorRemembers, guardByConfigHealth
  PROVE  GuardMoves
<1> USE DEF TypeOK, InstanceTypeOK, InstanceStatus, FsmState, Reason, To
<1>1. CASE /\ inst.fsm # "ConfigError" /\ isConfigGuardManagedState(inst.fsm)
           /\ inst' = [To(inst, "ConfigError") EXCEPT !.lastStable = inst.fsm]
  BY <1>1 DEF GuardMoves, isConfigGuardManagedState
<1>2. CASE /\ inst.fsm = "ConfigError"
           /\ inst' = [To(inst, inst.lastStable) EXCEPT !.lastStable = ""]
  BY <1>2 DEF GuardMoves, ConfigErrorRemembers
<1> QED BY <1>1, <1>2 DEF guardByConfigHealth

\* The step a failover was in when it failed is one of the first three only if it
\* has scaled nothing.
LEMMA FailedUnscaled ==
  ASSUME TypeOK, NEW o \in Op, ops[o].step = 8 => ops[o].stepState = "Pending",
         shouldRollbackFailoverStepToProtected(failoverFailedStep(ops[o]))
  PROVE  Unscaled(o)
<1> DEFINE k == ops[o].step
<1>1. k \in 0..8 /\ ops[o].stepState \in {"Pending", "Running", "Failed"}
  BY DEF TypeOK, OperationTypeOK, Operation
<1>2. CASE k = 0
  BY <1>2 DEF Unscaled
<1>3. CASE k = 1
  BY <1>3 DEF Unscaled
<1>4. CASE k > 1 /\ ops[o].stepState = "Pending"
  <2>1. k # 0 /\ k # 1 /\ k - 1 \in 1..7
    BY <1>1, <1>4
  <2>n. failoverFailedStep(ops[o]) = FailoverSteps[k - 1]
    BY <1>4, <2>1, Zenon DEF failoverFailedStep
  <2>2. k - 1 \in 1..3
    BY <2>1, <2>n, StepNames DEF shouldRollbackFailoverStepToProtected
  <2> QED BY <1>1, <1>4, <2>2 DEF Unscaled
<1>5. CASE k > 1 /\ ops[o].stepState # "Pending"
  <2>1. k # 0 /\ k # 1 /\ k \in 1..7
    BY <1>1, <1>5
  <2>n. failoverFailedStep(ops[o]) = FailoverSteps[k]
    BY <1>5, <2>1, Zenon DEF failoverFailedStep
  <2>2. k \in 1..3
    BY <2>1, <2>n, StepNames DEF shouldRollbackFailoverStepToProtected
  <2> QED BY <1>1, <2>2 DEF Unscaled
<1> QED BY <1>1, <1>2, <1>3, <1>4, <1>5

\* The watchdog of FailingOver, for a failover that has not switched.
LEMMA WatchdogBack ==
  ASSUME TypeOK, Recoverable, \A q \in Op : IsFailover(q) => FailoverBack(q),
         handleFailingOver(RunningOf("failover"), LatestTerminal("failover"))
  PROVE  /\ inst'.lastStable = inst.lastStable /\ inst'.primary = Source
         /\ \/ inst'.fsm = "Failed" /\ inst'.reason \in {"OperationMissing", "OperationFailed"}
            \/ inst'.fsm = "Protected" /\ AtHome
<1>h. HomeRole.primary = Source
  BY DEF HomeRole
<1> USE DEF TypeOK, InstanceTypeOK, InstanceStatus, FsmState, Reason, To, ToFailed
<1>1. inst.fsm = "FailingOver" /\ inst.primary = Source
  BY DEF handleFailingOver, Recoverable, Past
<1>2. CASE inst' \in {ToFailed(inst, "OperationMissing"), ToFailed(inst, "OperationFailed")}
  BY <1>1, <1>2
<1>3. ASSUME NEW q \in Op, IsFailover(q), Terminal(q), ops[q].ac = "Succeeded",
             inst' = WithRoles(To(inst, "Protected"), ops[q].role)
      PROVE  inst'.primary = Source /\ inst'.lastStable = inst.lastStable
             /\ inst'.fsm = "Protected" /\ AtHome
  <2>1. AtHome /\ ops[q].role = HomeRole
    BY <1>3 DEF FailoverBack
  <2>2. ops[q].role.primary = Source
    BY <1>h, <2>1
  <2> QED BY <1>1, <1>3, <2>1, <2>2 DEF WithRoles, Cluster
<1>4. ASSUME NEW q \in Op, IsFailover(q), Terminal(q), inst' = To(inst, "Protected"),
             shouldRollbackFailoverStepToProtected(failoverFailedStep(ops[q]))
      PROVE  inst'.primary = Source /\ inst'.lastStable = inst.lastStable
             /\ inst'.fsm = "Protected" /\ AtHome
  <2>1. Unscaled(q)
    BY <1>4, FailedUnscaled DEF FailoverBack
  <2>2. AtHome
    BY <1>4, <2>1 DEF FailoverBack, Terminal
  <2> QED BY <1>1, <1>4, <2>2
<1>5. ASSUME NEW q \in Op, IsFailover(q) PROVE ops[q].state # "Completed"
  BY <1>5 DEF FailoverBack
<1>6. CASE LatestTerminal("failover") = {} /\ inst' = ToFailed(inst, "OperationMissing")
  BY <1>2, <1>6
<1>7. ASSUME NEW op \in LatestTerminal("failover"),
             \/ op.ac = "Succeeded" /\ inst' = WithRoles(To(inst, "Protected"), op.role)
             \/ op.state = "Completed" /\ inst' = WithRoles(To(inst, "Active"), op.role)
             \/ /\ op.state = "Failed" /\ op.ac # "Succeeded"
                /\ inst' = IF shouldRollbackFailoverStepToProtected(failoverFailedStep(op))
                           THEN To(inst, "Protected") ELSE ToFailed(inst, "OperationFailed")
      PROVE  /\ inst'.lastStable = inst.lastStable /\ inst'.primary = Source
             /\ \/ inst'.fsm = "Failed" /\ inst'.reason \in {"OperationMissing", "OperationFailed"}
                \/ inst'.fsm = "Protected" /\ AtHome
  <2>1. PICK q \in Op : op = ops[q] /\ IsFailover(q) /\ Terminal(q)
    BY DEF LatestTerminal, IsFailover
  <2>2. ops[q].state # "Completed"
    BY <1>5, <2>1
  <2>3. \/ ops[q].ac = "Succeeded" /\ inst' = WithRoles(To(inst, "Protected"), ops[q].role)
        \/ /\ shouldRollbackFailoverStepToProtected(failoverFailedStep(ops[q]))
           /\ inst' = To(inst, "Protected")
        \/ inst' = ToFailed(inst, "OperationFailed")
    BY <1>7, <2>1, <2>2
  <2> QED BY <1>2, <1>3, <1>4, <2>1, <2>3
<1> QED BY <1>6, <1>7 DEF handleFailingOver

LEMMA RecoverableInstance ==
  ASSUME IInv, Before, inst.primary # Target, ~syncFailed, Workload # {}, ReconcileInstance
  PROVE  /\ Recoverable' /\ inst'.primary # Target
         /\ inst'.fsm \in {"FailingOver", "Failed"} => inst.fsm = "FailingOver"
<1>1. TypeOK /\ ConfigErrorRemembers /\ Recoverable
  BY DEF IInv, Before
<1>2. UNCHANGED <<up, annot, cm, paused>>
  BY <1>1, InstanceHandlers
<1>3. NoZero' /\ Workload \ up'[Source] \subseteq annot'[Source] /\ (AtHome' \/ "resource" \in paused')
  BY <1>1, <1>2 DEF Recoverable, NoZero, AtHome
<1>4. AtHome' <=> AtHome
  BY <1>2 DEF AtHome
<1>5. CASE guardByConfigHealth
  <2>1. GuardMoves
    BY <1>1, <1>5, GuardShape
  <2>2. inst'.fsm = "ConfigError" => inst'.lastStable \notin {"Active", "Paused"} /\ AtHome
    BY <1>1, <2>1 DEF GuardMoves, Recoverable
  <2>3. inst'.fsm # "ConfigError" =>
          /\ inst'.fsm \in {"Pending", "Initializing", "Protected"} /\ inst'.lastStable = "" /\ AtHome
    BY <1>1, <2>1 DEF GuardMoves, Recoverable
  <2>4. Past' => Past
    BY <2>1 DEF GuardMoves, Past
  <2>5. inst'.primary = inst.primary
    BY <2>1 DEF GuardMoves
  <2> QED BY <1>1, <1>3, <1>4, <2>2, <2>3, <2>4, <2>5 DEF Recoverable
<1>6. CASE handlePending
  <2>1. /\ inst'.fsm = "Initializing" /\ inst'.primary = Source /\ inst'.lastStable = inst.lastStable
        /\ inst.fsm = "Pending"
    BY <1>1, <1>6 DEF handlePending, To, TypeOK, InstanceTypeOK, InstanceStatus
  <2> QED BY <1>1, <1>3, <1>4, <2>1, ClusterAssumption DEF Recoverable
<1>7. CASE handleInitializing
  <2>1. /\ inst'.fsm = "Protected" /\ inst'.primary = inst.primary /\ inst'.lastStable = inst.lastStable
        /\ inst.fsm = "Initializing"
    BY <1>1, <1>7 DEF handleInitializing, To, TypeOK, InstanceTypeOK, InstanceStatus
  <2>2. Past
    BY <2>1 DEF Past
  <2> QED BY <1>1, <1>3, <1>4, <2>1, <2>2 DEF Recoverable
<1>8. ~handleProtected
  <2> SUFFICES ASSUME handleProtected PROVE FALSE
    OBVIOUS
  <2>1. inst.fsm = "Protected" /\ hardRoleDrift
    BY DEF handleProtected, SteadyFailure
  <2>2. AtHome /\ inst.primary = Source
    BY <1>1, <2>1 DEF Recoverable, Past
  <2> QED BY <2>1, <2>2 DEF hardRoleDrift, sampleClusterReplicaRole, AtHome
<1>9. ~handleActive /\ ~handleFailingBack(RunningOf("reprotect"), LatestTerminal("reprotect"))
      /\ ~handleFailed
  BY <1>1 DEF Recoverable, handleActive, handleFailingBack, handleFailed
<1>10. CASE handleFailingOver(RunningOf("failover"), LatestTerminal("failover"))
  <2>1. /\ inst'.lastStable = inst.lastStable /\ inst'.primary = Source
        /\ \/ inst'.fsm = "Failed" /\ inst'.reason \in {"OperationMissing", "OperationFailed"}
           \/ inst'.fsm = "Protected" /\ AtHome
    BY <1>1, <1>10, WatchdogBack DEF Before
  <2>2. inst.fsm = "FailingOver"
    BY <1>10 DEF handleFailingOver
  <2> QED BY <1>1, <1>3, <1>4, <2>1, <2>2, ClusterAssumption DEF Recoverable
<1> QED BY <1>5, <1>6, <1>7, <1>8, <1>9, <1>10 DEF ReconcileInstance

LEMMA BeforeInstance ==
  ASSUME IInv, Before, inst.primary # Target, ~syncFailed, Workload # {}, ReconcileInstance
  PROVE  Outcome'
<1>1. TypeOK /\ ConfigErrorRemembers
  BY DEF IInv
<1>2. UNCHANGED <<up, annot, cm, paused, ops>>
  BY <1>1, InstanceHandlers
<1>3. /\ Recoverable' /\ inst'.primary # Target
      /\ inst'.fsm \in {"FailingOver", "Failed"} => inst.fsm = "FailingOver"
  BY RecoverableInstance
<1>4. inst.fsm = "FailingOver" => \A q \in Op : IsFailover(q) => ~InFlight(q)
  BY <1>1, HandlersMove DEF IsFailover
<1>5. NoFailover' <=> NoFailover
  BY <1>2 DEF NoFailover, IsFailover
<1>6. inst'.fsm \in {"FailingOver", "Failed"} => ~NoFailover
  BY <1>3 DEF Before
<1>7. ASSUME NEW q \in Op, IsFailover(q)' PROVE FailoverBack(q)'
  <2>1. IsFailover(q) /\ FailoverBack(q)
    BY <1>2, <1>7 DEF Before, IsFailover
  <2>2. ~(Underway(q) /\ ops[q].step = 8)
    BY <1>4, <2>1 DEF FailoverBack, Underway
  <2> QED BY <1>2, <2>1, <2>2 DEF FailoverBack, Underway, IsFailover, InFlight, Unscaled, AtHome, HomeRole
<1>8. ASSUME NEW q \in Op, IsCancel(q)', Started(q)' PROVE CancelBack(q)'
  <2>1. CancelBack(q)
    BY <1>2, <1>8 DEF Before, IsCancel, Started, InFlight
  <2> QED BY <1>2, <2>1 DEF CancelBack, IsFailover, InFlight, AtHome
<1> QED BY <1>2, <1>3, <1>5, <1>6, <1>7, <1>8 DEF Outcome, Before

LEMMA AfterInstance ==
  ASSUME IInv, After, inst.primary = Target, ~syncFailed, Workload # {}, ReconcileInstance
  PROVE  Outcome'
<1>1. TypeOK /\ ConfigErrorRemembers
  BY DEF IInv
<1>2. UNCHANGED <<up, annot, cm, paused, ops>>
  BY <1>1, InstanceHandlers
<1>3. ~handleActive
  <2> SUFFICES ASSUME handleActive PROVE FALSE
    OBVIOUS
  <2>1. hardRoleDrift
    BY DEF handleActive, SteadyFailure
  <2> QED BY <2>1 DEF hardRoleDrift, sampleClusterReplicaRole, After
<1>4. guardByConfigHealth
  BY <1>3 DEF After, ReconcileInstance, handlePending, handleInitializing, handleProtected,
              handleFailed, handleFailingOver, handleFailingBack
<1>5. GuardMoves
  BY <1>1, <1>4, GuardShape
<1>6. inst'.fsm = "Active" \/ (inst'.fsm = "ConfigError" /\ inst'.lastStable = "Active")
  BY <1>5 DEF GuardMoves, After
<1> QED BY <1>2, <1>5, <1>6 DEF Outcome, After, GuardMoves

\* A sync records what runs at home: while the source is scaled down only the one
\* that a failover triggers before it scales would run.
LEMMA OutcomeSync ==
  ASSUME TypeOK, Outcome, ManualSync = FALSE, StartResourceSync
  PROVE  Outcome'
<1>1. /\ UNCHANGED <<up, annot, inst, paused, ops>>
      /\ inst.primary # NoCluster
      /\ "resource" \notin paused \/ AtFinalSync
      /\ cm' = recordReplicasToConfigMap(inst.primary)
  BY DEF StartResourceSync, instanceVars
<1>2. CASE inst.primary = Target
  BY <1>1, <1>2 DEF Outcome, After
<1>3. CASE inst.primary # Target
  <2>1. inst.primary = Source
    BY <1>1, <1>3 DEF TypeOK, InstanceTypeOK, InstanceStatus, Cluster
  <2>2. Before /\ Recoverable
    BY <1>3 DEF Outcome, Before
  <2>3. AtHome
    <3> SUFFICES ASSUME ~AtHome PROVE FALSE
      OBVIOUS
    <3>1. AtFinalSync
      BY <1>1, <2>2 DEF Recoverable
    <3>2. PICK o \in Op : IsFailover(o) /\ ops[o].state = "Running" /\ ops[o].step = 3
      BY <3>1 DEF AtFinalSync, IsFailover
    <3>3. FailoverBack(o)
      BY <2>2, <3>2 DEF Before
    <3> QED BY <3>2, <3>3 DEF FailoverBack, Unscaled
  <2>4. NoZero'
    BY <1>1, <2>1, <2>3, RecordHome
  <2>5. Recoverable'
    BY <1>1, <2>2, <2>4 DEF Recoverable, AtHome, Past
  <2>6. \A q \in Op : IsFailover(q)' => FailoverBack(q)'
    BY <1>1, <2>2 DEF Before, IsFailover, FailoverBack, Unscaled, AtHome, HomeRole, Underway, InFlight
  <2>7. \A q \in Op : IsCancel(q)' /\ Started(q)' => CancelBack(q)'
    BY <1>1, <2>2 DEF Before, IsCancel, Started, CancelBack, IsFailover, InFlight, AtHome
  <2> QED BY <1>1, <1>3, <2>2, <2>5, <2>6, <2>7 DEF Outcome, Before, NoFailover, IsFailover
<1> QED BY <1>2, <1>3

LEMMA OutcomeUser ==
  ASSUME TypeOK, Fresh, Outcome, CancelOnly', UserStep
  PROVE  Outcome'
<1>1. TypesKept /\ LoneFailover'
  BY UserKeepsTypes DEF CancelOnly, OneFailover, LoneFailover, Submitted
<1>2. inst' = inst /\ WorkStays
  BY UserWrites DEF WorkStays
<1>3. CASE inst.primary = Target
  BY <1>2, <1>3 DEF Outcome, After, WorkStays
<1>4. CASE inst.primary # Target
  <2>1. Before /\ Recoverable
    BY <1>4 DEF Outcome, Before
  <2>2. Recoverable'
    BY <1>2, <2>1 DEF WorkStays, Recoverable, NoZero, AtHome, Past
  <2>3. \A q \in Op : IsFailover(q) => IsFailover(q)'
    BY <1>1, LoneFailoverKept
  <2>4. NoFailover' => NoFailover
    BY <2>3 DEF NoFailover
  <2>5. ASSUME NEW q \in Op, IsFailover(q)' PROVE FailoverBack(q)'
    <3>1. CASE ops'[q] = ops[q]
      <4>1. FailoverBack(q)
        BY <2>1, <2>5, <3>1 DEF Before, IsFailover
      <4> QED BY <1>2, <3>1, <4>1 DEF FailoverBack, Unscaled, AtHome, HomeRole, Underway, IsFailover,
                                      InFlight, WorkStays
    <3>2. CASE ops'[q] # ops[q]
      <4>1. /\ ops'[q].step = 0 /\ ops'[q].ac = "None" /\ ops'[q].state \in {"Pending", "Deleted"}
            /\ ops'[q].state = "Pending" => ops[q].state = "Absent"
        BY <3>2, UserLeavesBlank
      <4>2. ops'[q].state = "Pending" => NoFailover
        BY <1>1, <2>5, <4>1, FirstFailover
      <4>3. NoFailover => AtHome /\ paused = {}
        BY <2>1 DEF Before, Recoverable
      <4> QED BY <1>2, <4>1, <4>2, <4>3 DEF FailoverBack, Underway, InFlight, isInFlightOperationState,
                                            AtHome, WorkStays
    <3> QED BY <3>1, <3>2
  <2>6. ASSUME NEW q \in Op, IsCancel(q)', Started(q)' PROVE CancelBack(q)'
    <3>1. ops'[q] = ops[q]
      BY <2>6, UserLeavesBlank DEF Started
    <3>2. CancelBack(q)
      BY <2>1, <2>6, <3>1 DEF Before, IsCancel, Started, InFlight
    <3>3. PICK p \in Op : IsFailover(p) /\ ~InFlight(p)
      BY <3>2 DEF CancelBack
    <3>4. ~InFlight(p)'
      <4>1. CASE ops'[p] = ops[p]
        BY <3>3, <4>1 DEF InFlight
      <4>2. CASE ops'[p] # ops[p]
        <5>1. ops[p].state # "Absent"
          BY <3>3 DEF Fresh, IsFailover
        <5> QED BY <4>2, <5>1, UserLeavesBlank DEF InFlight, isInFlightOperationState
      <4> QED BY <4>1, <4>2
    <3> QED BY <1>2, <2>3, <3>1, <3>2, <3>3, <3>4 DEF CancelBack, AtHome, WorkStays
  <2>7. inst'.fsm \in {"FailingOver", "Failed"} => ~NoFailover'
    BY <1>2, <2>1, <2>4 DEF Before
  <2>8. NoFailover' => paused' = {}
    BY <1>2, <2>1, <2>4 DEF Before, WorkStays
  <2> QED BY <1>2, <1>4, <2>2, <2>5, <2>6, <2>7, <2>8 DEF Outcome, Before
<1> QED BY <1>3, <1>4

LEMMA InitRollbackInv ==
  ASSUME "target" \notin Starts, Init
  PROVE  RollbackInv
<1>1. PICK start \in {"fresh", "source"} : StartedFrom(start)
  BY SystemAssumption DEF Init, StartKinds
<1>2. \A o \in Op : ops[o] = NoOperation
  BY DEF Init
<1>3. \A o \in Op : ~IsFailover(o) /\ ~IsCancel(o)
  BY <1>2 DEF IsFailover, IsCancel, NoOperation
<1>4. AtHome /\ NoZero
  BY <1>1, ClusterAssumption DEF StartedFrom, AtHome, NoZero, Cluster
<1>5. /\ inst.fsm \in {"Pending", "Protected"} /\ inst.lastStable = "" /\ inst.primary # Target
      /\ inst.fsm = "Protected" => inst.primary = Source
  BY <1>1, ClusterAssumption, InstanceAssumption DEF StartedFrom, Cluster
<1>6. Recoverable
  BY <1>4, <1>5 DEF Recoverable, Past, AtHome
<1>7. paused = {} /\ ~syncFailed
  BY DEF Init
<1> QED BY <1>3, <1>5, <1>6, <1>7 DEF RollbackInv, Before

\* Nothing but the end of a sync changes the health of the syncs.
LEMMA SyncsStayHealthy ==
  ASSUME IInv, "sync" \notin Faults, [Next]_vars
  PROVE  syncFailed' = syncFailed
<1>1. TypeOK /\ ConfigErrorRemembers
  BY DEF IInv
<1>2. CASE DependencyChanges \/ StartResourceSync \/ UNCHANGED vars
  BY <1>2 DEF DependencyChanges, ConfigHealthChanges, SyncHealthChanges, StartResourceSync,
              instanceVars, vars
<1> QED BY <1>1, <1>2, ReconcileWrites, InstanceHandlers, UserWrites DEF Next

LEMMA NextRollbackInv ==
  ASSUME IInv, Base, SwitchInv, RollbackInv, ManualSync = FALSE, "sync" \notin Faults,
         Workload # {}, [Next]_vars
  PROVE  RollbackInv'
<1>1. ~syncFailed /\ ~syncFailed'
  BY SyncsStayHealthy DEF RollbackInv
<1>2. TypeOK /\ Fresh /\ ConfigErrorRemembers
  BY DEF IInv, Base
<1>3. SUFFICES ASSUME CancelOnly' PROVE Outcome'
  BY <1>1 DEF RollbackInv, Outcome
<1>4. CASE \E o \in Op : ReconcileOperation(o)
  <2>1. PICK o \in Op : ReconcileOperation(o)
    BY <1>4
  <2>2. CancelOnly
    BY <1>2, <1>3, <2>1, ReconcileKeepsTypes, LoneFailoverKept
  <2> QED BY <2>1, <2>2, OutcomeReconcile DEF RollbackInv, Outcome
<1>5. CASE ReconcileInstance
  <2>1. ops' = ops
    BY <1>2, <1>5, InstanceHandlers
  <2>2. CancelOnly
    BY <1>3, <2>1 DEF CancelOnly, OneFailover, Submitted
  <2> QED BY <1>1, <1>5, <2>2, BeforeInstance, AfterInstance DEF RollbackInv
<1>6. CASE UserStep
  <2>1. CancelOnly
    BY <1>2, <1>3, <1>6, UserKeepsTypes, LoneFailoverKept
  <2> QED BY <1>2, <1>3, <1>6, <2>1, OutcomeUser DEF RollbackInv, Outcome
<1>7. CASE StartResourceSync
  <2>1. ops' = ops
    BY <1>7 DEF StartResourceSync
  <2>2. CancelOnly
    BY <1>3, <2>1 DEF CancelOnly, OneFailover, Submitted
  <2> QED BY <1>2, <1>7, <2>2, OutcomeSync DEF RollbackInv, Outcome
<1>8. CASE DependencyChanges \/ UNCHANGED vars
  <2>1. UNCHANGED <<up, annot, cm, inst, paused, ops>>
    BY <1>8 DEF DependencyChanges, ConfigHealthChanges, SyncHealthChanges, workloadVars, vars
  <2>2. CancelOnly /\ Outcome
    BY <1>3, <2>1 DEF CancelOnly, OneFailover, Submitted, RollbackInv, Outcome
  <2> QED BY <2>1, <2>2 DEF Outcome, After, Before, Recoverable, NoZero, AtHome, Past, NoFailover,
             IsFailover, IsCancel, FailoverBack, Unscaled, HomeRole, Underway, InFlight, Started, CancelBack
<1> QED BY <1>4, <1>5, <1>6, <1>7, <1>8 DEF Next

(***************************************************************************)
(* A cancel that completes and a compensation that succeeds restore.       *)
(***************************************************************************)
Restored == PrimaryServes' /\ paused' = {} /\ inst'.primary = inst.primary

LEMMA HomeServes ==
  ASSUME TypeOK, RolesDistinct, RolesTogether, Recoverable,
         inst.fsm \in {"Protected", "FailingOver", "Failed"},
         AtHome, up' = up, RolesStay, paused' = {}
  PROVE  Restored
BY RunsAtHome, InstanceAssumption
   DEF Restored, PrimaryServes, rolesKnown, AtHome, RolesStay, Cluster

LEMMA CancelRestores ==
  ASSUME IInv, Base, CancelOnly, Outcome, NEW o \in Op, IsCancel(o), Completes(o), ReconcileOperation(o)
  PROVE  Restored
<1>1. TypeOK /\ RolesDistinct /\ RolesTogether /\ Compensating /\ InFlight(o)
  BY InFlightReconciled DEF IInv, Base
<1>2. CancelEnds(o) \/ CancelHome(o)
  BY <1>1, CancelShapes DEF Completes, CancelWaits, CancelGoes, CancelFails, InFlight,
                            isInFlightOperationState
<1>3. inst.fsm \in {"Protected", "FailingOver", "Failed"}
  BY <1>2 DEF CancelEnds, CancelHome, AdmitsCancel
<1>4. Before /\ Recoverable
  BY <1>3 DEF Outcome, After, Before
<1>5. CASE CancelEnds(o)
  <2>1. AtHome /\ paused = {}
    BY <1>1, <1>4, <1>5 DEF CancelEnds, Before, CancelBack, Started
  <2> QED BY <1>1, <1>3, <1>4, <1>5, <2>1, HomeServes DEF CancelEnds, WorkStays
<1>6. CASE CancelHome(o)
  <2>1. AtHome /\ paused' = {} /\ up' = up /\ RolesStay
    BY <1>4, <1>6 DEF CancelHome, Completes, Recoverable, RolesStay
  <2> QED BY <1>1, <1>3, <1>4, <2>1, HomeServes
<1> QED BY <1>2, <1>5, <1>6

LEMMA CompensationRestores ==
  ASSUME IInv, Base, SwitchInv, CancelOnly, Outcome, NEW o \in Op, Compensated(o),
         ReconcileOperation(o)
  PROVE  Restored
<1>1. TypeOK /\ RolesDistinct /\ RolesTogether /\ Compensating /\ LoneFailover /\ InFlight(o)
  BY InFlightReconciled DEF IInv, Base, CancelOnly, OneFailover, LoneFailover
<1>2. IsFailover(o)
  <2>1. OwnMove(o)
    BY <1>1, ReconcileMoves
  <2> QED BY <1>1, <2>1 DEF OwnMove, Ends, SamePc, FailFailoverStep, Compensating, Compensated, IsFailover
<1>3. OnSource(o)
  BY <1>1, <1>2, SwitchOnSource
<1>4. FailoverFails(o) \/ FailoverCompensates(o)
  BY <1>1, <1>2, <1>3, FailoverShapes DEF Compensated, FailoverWaits, SameProgress, Overtaken,
     FailoverBegins, FailoverGoes, FailoverEnds
<1>5. inst.fsm \in {"Protected", "FailingOver"} /\ RolesStay
  BY <1>4 DEF FailoverFails, FailoverCompensates
<1>6. Before /\ Recoverable /\ FailoverBack(o)
  BY <1>2, <1>5 DEF Outcome, After, Before
<1>7. CASE FailoverFails(o)
  <2>1. ops[o].step = 1 /\ Underway(o)
    BY <1>1, <1>2, <1>7 DEF Compensated, FailoverFails, SameProgress, Underway
  <2>2. AtHome /\ paused = {}
    BY <1>6, <2>1 DEF FailoverBack, Unscaled, Underway, InFlight, isInFlightOperationState
  <2>3. up' = up /\ paused' = {}
    BY <1>7, <2>1, <2>2 DEF FailoverFails, StepEffect
  <2> QED BY <1>1, <1>5, <1>6, <2>2, <2>3, HomeServes
<1>8. CASE FailoverCompensates(o)
  <2>1. ops[o].acStep = 4 /\ ops[o].ac = "Running" /\ WorkStays
    BY <1>8 DEF Compensated, FailoverCompensates, SameProgress
  <2>2. AtHome /\ paused = {}
    BY <1>1, <1>6, <2>1 DEF FailoverBack
  <2> QED BY <1>1, <1>5, <1>6, <2>1, <2>2, HomeServes DEF WorkStays
<1> QED BY <1>4, <1>7, <1>8

RestoresWhole ==
  \A o \in Op :
    /\ (ops[o].type = "cancel" /\ Completes(o)) \/ Compensated(o)
    /\ CancelOnly
    => PrimaryServes' /\ paused' = {} /\ inst'.primary = inst.primary

LEMMA NextRestores ==
  ASSUME IInv, Base, SwitchInv, RollbackInv, [Next]_vars
  PROVE  RestoresWhole
<1> SUFFICES ASSUME NEW o \in Op, (IsCancel(o) /\ Completes(o)) \/ Compensated(o), CancelOnly
             PROVE  Restored
  BY DEF RestoresWhole, Restored, IsCancel
<1>1. TypeOK /\ ConfigErrorRemembers /\ Outcome
  BY DEF IInv, RollbackInv, Outcome
<1>2. CASE \E q \in Op : ReconcileOperation(q)
  <2>1. PICK q \in Op : ReconcileOperation(q)
    BY <1>2
  <2>2. q = o
    BY <1>1, <2>1, OthersProgress DEF Overtaken, Completes, Compensated
  <2> QED BY <1>1, <2>1, <2>2, CancelRestores, CompensationRestores
<1>3. CASE ops' = ops
  BY <1>3 DEF Completes, Compensated
<1>4. CASE UserStep
  <2>1. ops'[o] # ops[o]
    BY DEF Completes, Compensated
  <2> QED BY <1>1, <1>4, <2>1, UserLeavesBlank DEF Completes, Compensated
<1>5. ReconcileInstance \/ StartResourceSync \/ DependencyChanges \/ UNCHANGED vars => ops' = ops
  BY DEF ReconcileInstance, StartResourceSync, DependencyChanges, vars
<1> QED BY <1>2, <1>3, <1>4, <1>5 DEF Next

\* A failover that is cancelled, or that reports its compensation as Succeeded,
\* leaves no trace: for any workloads, number of cancels, faults and
\* interleavings, of an instance that starts with its application in the source,
\* whose syncs do not fail and whose users trigger none by hand.  Without
\* workloads an instance is always seen to have lost its primary's role.
THEOREM RollbackLeavesNoTrace ==
  ASSUME ManualSync = FALSE, "target" \notin Starts, "sync" \notin Faults, Workload # {}
  PROVE  Spec => RollbackRestores
<1>1. Spec => []IInv
  BY Invariance
<1>2. Init => DInv /\ SwitchInv /\ RollbackInv
  BY InitDInv, InitSwitchInv, InitRollbackInv
<1>3. IInv /\ DInv /\ SwitchInv /\ RollbackInv /\ [Next]_vars => DInv' /\ SwitchInv' /\ RollbackInv'
  BY NextDInv, NextSwitchInv, NextRollbackInv DEF DInv
<1>4. IInv /\ DInv /\ SwitchInv /\ RollbackInv /\ [Next]_vars => [RestoresWhole]_vars
  BY NextRestores DEF DInv
<1> QED BY <1>1, <1>2, <1>3, <1>4, PTL DEF Spec, RollbackRestores, RestoresWhole

(***************************************************************************)
(* The undo of a switch brings the application back: its inductive         *)
(* invariant.                                                              *)
(***************************************************************************)
IsUndo(o) == ops[o].type = "undo"

\* The roles as a switch leaves them, and as the DisasterConfig has them.
Swapped == inst.primary = Target /\ inst.secondary = Source
RolesHome == inst.primary = Source /\ inst.secondary = Target

\* What is down in the source has its count on itself.
Annotated == Workload \ up[Source] \subseteq annot[Source]

\* A switched instance, before anything else is done to it.
Settled ==
  /\ Swapped
  /\ inst.fsm \in {"Active", "Failed"} \/ (inst.fsm = "ConfigError" /\ inst.lastStable = "Active")

\* A failover that has done its steps ends only once.
AtEnd(o) == Underway(o) /\ ops[o].step = 8 => inst.fsm = "FailingOver" \/ Settled

\* How far an undo has come.
UndoAlong(o) ==
  /\ ops[o].step >= 2 /\ ~ops[o].skipDown => up[Target] = {}
  /\ ops[o].step >= 3 => up[Source] = Workload
  /\ ops[o].step >= 4 => RolesHome
  /\ ops[o].step = 5 => paused = {}

\* After a failover: as long as its undo is to come, the roles are as it left
\* them, and no sync has recorded the source, which is down.
SwitchedWhole(o) ==
  /\ Past
  /\ UndoToCome => Swapped /\ NoZero /\ "resource" \in paused
  /\ \A u \in Op : IsUndo(u) /\ InFlight(u) => UndoAlong(u)

\* An undo past its admission has the failover out of the way.
UndoAfter(u) == IsUndo(u) /\ Started(u) => \E q \in Op : IsFailover(q) /\ ~InFlight(q)

UndoState ==
  /\ Annotated
  /\ \A o \in Op : UndoAfter(o) /\ AtEnd(o)
  /\ \A o \in Op : IsFailover(o) /\ ops[o].state = "Completed" => SwitchedWhole(o)

UndoInv == SingleUndo => UndoState

(***************************************************************************)
(* The reconciliations of an undo.                                         *)
(***************************************************************************)

\* Scaling any cluster down leaves what is down in the source annotated.
LEMMA ClusterDown ==
  ASSUME TypeOK, NEW c \in Cluster, NEW complete \in BOOLEAN, NEW recorded,
         executeScaleDownSource(c, complete, recorded)
  PROVE  /\ Annotated => Annotated'
         /\ NoZero => NoZero'
         /\ complete => up'[c] = {}
<1>1. PICK done \in Scaled(up[c], complete) :
        /\ cm' = IF recorded THEN recordReplicasBeforeScaleDown(c) ELSE cm
        /\ up' = [up EXCEPT ![c] = @ \ done]
        /\ annot' = [annot EXCEPT ![c] = @ \cup done]
  BY DEF executeScaleDownSource
<1>2. /\ Source \in Cluster
      /\ up \in [Cluster -> SUBSET Workload] /\ annot \in [Cluster -> SUBSET Workload]
  BY DEF Cluster, TypeOK, WorkloadsTypeOK
<1>3. complete => done = up[c]
  BY <1>1 DEF Scaled
<1>4. NoZero => NoZero'
  BY <1>1 DEF recordReplicasBeforeScaleDown, NoZero
<1>5. Annotated => Annotated'
  <2>1. CASE c = Source
    <3>1. up'[Source] = up[Source] \ done /\ annot'[Source] = annot[Source] \cup done
      BY <1>1, <1>2, <2>1
    <3> QED BY <3>1 DEF Annotated
  <2>2. CASE c # Source
    <3>1. up'[Source] = up[Source] /\ annot'[Source] = annot[Source]
      BY <1>1, <1>2, <2>2
    <3> QED BY <3>1 DEF Annotated
  <2> QED BY <2>1, <2>2
<1> QED BY <1>1, <1>2, <1>3, <1>4, <1>5

\* What step k of an undo op does, completed or not.
UndoEffect(op, k, complete) ==
  /\ Annotated => Annotated'
  /\ NoZero => NoZero'
  /\ k <= 2 => UNCHANGED paused
  /\ k = 1 /\ complete /\ Swapped /\ ~op.skipDown => up'[Target] = {}
  /\ k = 2 /\ Swapped =>
       /\ up'[Target] = up[Target]
       /\ complete /\ NoZero /\ Annotated => up'[Source] = Workload
  /\ k >= 3 => UNCHANGED up
  /\ k = 4 /\ complete => paused' = {}

LEMMA UndoStepEffect ==
  ASSUME TypeOK, NEW op, NEW k \in 1..4, NEW complete \in BOOLEAN,
         executeUndoStep(op, UndoSteps[k], complete)
  PROVE  UndoEffect(op, k, complete)
<1>1. /\ Source \in Cluster /\ Target \in Cluster /\ Source # Target
      /\ PrimaryCluster \in Cluster /\ SecondaryCluster \in Cluster
  BY ClusterAssumption
     DEF Cluster, PrimaryCluster, SecondaryCluster, TypeOK, InstanceTypeOK, InstanceStatus
<1>2. Swapped => PrimaryCluster = Target /\ SecondaryCluster = Source
  BY InstanceAssumption DEF Swapped, PrimaryCluster, SecondaryCluster, Cluster
<1>3. CASE k = 1
  <2>1. ScaleDownPrimary(op, complete) /\ UNCHANGED paused
    BY <1>3, StepNames DEF executeUndoStep
  <2>2. ASSUME NEW recorded \in BOOLEAN, executeScaleDownSource(PrimaryCluster, complete, recorded)
        PROVE  /\ Annotated => Annotated'
               /\ NoZero => NoZero'
               /\ complete => up'[PrimaryCluster] = {}
    BY <1>1, <2>2, ClusterDown
  <2>3. /\ Annotated => Annotated'
        /\ NoZero => NoZero'
        /\ complete /\ ~op.skipDown => up'[PrimaryCluster] = {}
    <3>1. CASE op.skipDown /\ UNCHANGED workloadVars
      BY <3>1 DEF workloadVars, Annotated, NoZero
    <3> QED BY <2>1, <2>2, <3>1 DEF ScaleDownPrimary
  <2> QED BY <1>2, <1>3, <2>1, <2>3 DEF UndoEffect
<1>4. CASE k = 2
  <2>1. doScaleUp(SecondaryCluster, complete) /\ UNCHANGED paused
    BY <1>4, StepNames DEF executeUndoStep
  <2>2. /\ UNCHANGED <<annot, cm>>
        /\ \A d \in Cluster \ {SecondaryCluster} : up'[d] = up[d]
        /\ up[SecondaryCluster] \subseteq up'[SecondaryCluster]
        /\ complete => up'[SecondaryCluster] = up[SecondaryCluster] \cup Restorable(SecondaryCluster)
    BY <1>1, <2>1, ClusterUp
  <2>3. up[Source] \subseteq up'[Source]
    BY <1>1, <2>2
  <2>4. (Annotated => Annotated') /\ (NoZero => NoZero')
    BY <2>2, <2>3 DEF Annotated, NoZero
  <2>5. ASSUME Swapped
        PROVE  /\ up'[Target] = up[Target]
               /\ complete /\ NoZero /\ Annotated => up'[Source] = Workload
    BY <1>1, <1>2, <2>2, <2>5, SourceRestorable DEF Annotated
  <2> QED BY <1>4, <2>1, <2>4, <2>5 DEF UndoEffect
<1>5. CASE k \in {3, 4}
  <2>1. UNCHANGED workloadVars /\ (k = 4 /\ complete => paused' = {})
    BY <1>5, StepNames DEF executeUndoStep, executeResumeSchedules
  <2> QED BY <1>5, <2>1 DEF workloadVars, UndoEffect, Annotated, NoZero
<1> QED BY <1>3, <1>4, <1>5

\* It is started or given up, fills its steps or starts one.
UndoWaits(o) ==
  /\ WorkStays /\ inst' = inst /\ ops'[o].state # "Completed"
  /\ InFlight(o)' =>
       \/ ops'[o].step = ops[o].step
       \/ /\ ops'[o].step = 1 /\ ops[o].step = 0 /\ ~Start(o)
          /\ inst.fsm \in {"Active", "FailingOver"}

LEMMA UndoWaitsShape ==
  ASSUME TypeOK, NEW o \in Op, IsUndo(o), Start(o) \/ Reject(o) \/ InitSteps(o) \/ StartStep(o)
  PROVE  UndoWaits(o)
<1> DEFINE s == Stamp(ops[o])
           r == [s EXCEPT !.state = "Running"]
           f == [s EXCEPT !.state = "Failed"]
           i == [ops[o] EXCEPT !.step = 1]
           g == [ops[o] EXCEPT !.stepState = "Running"]
           begins == ops[o].step = 0 /\ ~Start(o) /\ inst.fsm \in {"Active", "FailingOver"}
<1>1. ops[o] \in Operation /\ InFlight(o)
  BY InFlightReconciled DEF ReconcileOperation, TypeOK, OperationTypeOK
<1>2. s \in Operation /\ s.step = ops[o].step
  BY <1>1, StampType DEF Operation
<1>3. inst' = inst /\ WorkStays
  BY DEF IsUndo, Start, Reject, InitSteps, StartStep, Entered, workloadVars, instanceVars, WorkStays
<1>4. ops'[o] \in {r, f, g, ops[o]} \/ (ops'[o] = i /\ begins)
  <2>1. CASE Start(o)
    BY <2>1 DEF Start, TypeOK, OperationTypeOK
  <2>2. CASE Reject(o)
    <3>1. WriteOperation(o, f)
      BY <2>2 DEF Reject, IsUndo
    <3> QED BY <3>1, OwnWritten
  <2>3. CASE InitSteps(o)
    BY <2>3, OwnWritten DEF InitSteps, Admitted, AdmittedFsm, IsUndo, Start
  <2>4. CASE StartStep(o)
    BY <2>4, OwnWritten DEF StartStep
  <2> QED BY <2>1, <2>2, <2>3, <2>4
<1> HIDE DEF s
<1>5. r.state = "Running" /\ r.step = s.step
  BY <1>2 DEF Operation
<1>6. f.state = "Failed"
  BY <1>2 DEF Operation
<1>7. i.step = 1 /\ i.state = ops[o].state /\ g.step = ops[o].step /\ g.state = ops[o].state
  BY <1>1 DEF Operation
<1> HIDE DEF r, f, i, g
<1> QED BY <1>1, <1>2, <1>3, <1>4, <1>5, <1>6, <1>7
        DEF UndoWaits, InFlight, isInFlightOperationState

\* It completes a step.
UndoGoes(o) ==
  LET k == ops[o].step
  IN /\ k \in 1..4 /\ UndoEffect(ops[o], k, TRUE)
     /\ IF k = 3 THEN RolesHome' ELSE RolesStay
     /\ InFlight(o)' /\ ops'[o].step \in {k, k + 1}

LEMMA UndoGoesShape ==
  ASSUME TypeOK, NEW o \in Op, IsUndo(o), StepDone(o)
  PROVE  UndoGoes(o)
<1> DEFINE k == ops[o].step
           n == k + 1
           op == [ops[o] EXCEPT !.step = n, !.stepState = "Pending"]
<1>1. ops[o] \in Operation
  BY DEF TypeOK, OperationTypeOK
<1>2. /\ AtStep(o, "Running") /\ ExecuteStep(ops[o], CurrentName(o), TRUE)
      /\ inst' = SwitchedBack(ops[o], CurrentName(o), inst)
  BY DEF StepDone, Entered, IsUndo
<1>3. k \in 1..4 /\ CurrentName(o) = UndoSteps[k] /\ InFlight(o)
  BY <1>2, AtStepNames DEF IsUndo
<1>4. UndoEffect(ops[o], k, TRUE)
  <2>1. executeUndoStep(ops[o], UndoSteps[k], TRUE)
    BY <1>2, <1>3 DEF ExecuteStep, IsUndo
  <2> QED BY <1>3, <2>1, UndoStepEffect
<1>5. IF k = 3 THEN RolesHome' ELSE RolesStay
  <2>1. k = 3 <=> CurrentName(o) = "SwitchRoles"
    BY <1>3, StepNames
  <2> QED BY <1>2, <2>1
          DEF SwitchedBack, IsUndo, RolesHome, RolesStay, TypeOK, InstanceTypeOK, InstanceStatus
<1>6. ops'[o] \in {op, ops[o]}
  BY OwnWritten DEF StepDone
<1>n. n = k + 1
  OBVIOUS
<1> HIDE DEF n
<1>7. op.step = n /\ op.state = ops[o].state
  BY <1>1 DEF Operation
<1> HIDE DEF op
<1> QED BY <1>3, <1>4, <1>5, <1>6, <1>7, <1>n DEF UndoGoes, InFlight

\* A step fails.
UndoFails(o) ==
  LET k == ops[o].step
  IN /\ k \in 1..4 /\ UndoEffect(ops[o], k, FALSE) /\ RolesStay
     /\ ops'[o].state # "Completed" /\ ops'[o].step = k

LEMMA UndoFailsShape ==
  ASSUME TypeOK, NEW o \in Op, IsUndo(o), FailStep(o)
  PROVE  UndoFails(o)
<1> DEFINE k == ops[o].step
           s == Stamp(ops[o])
           d == [s EXCEPT !.state = "Failed", !.stepState = "Failed"]
<1>1. ops[o] \in Operation
  BY DEF TypeOK, OperationTypeOK
<1>2. /\ AtStep(o, "Running") /\ StepFails(o, CurrentName(o))
      /\ Settle("undo", CurrentName(o), inst)
  BY DEF FailStep, Entered, IsUndo
<1>3. k \in 1..4 /\ CurrentName(o) = UndoSteps[k] /\ InFlight(o)
  BY <1>2, AtStepNames DEF IsUndo
<1>4. UndoEffect(ops[o], k, FALSE)
  <2>1. CASE ExecuteStep(ops[o], CurrentName(o), FALSE)
    <3>1. executeUndoStep(ops[o], UndoSteps[k], FALSE)
      BY <1>3, <2>1 DEF ExecuteStep, IsUndo
    <3> QED BY <1>3, <3>1, UndoStepEffect
  <2>2. CASE UNCHANGED <<workloadVars, paused>>
    BY <1>3, <2>2 DEF workloadVars, UndoEffect, Annotated, NoZero
  <2> QED BY <1>2, <2>1, <2>2 DEF StepFails
<1>5. RolesStay
  BY <1>2, SettledMove DEF RolesStay, TypeOK, InstanceTypeOK
<1>6. ops'[o] \in {d, ops[o]}
  BY OwnWritten DEF FailStep, FailedAtStep
<1>7. s \in Operation /\ s.step = k
  BY <1>1, StampType DEF Operation
<1> HIDE DEF s
<1>8. d.state = "Failed" /\ d.step = s.step
  BY <1>7 DEF Operation
<1> HIDE DEF d
<1> QED BY <1>3, <1>4, <1>5, <1>6, <1>7, <1>8 DEF UndoFails, InFlight, isInFlightOperationState

\* It ends.
UndoEnds(o) ==
  /\ ops[o].step = 5 /\ WorkStays /\ RolesStay
  /\ ops'[o].state = "Completed" \/ (InFlight(o)' /\ ops'[o].step = 5)

LEMMA UndoEndsShape ==
  ASSUME TypeOK, NEW o \in Op, IsUndo(o), Finish(o)
  PROVE  UndoEnds(o)
<1> DEFINE s == Stamp(ops[o])
           r == RoleStatus(Finished("undo"))
           op == [s EXCEPT !.state = "Completed", !.role = r]
<1>1. Admitted(o) /\ ops[o].step = Len(StepsOf(ops[o].type)) + 1
  BY DEF Finish, AllStepsDone
<1>2. ops[o].step = 5 /\ InFlight(o)
  <2>1. StepsOf(ops[o].type) = UndoSteps
    BY DEF StepsOf, IsUndo
  <2>2. ops[o].step = 5
    BY <1>1, <2>1, StepNames
  <2> QED BY <1>1, <2>2 DEF Admitted, InFlight, isInFlightOperationState
<1>3. WorkStays /\ RolesStay
  BY DEF Finish, IsUndo, Finished, To, WorkStays, RolesStay, workloadVars, TypeOK, InstanceTypeOK,
         InstanceStatus
<1>4. ops'[o] \in {op, ops[o]}
  BY OwnWritten DEF Finish, IsUndo
<1>5. s \in Operation
  BY StampType DEF TypeOK, OperationTypeOK
<1> HIDE DEF s, r
<1>6. op.state = "Completed"
  BY <1>5 DEF Operation
<1> HIDE DEF op
<1> QED BY <1>2, <1>3, <1>4, <1>6 DEF UndoEnds, InFlight

\* Every reconciliation of an undo is one of these.
LEMMA UndoShapes ==
  ASSUME TypeOK, Compensating, NEW o \in Op, IsUndo(o), ReconcileOperation(o)
  PROVE  UndoWaits(o) \/ UndoGoes(o) \/ UndoFails(o) \/ UndoEnds(o)
<1>1. InFlight(o) /\ ops[o].ac # "Running"
  BY InFlightReconciled DEF Compensating, IsUndo
<1>2. /\ ~LockRoles(o) /\ ~FailFailoverStep(o) /\ ~FinishRetried(o) /\ ~StepWaits(o)
      /\ ~handlePause(o) /\ ~handleResume(o) /\ ~CancelProtected(o)
  BY DEF IsUndo, LockRoles, FailFailoverStep, FinishRetried, StepWaits, handlePause, handleResume,
         CancelProtected
<1>3. /\ ~StartAutoCancelStep(o) /\ ~AutoCancelStepDone(o) /\ ~AutoCancelStepWaits(o)
      /\ ~failFailoverAutoCancel(o) /\ ~completeFailoverAutoCancel(o)
  BY <1>1 DEF StartAutoCancelStep, AutoCancelStepDone, AutoCancelStepWaits,
              failFailoverAutoCancel, completeFailoverAutoCancel, AtAutoCancelStep
<1> QED BY <1>2, <1>3, UndoWaitsShape, UndoGoesShape, UndoFailsShape, UndoEndsShape
        DEF ReconcileOperation

(***************************************************************************)
(* UndoInv is kept by every step.                                          *)
(***************************************************************************)

\* A single failover and its undo: what SwitchInv says of the failover holds.
LEMMA SingleIsOne ==
  ASSUME SingleUndo
  PROVE  /\ LoneFailover
         /\ \A o, q \in Op : IsFailover(o) /\ IsFailover(q) => o = q
         /\ \A o, q \in Op : IsUndo(o) /\ IsUndo(q) => o = q
         /\ \A o \in Op : ops[o].type = "none" \/ IsFailover(o) \/ IsUndo(o)
BY DEF SingleUndo, LoneFailover, Submitted, IsFailover, IsUndo

\* What a failover brings down in the source stays annotated.
LEMMA FailoverAnnotates ==
  ASSUME TypeOK, Compensating, NEW o \in Op, IsFailover(o), OnSource(o), ReconcileOperation(o), Annotated
  PROVE  Annotated'
<1>1. ASSUME NEW k \in 1..7, NEW complete \in BOOLEAN, StepEffect(ops[o], k, complete) PROVE Annotated'
  BY <1>1 DEF StepEffect, Annotated
<1>2. ASSUME NEW j \in 1..3, NEW complete \in BOOLEAN, CancelEffect(j, complete) PROVE Annotated'
  BY <1>2 DEF CancelEffect, Homeward, Annotated
<1>3. CASE FailoverWaits(o) \/ FailoverBegins(o) \/ FailoverEnds(o)
  BY <1>3 DEF FailoverWaits, FailoverBegins, FailoverEnds, WorkStays, Annotated
<1>4. CASE FailoverGoes(o) \/ FailoverFails(o)
  BY <1>1, <1>4 DEF FailoverGoes, FailoverFails
<1>5. CASE FailoverCompensates(o)
  BY <1>2, <1>5 DEF FailoverCompensates, WorkStays, Annotated
<1> QED BY <1>3, <1>4, <1>5, FailoverShapes

\* A reconciliation of the failover.
LEMMA UndoStateFailover ==
  ASSUME IInv, Base, SwitchInv, SingleUndo, UndoState,
         NEW o \in Op, IsFailover(o), ReconcileOperation(o)
  PROVE  UndoState'
<1>1. /\ TypeOK /\ RolesDistinct /\ Compensating /\ RolesTogether /\ LoneFailover /\ InFlight(o)
      /\ \A q \in Op : IsFailover(q) => q = o
  BY SingleIsOne, InFlightReconciled DEF IInv, Base
<1>2. OnSource(o)
  BY <1>1, SwitchOnSource
<1>3. \A q \in Op : q # o => ops'[q] = ops[q]
  BY <1>1, OthersProgress DEF Overtaken
<1>4. IsFailover(o)' /\ \A q \in Op : IsFailover(q)' => q = o
  <2>1. ops'[o].type = ops[o].type
    BY <1>1, ReconcileMoves DEF OwnMove, Kept
  <2> QED BY <1>1, <1>3, <2>1 DEF IsFailover
<1>5. Annotated'
  BY <1>1, <1>2, FailoverAnnotates DEF UndoState
<1>6. \A u \in Op : IsUndo(u) => ~Started(u)
  BY <1>1 DEF UndoState, UndoAfter
<1>7. \A u \in Op : IsUndo(u)' => ops'[u] = ops[u] /\ IsUndo(u) /\ ~Started(u)
  BY <1>3, <1>4, <1>6 DEF IsUndo, IsFailover
<1>8. \A u \in Op : UndoAfter(u)'
  BY <1>7 DEF UndoAfter, Started, InFlight
<1>9. /\ AtEnd(o)'
      /\ ops'[o].state = "Completed" => FailoverEnds(o) /\ inst.fsm = "FailingOver" /\ Settled'
  <2>1. AtEnd(o)
    BY DEF UndoState
  <2>2. SameProgress(o) => ops'[o].state # "Completed"
    BY DEF SameProgress, InFlight, isInFlightOperationState
  <2>3. CASE FailoverWaits(o)
    BY <1>1, <2>1, <2>2, <2>3 DEF FailoverWaits, SameProgress, Overtaken, AtEnd, Settled, Swapped,
                                  Underway, InFlight, isInFlightOperationState
  <2>4. CASE FailoverBegins(o) \/ FailoverGoes(o)
    BY <2>4 DEF FailoverBegins, FailoverGoes, GoesOn, AtEnd, InFlight, isInFlightOperationState
  <2>5. CASE FailoverFails(o)
    BY <2>2, <2>5 DEF FailoverFails, AtEnd, InFlight, isInFlightOperationState
  <2>6. CASE FailoverCompensates(o)
    BY <2>2, <2>6 DEF FailoverCompensates, SameProgress, AtEnd, Underway, InFlight,
                      isInFlightOperationState
  <2>7. CASE FailoverEnds(o)
    <3>1. Underway(o) /\ ops[o].step = 8
      BY <1>1, <2>7 DEF FailoverEnds, Underway
    <3>2. inst.fsm = "FailingOver"
      BY <2>1, <2>7, <3>1 DEF FailoverEnds, AtEnd, Settled
    <3>3. inst.primary = Source
      BY <1>1, <3>1, <3>2 DEF SwitchInv, OnItsWay
    <3>4. inst.secondary = Target
      <4>1. inst.secondary \in {Source, Target, NoCluster}
        BY <1>1 DEF TypeOK, InstanceTypeOK, InstanceStatus, Cluster
      <4> QED BY <1>1, <3>3, <4>1, InstanceAssumption DEF RolesDistinct, RolesTogether, Cluster
    <3>5. Settled'
      BY <2>7, <3>3, <3>4 DEF FailoverEnds, Settled, Swapped
    <3> QED BY <2>7, <3>2, <3>5 DEF AtEnd
  <2> QED BY <1>1, <1>2, <2>3, <2>4, <2>5, <2>6, <2>7, FailoverShapes
<1>10. ops'[o].state = "Completed" => SwitchedWhole(o)'
  <2> SUFFICES ASSUME ops'[o].state = "Completed" PROVE SwitchedWhole(o)'
    OBVIOUS
  <2>1. FailoverEnds(o) /\ inst.fsm = "FailingOver" /\ Settled'
    BY <1>9
  <2>2. OnItsWay(o) /\ ops[o].step = 8
    BY <1>1, <2>1 DEF FailoverEnds, SwitchInv, Underway
  <2>3. NoZero' /\ "resource" \in paused'
    BY <2>1, <2>2 DEF OnItsWay, FailoverEnds, WorkStays, NoZero, Syncs
  <2>4. Past'
    BY <2>1 DEF FailoverEnds, Past
  <2>5. ASSUME NEW u \in Op, IsUndo(u)', InFlight(u)' PROVE UndoAlong(u)'
    <3>1. ops'[u] = ops[u] /\ ~Started(u)
      BY <1>7, <2>5
    <3>2. ops'[u].step = 0
      BY <1>1, <2>5, <3>1 DEF Started, InFlight, TypeOK, OperationTypeOK, Operation
    <3> QED BY <3>2 DEF UndoAlong
  <2> QED BY <2>1, <2>3, <2>4, <2>5 DEF SwitchedWhole, Settled
<1>11. \A q \in Op : AtEnd(q)'
  BY <1>4, <1>9 DEF AtEnd, Underway
<1> QED BY <1>4, <1>5, <1>8, <1>10, <1>11 DEF UndoState

\* The undo is to come after a reconciliation only if it was before.
LEMMA UndoComesLater ==
  ASSUME TypeOK, Compensating, SingleUndo, NEW o \in Op, IsUndo(o), ReconcileOperation(o)
  PROVE  /\ UndoToCome <=> ops[o].step <= 2
         /\ UndoToCome' => InFlight(o)' /\ ops'[o].step <= 2 /\ UndoToCome
<1>1. InFlight(o) /\ \A u \in Op : IsUndo(u) => u = o
  BY SingleIsOne, InFlightReconciled
<1>2. IsUndo(o)'
  BY ReconcileMoves DEF OwnMove, Kept, IsUndo
<1>3. UndoToCome <=> ops[o].step <= 2
  BY <1>1 DEF UndoToCome, IsUndo
<1>4. ASSUME UndoToCome' PROVE InFlight(o)' /\ ops'[o].step <= 2 /\ ops[o].step <= 2
  <2>1. InFlight(o)' /\ ops'[o].step <= 2
    BY <1>2, <1>4 DEF UndoToCome, IsUndo
  <2>2. ops'[o].step >= ops[o].step
    BY <2>1, StepsGoForward
  <2>3. ops[o].step \in 0..8 /\ ops'[o].step \in 0..8
    <3>1. ops[o].step \in 0..8
      BY DEF TypeOK, OperationTypeOK, Operation
    <3>2. UndoWaits(o) \/ UndoGoes(o) \/ UndoFails(o) \/ UndoEnds(o)
      BY UndoShapes
    <3>3. UndoGoes(o) => ops'[o].step \in {ops[o].step, ops[o].step + 1} /\ ops[o].step \in 1..4
      BY DEF UndoGoes
    <3>4. UndoWaits(o) \/ UndoFails(o) \/ UndoEnds(o) => ops'[o].step \in {1, 5, ops[o].step}
      BY <2>1 DEF UndoWaits, UndoFails, UndoEnds, InFlight, isInFlightOperationState
    <3> QED BY <3>1, <3>2, <3>3, <3>4
  <2> QED BY <2>1, <2>2, <2>3
<1> QED BY <1>3, <1>4

\* An undo brings a switched application back, step by step.
LEMMA UndoBringsBack ==
  ASSUME TypeOK, Compensating, SingleUndo, Annotated, NEW o \in Op, IsUndo(o),
         ReconcileOperation(o), NEW q \in Op, SwitchedWhole(q)
  PROVE  SwitchedWhole(q)'
<1>1. /\ InFlight(o) /\ (\A u \in Op : IsUndo(u)' => u = o) /\ ops[o].step \in 0..8
      /\ ops'[o].skipDown = ops[o].skipDown
  <2>1. \A u \in Op : ops'[u].type = ops[u].type /\ ops'[u].skipDown = ops[u].skipDown
    BY ReconcileMoves, OthersMove DEF OwnMove, Kept
  <2> QED BY <2>1, SingleIsOne, InFlightReconciled
          DEF IsUndo, TypeOK, OperationTypeOK, Operation
<1>2. /\ UndoToCome <=> ops[o].step <= 2
      /\ UndoToCome' => InFlight(o)' /\ ops'[o].step <= 2 /\ UndoToCome
  BY UndoComesLater
<1>3. UndoAlong(o) /\ Past /\ (ops[o].step <= 2 => Swapped /\ NoZero /\ "resource" \in paused)
  BY <1>1, <1>2 DEF SwitchedWhole
<1>4. Past'
  BY <1>3, PastStays
<1>5. SUFFICES /\ UndoToCome' => Swapped' /\ NoZero' /\ "resource" \in paused'
               /\ InFlight(o)' => UndoAlong(o)'
  BY <1>1, <1>4 DEF SwitchedWhole
<1>6. CASE UndoWaits(o)
  <2>1. UndoToCome' => Swapped' /\ NoZero' /\ "resource" \in paused'
    BY <1>2, <1>3, <1>6 DEF UndoWaits, WorkStays, Swapped, NoZero
  <2>2. InFlight(o)' => UndoAlong(o)'
    BY <1>1, <1>3, <1>6 DEF UndoWaits, WorkStays, UndoAlong, RolesHome
  <2> QED BY <2>1, <2>2
<1>7. ASSUME NEW complete \in BOOLEAN, NEW k \in 1..4, k = ops[o].step, UndoEffect(ops[o], k, complete),
             IF k = 3 /\ complete THEN RolesHome' ELSE RolesStay,
             ops'[o].step = k \/ (complete /\ ops'[o].step = k + 1)
      PROVE  /\ UndoToCome' => Swapped' /\ NoZero' /\ "resource" \in paused'
             /\ InFlight(o)' => UndoAlong(o)'
  <2>1. UndoToCome' => Swapped' /\ NoZero' /\ "resource" \in paused'
    BY <1>2, <1>3, <1>7 DEF UndoEffect, RolesStay, Swapped
  <2>2. CASE k = 1
    BY <1>1, <1>3, <1>7, <2>1, <2>2 DEF UndoEffect, UndoAlong
  <2>3. CASE k = 2
    BY <1>1, <1>3, <1>7, <2>1, <2>3 DEF UndoEffect, UndoAlong
  <2>4. CASE k = 3
    BY <1>1, <1>3, <1>7, <2>1, <2>4 DEF UndoEffect, UndoAlong
  <2>5. CASE k = 4
    BY <1>1, <1>3, <1>7, <2>1, <2>5 DEF UndoEffect, UndoAlong, RolesStay, RolesHome
  <2> QED BY <1>7, <2>1, <2>2, <2>3, <2>4, <2>5
<1>8. CASE UndoGoes(o)
  BY <1>7, <1>8 DEF UndoGoes
<1>9. CASE UndoFails(o)
  BY <1>7, <1>9 DEF UndoFails
<1>10. CASE UndoEnds(o)
  <2>1. ~UndoToCome'
    BY <1>2, <1>10 DEF UndoEnds
  <2>2. InFlight(o)' => UndoAlong(o)'
    BY <1>1, <1>3, <1>10 DEF UndoEnds, WorkStays, RolesStay, UndoAlong, RolesHome, InFlight,
                       isInFlightOperationState
  <2> QED BY <2>1, <2>2
<1> QED BY <1>6, <1>8, <1>9, <1>10, UndoShapes

\* A reconciliation of the undo.
LEMMA UndoStateUndo ==
  ASSUME IInv, Base, SwitchInv, SingleUndo, UndoState,
         NEW o \in Op, IsUndo(o), ReconcileOperation(o)
  PROVE  UndoState'
<1>1. /\ TypeOK /\ Compensating /\ LoneFailover /\ InFlight(o)
      /\ \A u \in Op : IsUndo(u) => u = o
  BY SingleIsOne, InFlightReconciled DEF IInv, Base
<1>2. \A q \in Op : ops'[q].type = ops[q].type
  BY <1>1, ReconcileMoves, OthersMove DEF OwnMove, Kept
<1>3. \A q \in Op : IsFailover(q) => ops'[q] = ops[q] \/ Overtaken(q)
  BY <1>1, OthersProgress DEF IsFailover, IsUndo
<1>4. UndoWaits(o) \/ UndoGoes(o) \/ UndoFails(o) \/ UndoEnds(o)
  BY <1>1, UndoShapes
<1>5. Annotated'
  BY <1>4 DEF UndoState, UndoWaits, UndoGoes, UndoFails, UndoEnds, UndoEffect, WorkStays, Annotated
<1>6. ~Start(o) => \A q \in Op : IsFailover(q) => ~InFlight(q)'
  BY <1>1, CancelOvertakes DEF IsUndo
<1>7. Start(o) => /\ inst' = inst
                  /\ \A q \in Op : IsFailover(q) => ops'[q] = ops[q]
                  /\ ops'[o].step = ops[o].step
  <2> SUFFICES ASSUME Start(o) PROVE /\ inst' = inst
                                     /\ \A q \in Op : IsFailover(q) => ops'[q] = ops[q]
                                     /\ ops'[o].step = ops[o].step
    OBVIOUS
  <2> DEFINE s == Stamp(ops[o])
             r == [s EXCEPT !.state = "Running"]
  <2>1. ops' = [ops EXCEPT ![o] = r] /\ inst' = inst
    BY DEF Start, instanceVars
  <2>2. s \in Operation /\ s.step = ops[o].step
    BY <1>1, StampType DEF TypeOK, OperationTypeOK, Operation
  <2> HIDE DEF s
  <2>3. r.step = s.step
    BY <2>2 DEF Operation
  <2> HIDE DEF r
  <2> QED BY <1>1, <2>1, <2>2, <2>3 DEF TypeOK, OperationTypeOK, IsFailover, IsUndo
<1>8. ASSUME NEW u \in Op PROVE UndoAfter(u)'
  <2> SUFFICES ASSUME IsUndo(u)', Started(u)' PROVE \E q \in Op : IsFailover(q)' /\ ~InFlight(q)'
    BY DEF UndoAfter
  <2>1. u = o
    BY <1>1, <1>2 DEF IsUndo
  <2>2. CASE Start(o)
    <3>1. Started(o)
      BY <1>1, <1>7, <2>1, <2>2 DEF Started
    <3>2. PICK q \in Op : IsFailover(q) /\ ~InFlight(q)
      BY <3>1 DEF UndoState, UndoAfter
    <3> QED BY <1>7, <2>2, <3>2 DEF IsFailover, InFlight
  <2>3. CASE ~Start(o)
    <3>1. ~NoFailover
      <4>1. CASE Started(o)
        BY <4>1 DEF UndoState, UndoAfter, NoFailover
      <4>2. CASE ~Started(o)
        <5>1. ops[o].step = 0
          BY <1>1, <4>2 DEF Started, TypeOK, OperationTypeOK, Operation
        <5>2. inst.fsm \in {"Active", "FailingOver"}
          BY <1>4, <2>1, <5>1 DEF UndoWaits, UndoGoes, UndoFails, UndoEnds, Started
        <5> QED BY <1>1, <5>2 DEF SwitchInv, Unswitched
      <4> QED BY <4>1, <4>2
    <3>2. PICK q \in Op : IsFailover(q)
      BY <3>1 DEF NoFailover
    <3> QED BY <1>2, <1>6, <2>3, <3>2 DEF IsFailover
  <2> QED BY <2>2, <2>3
<1>9. ASSUME NEW q \in Op PROVE AtEnd(q)'
  <2> SUFFICES ASSUME Underway(q)', ops'[q].step = 8 PROVE (inst.fsm = "FailingOver" \/ Settled)'
    BY DEF AtEnd
  <2>1. IsFailover(q) /\ InFlight(q)'
    BY <1>2 DEF Underway, IsFailover
  <2>2. Start(o) /\ ops'[q] = ops[q] /\ inst' = inst
    BY <1>6, <1>7, <2>1
  <2>3. Underway(q) /\ AtEnd(q)
    BY <2>1, <2>2 DEF Underway, InFlight, UndoState
  <2> QED BY <2>2, <2>3 DEF AtEnd, Settled, Swapped
<1>10. ASSUME NEW q \in Op, IsFailover(q)', ops'[q].state = "Completed" PROVE SwitchedWhole(q)'
  <2>1. IsFailover(q) /\ ops'[q] = ops[q]
    BY <1>2, <1>3, <1>10 DEF IsFailover, Overtaken
  <2>2. SwitchedWhole(q) /\ Annotated
    BY <1>10, <2>1 DEF UndoState
  <2> QED BY <1>1, <2>2, UndoBringsBack
<1> QED BY <1>5, <1>8, <1>9, <1>10 DEF UndoState

\* What users submit or delete starts anew.
Blank(q) ==
  /\ ops'[q].step = 0 /\ ops'[q].state \in {"Pending", "Deleted"}
  /\ ops'[q].state = "Pending" => ops[q].state = "Absent"

\* A step that leaves the instance and the workloads, and the progress of the
\* failover and of the undo.
LEMMA UndoStateStays ==
  ASSUME Fresh, UndoState, inst' = inst, WorkStays,
         \A q \in Op : IsFailover(q) => IsFailover(q)',
         \A q \in Op : IsUndo(q) => IsUndo(q)',
         \A q \in Op : ops'[q] = ops[q] \/ Overtaken(q) \/ Blank(q) \/ ops'[q].type = "none"
  PROVE  UndoState'
<1>1. Annotated'
  BY DEF UndoState, Annotated, WorkStays
<1>2. \A q \in Op : (IsFailover(q) \/ IsUndo(q)) => ops[q].state # "Absent"
  BY DEF Fresh, IsFailover, IsUndo
<1>3. \A q \in Op : IsFailover(q) /\ ~InFlight(q) => ~InFlight(q)'
  BY <1>2 DEF Overtaken, Blank, IsFailover, InFlight, isInFlightOperationState
<1>4. ASSUME NEW u \in Op, IsUndo(u)', ops'[u].step # 0 \/ IsUndo(u), InFlight(u)'
      PROVE  ops'[u] = ops[u]
  BY <1>2, <1>4 DEF Overtaken, Blank, IsFailover, IsUndo, InFlight, isInFlightOperationState
<1>5. ASSUME NEW u \in Op PROVE UndoAfter(u)'
  <2> SUFFICES ASSUME IsUndo(u)', Started(u)' PROVE \E q \in Op : IsFailover(q)' /\ ~InFlight(q)'
    BY DEF UndoAfter
  <2>1. ops'[u] = ops[u]
    <3>1. CASE Blank(u)
      BY <3>1 DEF Blank, Started
    <3>2. CASE Overtaken(u)
      BY <3>2 DEF Overtaken, Started, InFlight, isInFlightOperationState
    <3> QED BY <3>1, <3>2 DEF IsUndo
  <2>2. PICK q \in Op : IsFailover(q) /\ ~InFlight(q)
    BY <2>1 DEF UndoState, UndoAfter, IsUndo, Started, InFlight
  <2> QED BY <1>3, <2>2
<1>6. ASSUME NEW q \in Op PROVE AtEnd(q)'
  <2> SUFFICES ASSUME Underway(q)', ops'[q].step = 8 PROVE (inst.fsm = "FailingOver" \/ Settled)'
    BY DEF AtEnd
  <2>1. ops'[q] = ops[q]
    BY DEF Underway, IsFailover, Overtaken, Blank, InFlight, isInFlightOperationState
  <2>2. AtEnd(q) /\ Underway(q)
    BY <2>1 DEF UndoState, Underway, IsFailover, InFlight
  <2> QED BY <2>1, <2>2 DEF AtEnd, Settled, Swapped
<1>7. UndoToCome' => UndoToCome
  BY <1>4 DEF UndoToCome, IsUndo, InFlight
<1>8. ASSUME NEW q \in Op, IsFailover(q)', ops'[q].state = "Completed" PROVE SwitchedWhole(q)'
  <2>1. ops'[q] = ops[q]
    BY <1>8 DEF IsFailover, Overtaken, Blank
  <2>2. SwitchedWhole(q)
    BY <1>8, <2>1 DEF UndoState, IsFailover
  <2>3. ASSUME NEW u \in Op, IsUndo(u)', InFlight(u)' PROVE UndoAlong(u)'
    <3>1. CASE ops'[u] = ops[u]
      <4>1. UndoAlong(u)
        BY <2>2, <2>3, <3>1 DEF SwitchedWhole, IsUndo, InFlight
      <4> QED BY <3>1, <4>1 DEF UndoAlong, WorkStays, RolesHome
    <3>2. CASE ops'[u].step = 0
      BY <3>2 DEF UndoAlong
    <3> QED BY <1>4, <2>3, <3>1, <3>2
  <2>4. Past' /\ (UndoToCome' => Swapped' /\ NoZero' /\ "resource" \in paused')
    BY <1>7, <2>2 DEF SwitchedWhole, Past, Swapped, NoZero, WorkStays
  <2> QED BY <2>3, <2>4 DEF SwitchedWhole
<1> QED BY <1>1, <1>5, <1>6, <1>8 DEF UndoState

LEMMA UndoReconcile ==
  ASSUME IInv, Base, SwitchInv, UndoInv, NEW o \in Op, ReconcileOperation(o)
  PROVE  UndoInv'
<1>1. TypeOK /\ Fresh /\ Compensating
  BY DEF IInv, Base
<1>2. \A q \in Op : ops'[q].type = ops[q].type
  BY <1>1, ReconcileMoves, OthersMove DEF OwnMove, Kept
<1>3. SUFFICES ASSUME SingleUndo' PROVE UndoState'
  BY DEF UndoInv
<1>4. SingleUndo /\ UndoState /\ LoneFailover
  BY <1>1, <1>3, ReconcileKeepsTypes, DisciplineKept, SingleIsOne DEF UndoInv
<1>5. CASE IsFailover(o)
  BY <1>1, <1>4, <1>5, UndoStateFailover
<1>6. CASE IsUndo(o)
  BY <1>1, <1>4, <1>6, UndoStateUndo
<1>7. CASE ops[o].type = "none"
  <2>1. inst' = inst /\ WorkStays
    BY <1>1, <1>4, <1>7, ActsAdmitted, OnlyOperations DEF IsFailover, IsCancel
  <2>2. \A q \in Op : ops'[q] = ops[q] \/ Overtaken(q) \/ ops'[q].type = "none"
    BY <1>1, <1>2, <1>7, OthersProgress
  <2>3. \A q \in Op : (IsFailover(q) => IsFailover(q)') /\ (IsUndo(q) => IsUndo(q)')
    BY <1>2 DEF IsFailover, IsUndo
  <2> QED BY <1>1, <1>4, <2>1, <2>2, <2>3, UndoStateStays
<1> QED BY <1>1, <1>4, <1>5, <1>6, <1>7, SingleIsOne

\* The handlers of the instance leave a switched instance switched.
LEMMA SettledStays ==
  ASSUME TypeOK, ConfigErrorRemembers, ReconcileInstance, Settled
  PROVE  Settled'
<1> USE DEF TypeOK, InstanceTypeOK, InstanceStatus, FsmState, Reason, To, ToFailed, Settled, Swapped
<1>1. CASE guardByConfigHealth
  <2>1. GuardMoves
    BY <1>1, GuardShape
  <2>2. inst'.secondary = inst.secondary
    BY <1>1 DEF guardByConfigHealth
  <2> QED BY <2>1, <2>2 DEF GuardMoves
<1>2. CASE handleActive
  BY <1>2 DEF handleActive, SteadyFailure
<1>3. CASE handleFailed
  BY <1>3 DEF handleFailed, resolveRecoveredSteadyState
<1> QED BY <1>1, <1>2, <1>3
        DEF ReconcileInstance, handlePending, handleInitializing, handleProtected,
            handleFailingOver, handleFailingBack

\* The watchdogs and the other handlers of the instance.
LEMMA UndoInstance ==
  ASSUME IInv, Base, SwitchInv, UndoInv, ReconcileInstance
  PROVE  UndoInv'
<1>1. TypeOK /\ ConfigErrorRemembers /\ FailingBackAsked
  BY DEF IInv, Base
<1>2. ops' = ops /\ WorkStays
  BY <1>1, InstanceHandlers DEF WorkStays
<1>3. SUFFICES ASSUME SingleUndo PROVE UndoState'
  BY <1>2 DEF UndoInv, SingleUndo
<1>4. UndoState /\ LoneFailover
  BY <1>1, <1>3, SingleIsOne DEF UndoInv
<1>5. Annotated' /\ \A q \in Op : UndoAfter(q)'
  BY <1>2, <1>4 DEF UndoState, Annotated, WorkStays, UndoAfter, IsUndo, IsFailover, Started, InFlight
<1>6. inst.fsm = "FailingOver" => \A q \in Op : IsFailover(q) => ~InFlight(q)
  BY <1>1, HandlersMove DEF IsFailover
<1>7. ASSUME NEW q \in Op PROVE AtEnd(q)'
  <2> SUFFICES ASSUME Underway(q), ops[q].step = 8 PROVE Settled'
    BY <1>2 DEF AtEnd, Underway, IsFailover, InFlight
  <2>1. Settled
    BY <1>4, <1>6 DEF UndoState, AtEnd, Underway
  <2> QED BY <1>1, <2>1, SettledStays
<1>8. ASSUME NEW q \in Op, IsFailover(q), ops[q].state = "Completed" PROVE SwitchedWhole(q)'
  <2>1. SwitchedWhole(q) /\ inst.fsm # "FailingOver"
    BY <1>4, <1>8 DEF UndoState, SwitchInv
  <2>2. inst.fsm \notin {"Pending", "FailingBack"}
    BY <1>1, <1>3, <2>1 DEF SwitchedWhole, Past, FailingBackAsked, Submitted, SingleUndo
  <2>3. RolesStay /\ Past'
    BY <1>1, <2>1, <2>2, HandlersMove DEF RolesStay, SwitchedWhole
  <2> QED BY <1>2, <2>1, <2>3
          DEF SwitchedWhole, UndoToCome, Swapped, NoZero, IsUndo, InFlight, UndoAlong, RolesHome,
              WorkStays, RolesStay
<1> QED BY <1>2, <1>5, <1>7, <1>8 DEF UndoState, IsFailover

\* As long as the undo is to come no sync records the source.
LEMMA UndoSync ==
  ASSUME UndoInv, ManualSync = FALSE, StartResourceSync
  PROVE  UndoInv'
<1>1. /\ UNCHANGED <<up, annot, inst, paused, ops>>
      /\ "resource" \notin paused \/ AtFinalSync
  BY DEF StartResourceSync, instanceVars
<1>2. SUFFICES ASSUME SingleUndo PROVE UndoState'
  BY <1>1 DEF UndoInv, SingleUndo
<1>3. UndoState
  BY <1>2 DEF UndoInv
<1>4. ASSUME NEW q \in Op, IsFailover(q), ops[q].state = "Completed" PROVE SwitchedWhole(q)'
  <2>1. SwitchedWhole(q)
    BY <1>3, <1>4 DEF UndoState
  <2>2. ~AtFinalSync
    BY <1>2, <1>4, SingleIsOne DEF AtFinalSync, IsFailover
  <2>3. ~UndoToCome
    BY <1>1, <2>1, <2>2 DEF SwitchedWhole
  <2> QED BY <1>1, <2>1, <2>3
          DEF SwitchedWhole, UndoToCome, Past, IsUndo, InFlight, UndoAlong, RolesHome
<1>5. Annotated' /\ \A q \in Op : UndoAfter(q)' /\ AtEnd(q)'
  BY <1>1, <1>3 DEF UndoState, Annotated, UndoAfter, AtEnd, Settled, Swapped, Underway, IsUndo,
                    IsFailover, Started, InFlight
<1> QED BY <1>1, <1>4, <1>5 DEF UndoState, IsFailover

LEMMA UndoUser ==
  ASSUME IInv, Base, UndoInv, UserStep
  PROVE  UndoInv'
<1>1. TypeOK /\ Fresh /\ TypesKept
  BY UserKeepsTypes DEF IInv, Base
<1>2. SUFFICES ASSUME SingleUndo' PROVE UndoState'
  BY DEF UndoInv
<1>3. UndoState
  BY <1>1, <1>2, DisciplineKept DEF UndoInv
<1>4. inst' = inst /\ WorkStays
  BY <1>1, UserWrites DEF WorkStays
<1>5. \A q \in Op : (IsFailover(q) => IsFailover(q)') /\ (IsUndo(q) => IsUndo(q)')
  BY <1>1 DEF TypesKept, IsFailover, IsUndo
<1>6. \A q \in Op : ops'[q] = ops[q] \/ Blank(q)
  BY <1>1, UserLeavesBlank DEF Blank
<1> QED BY <1>1, <1>3, <1>4, <1>5, <1>6, UndoStateStays

LEMMA InitUndoInv ==
  ASSUME "target" \notin Starts, Init
  PROVE  UndoInv
<1>1. PICK start \in {"fresh", "source"} : StartedFrom(start)
  BY SystemAssumption DEF Init, StartKinds
<1>2. \A o \in Op : ops[o] = NoOperation
  BY DEF Init
<1>3. \A o \in Op : ~IsFailover(o) /\ ~IsUndo(o)
  BY <1>2 DEF IsFailover, IsUndo, NoOperation
<1>4. up[Source] = Workload
  BY <1>1, ClusterAssumption DEF StartedFrom, Cluster
<1> QED BY <1>3, <1>4 DEF UndoInv, UndoState, Annotated, UndoAfter, AtEnd, Underway

LEMMA NextUndoInv ==
  ASSUME IInv, Base, SwitchInv, UndoInv, ManualSync = FALSE, [Next]_vars
  PROVE  UndoInv'
<1>1. CASE DependencyChanges \/ UNCHANGED vars
  <2>1. UNCHANGED <<up, annot, cm, inst, paused, ops>>
    BY <1>1 DEF DependencyChanges, ConfigHealthChanges, SyncHealthChanges, workloadVars, vars
  <2>2. UndoState => UndoState'
    BY <2>1 DEF UndoState, Annotated, UndoAfter, AtEnd, Settled, SwitchedWhole, UndoToCome, UndoAlong,
                Past, Swapped, RolesHome, NoZero, Underway, IsUndo, IsFailover, Started, InFlight
  <2> QED BY <2>1, <2>2 DEF UndoInv, SingleUndo
<1> QED BY <1>1, UndoReconcile, UndoInstance, UndoSync, UndoUser DEF Next

(***************************************************************************)
(* An undo of a switch, when it completes, restores.                       *)
(***************************************************************************)
LEMMA UndoEndsWhole ==
  ASSUME IInv, Base, UndoInv, SingleUndo, NEW o \in Op, IsUndo(o), ~ops[o].skipDown, Completes(o),
         ReconcileOperation(o), \A q \in Op : IsFailover(q) => ops[q].state = "Completed"
  PROVE  PrimaryServes' /\ paused' = {}
<1>1. TypeOK /\ Compensating /\ UndoState /\ InFlight(o)
  BY InFlightReconciled DEF IInv, Base, UndoInv
<1>2. UndoEnds(o)
  BY <1>1, UndoShapes DEF Completes, UndoWaits, UndoGoes, UndoFails, InFlight, isInFlightOperationState
<1>3. PICK q \in Op : IsFailover(q)
  BY <1>1, <1>2 DEF UndoState, UndoAfter, UndoEnds, Started
<1>4. UndoAlong(o)
  BY <1>1, <1>3 DEF UndoState, SwitchedWhole
<1>5. up[Source] = Workload /\ up[Target] = {} /\ RolesHome /\ paused = {}
  BY <1>2, <1>4 DEF UndoAlong, UndoEnds
<1> QED BY <1>2, <1>5, InstanceAssumption
        DEF UndoEnds, WorkStays, RolesStay, RolesHome, PrimaryServes, rolesKnown, Cluster

UndoRestoresWhole ==
  \A o \in Op :
    /\ ops[o].type = "undo" /\ Completes(o) /\ ~ops[o].skipDown /\ SingleUndo
    /\ \A q \in Op : ops[q].type = "failover" => ops[q].state = "Completed"
    => PrimaryServes' /\ paused' = {}

LEMMA NextUndoRestores ==
  ASSUME IInv, Base, UndoInv, [Next]_vars
  PROVE  UndoRestoresWhole
<1> SUFFICES ASSUME NEW o \in Op, IsUndo(o), ~ops[o].skipDown, Completes(o), SingleUndo,
                    \A q \in Op : IsFailover(q) => ops[q].state = "Completed"
             PROVE  PrimaryServes' /\ paused' = {}
  BY DEF UndoRestoresWhole, IsUndo, IsFailover
<1>1. TypeOK
  BY DEF IInv
<1>2. CASE \E q \in Op : ReconcileOperation(q)
  <2>1. PICK q \in Op : ReconcileOperation(q)
    BY <1>2
  <2>2. q = o
    BY <1>1, <2>1, OthersProgress DEF Overtaken, Completes
  <2> QED BY <2>1, <2>2, UndoEndsWhole
<1>3. CASE ops' = ops
  BY <1>3 DEF Completes
<1>4. CASE UserStep
  <2>1. ops'[o] # ops[o]
    BY DEF Completes
  <2> QED BY <1>1, <1>4, <2>1, UserLeavesBlank DEF Completes
<1>5. ReconcileInstance \/ StartResourceSync \/ DependencyChanges \/ UNCHANGED vars => ops' = ops
  BY DEF ReconcileInstance, StartResourceSync, DependencyChanges, vars
<1> QED BY <1>2, <1>3, <1>4, <1>5 DEF Next

\* The undo of a switch, when it completes, has brought the application back in
\* full: for any workloads, faults and interleavings, of an instance that starts
\* with its application in the source and whose users trigger no ResourceSync by
\* hand.
THEOREM UndoBringsAllBack ==
  ASSUME ManualSync = FALSE, "target" \notin Starts
  PROVE  Spec => UndoOfSwitchRestores
<1>1. Spec => []IInv
  BY Invariance
<1>2. Init => DInv /\ SwitchInv /\ UndoInv
  BY InitDInv, InitSwitchInv, InitUndoInv
<1>3. IInv /\ DInv /\ SwitchInv /\ UndoInv /\ [Next]_vars => DInv' /\ SwitchInv' /\ UndoInv'
  BY NextDInv, NextSwitchInv, NextUndoInv DEF DInv
<1>4. IInv /\ DInv /\ SwitchInv /\ UndoInv /\ [Next]_vars => [UndoRestoresWhole]_vars
  BY NextUndoRestores DEF DInv
<1> QED BY <1>1, <1>2, <1>3, <1>4, PTL DEF Spec, UndoOfSwitchRestores, UndoRestoresWhole
=============================================================================
