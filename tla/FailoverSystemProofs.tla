------------------------ MODULE FailoverSystemProofs ------------------------
(***************************************************************************)
(* Theorems about FailoverSystem.                                          *)
(***************************************************************************)
EXTENDS FailoverSystem, TLAPS

\* A rank of time is a natural number.
LEMMA NowType == Now \in Nat
<1> DEFINE later == {n \in 1 .. MaxTime : \A o \in Op : ops[o].at < n}
<1>1. CASE later = {}
  BY <1>1, OperationAssumption DEF Now
<1>2. CASE later # {}
  <2>1. (CHOOSE n \in later : TRUE) \in later
    BY <1>2
  <2> QED BY <2>1, <1>2, OperationAssumption DEF Now
<1> QED BY <1>1, <1>2

\* An operation that was never submitted has the type of an operation status.
LEMMA NoOperationType == NoOperation \in Operation
BY DEF NoOperation, NoRole, Operation

\* Stamping an operation changes its progress time only.
LEMMA StampType ==
  ASSUME NEW op \in Operation
  PROVE  /\ Stamp(op) \in Operation
         /\ Stamp(op) = [op EXCEPT !.at = Stamp(op).at]
BY NowType DEF Stamp, Operation

\* supersedeInFlightOperations writes operation statuses, and nothing else.
LEMMA SupersededType ==
  ASSUME OperationTypeOK, NEW o \in Op
  PROVE  Superseded(o) \in [Op -> Operation]
<1> SUFFICES ASSUME NEW q \in Op
             PROVE  [Stamp(ops[q]) EXCEPT !.state = "Failed",
                       !.stepState = IF @ = "Running" THEN "Failed" ELSE @] \in Operation
  BY DEF Superseded, OperationTypeOK
<1>1. Stamp(ops[q]) \in Operation
  BY StampType DEF OperationTypeOK
<1> QED BY <1>1 DEF Operation

(***************************************************************************)
(* What one reconciliation of an operation may write.                      *)
(***************************************************************************)

\* The status op that a reconciliation of o may leave in o itself: another
\* type never, steps of a failover only past the conflict check, and roles
\* only as the instance has them before or after the reconciliation.
OwnWrite(o, op) ==
  /\ op \in Operation
  /\ op.type = ops[o].type
  /\ op.type = "failover" /\ op.step > 0 => ops[o].step > 0 \/ ~Conflict(o)
  /\ op.role \in {ops[o].role, RoleStatus(inst), RoleStatus(inst')}

\* What a reconciliation of o may do to all the operations.
OperationsWrite(o) ==
  /\ InFlight(o)
  /\ \E base \in {ops, Superseded(o)} :
       \/ ops' = base
       \/ \E op \in Operation : OwnWrite(o, op) /\ ops' = [base EXCEPT ![o] = op]

\* What an operation may do to the instance: roles kept, exchanged or set to
\* those of the DisasterConfig, and never into ConfigError.
InstanceWrite ==
  /\ inst' \in InstanceStatus
  /\ inst'.lastStable = inst.lastStable
  /\ inst'.fsm = "ConfigError" => inst.fsm = "ConfigError"
  /\ \/ inst'.primary = inst.primary /\ inst'.secondary = inst.secondary
     \/ inst'.primary = inst.secondary /\ inst'.secondary = inst.primary
     \/ inst'.primary = Source /\ inst'.secondary = Target

\* WriteOperation, with or without the superseding of other operations, is a
\* write of operations.
LEMMA WriteIsOperationsWrite ==
  ASSUME TypeOK, NEW o \in Op, InFlight(o), NEW op \in Operation, OwnWrite(o, op),
         WriteOperation(o, op)
  PROVE  OperationsWrite(o)
BY DEF WriteOperation, OperationsWrite

\* Entering an operation's intermediate state keeps the roles and the state
\* remembered by the configuration guard.
LEMMA EnteredInstance ==
  ASSUME TypeOK, NEW type
  PROVE  /\ Entered(type) \in InstanceStatus
         /\ Entered(type).primary = inst.primary
         /\ Entered(type).secondary = inst.secondary
         /\ Entered(type).lastStable = inst.lastStable
         /\ Entered(type).fsm = "ConfigError" => inst.fsm = "ConfigError"
BY DEF TypeOK, InstanceTypeOK, InstanceStatus, Entered, To, FsmState, Reason

\* A failed step settles the instance or leaves it, with its roles.
LEMMA SettledInstance ==
  ASSUME NEW i \in InstanceStatus, NEW type, NEW name, Settle(type, name, i)
  PROVE  /\ inst' \in InstanceStatus
         /\ inst'.primary = i.primary /\ inst'.secondary = i.secondary
         /\ inst'.lastStable = i.lastStable
         /\ inst'.fsm = "ConfigError" => i.fsm = "ConfigError"
<1>1. inst' \in {i, To(i, "Protected"), ToFailed(i, "StepFailed")}
  BY DEF Settle, settleInstanceStateOnStepFailure
<1> QED BY <1>1 DEF To, ToFailed, InstanceStatus, FsmState, Reason

\* Steps touch the workloads and the paused syncs within their types.
LEMMA StepTypes ==
  ASSUME TypeOK, NEW op \in Operation, NEW name, NEW complete \in BOOLEAN,
         ExecuteStep(op, name, complete)
  PROVE  WorkloadsTypeOK' /\ paused' \subseteq Syncs
<1> USE ClusterAssumption, InstanceAssumption
<1>1. PrimaryCluster \in Cluster /\ SecondaryCluster \in Cluster
  BY DEF TypeOK, InstanceTypeOK, InstanceStatus, PrimaryCluster, SecondaryCluster, Cluster
<1>2. ASSUME NEW c \in Cluster, NEW recorded, executeScaleDownSource(c, complete, recorded)
      PROVE  WorkloadsTypeOK'
  <2>1. recordReplicasBeforeScaleDown(c) \in [Workload -> Recorded]
    BY DEF recordReplicasBeforeScaleDown, Recorded, TypeOK, WorkloadsTypeOK
  <2>2. PICK done \in Scaled(up[c], complete) :
          /\ cm' = IF recorded THEN recordReplicasBeforeScaleDown(c) ELSE cm
          /\ up' = [up EXCEPT ![c] = @ \ done]
          /\ annot' = [annot EXCEPT ![c] = @ \cup done]
    BY <1>2 DEF executeScaleDownSource
  <2>3. done \subseteq Workload
    BY DEF Scaled, TypeOK, WorkloadsTypeOK
  <2> QED BY <2>1, <2>2, <2>3 DEF TypeOK, WorkloadsTypeOK
<1>3. ASSUME NEW c \in Cluster, doScaleDown(c, complete)
      PROVE  WorkloadsTypeOK'
  BY <1>3 DEF doScaleDown, Scaled, TypeOK, WorkloadsTypeOK
<1>4. ASSUME NEW c \in Cluster, doScaleUp(c, complete)
      PROVE  WorkloadsTypeOK'
  <2>1. PICK done \in Scaled(Restorable(c), complete) :
          /\ up' = [up EXCEPT ![c] = @ \cup done]
          /\ UNCHANGED <<annot, cm>>
    BY <1>4 DEF doScaleUp
  <2>2. done \subseteq Workload
    BY DEF Scaled, Restorable
  <2> QED BY <2>1, <2>2 DEF TypeOK, WorkloadsTypeOK
<1>5. ASSUME UNCHANGED workloadVars PROVE WorkloadsTypeOK'
  BY <1>5 DEF workloadVars, TypeOK, WorkloadsTypeOK
<1>6. ASSUME ScaleDownPrimary(op, complete) PROVE WorkloadsTypeOK'
  BY <1>1, <1>2, <1>5, <1>6 DEF ScaleDownPrimary
<1>7. ASSUME executePauseSchedules(complete) PROVE paused' \subseteq Syncs
  BY <1>7 DEF executePauseSchedules, TypeOK, InstanceTypeOK, Syncs
<1>8. ASSUME executeResumeSchedules(complete) PROVE paused' \subseteq Syncs
  BY <1>8 DEF executeResumeSchedules, TypeOK, InstanceTypeOK
<1>9. ASSUME UNCHANGED paused PROVE paused' \subseteq Syncs
  BY <1>9 DEF TypeOK, InstanceTypeOK
<1>10. CASE executeFailoverStep(op, name, complete)
  BY <1>10, <1>1, <1>4, <1>5, <1>6, <1>7, <1>9 DEF executeFailoverStep
<1>11. CASE executeCancelStep(name, complete)
  BY <1>11, <1>3, <1>4, <1>5, <1>8, <1>9 DEF executeCancelStep, Cluster
<1>12. CASE executeUndoStep(op, name, complete)
  BY <1>12, <1>1, <1>4, <1>5, <1>6, <1>8, <1>9 DEF executeUndoStep
<1> QED BY <1>10, <1>11, <1>12 DEF ExecuteStep

\* A cancel has three steps, and no operation has more than seven.
LEMMA CancelStepCount == Len(CancelSteps) = 3
BY DEF CancelSteps

\* The length of the step list of every stepped operation.
LEMMA StepCounts ==
  ASSUME NEW type
  PROVE  Len(StepsOf(type)) \in 0 .. 7
BY DEF StepsOf, FailoverSteps, CancelSteps, UndoSteps, ReprotectSteps

\* Every reconciliation of an operation stays within these writes.
LEMMA ReconcileWrites ==
  ASSUME TypeOK, NEW o \in Op, ReconcileOperation(o)
  PROVE  /\ WorkloadsTypeOK' /\ paused' \subseteq Syncs
         /\ UNCHANGED <<configReady, syncFailed>>
         /\ InstanceWrite
         /\ OperationsWrite(o)
<1> DEFINE s == Stamp(ops[o])
<1>t. ops[o] \in Operation
  BY DEF TypeOK, OperationTypeOK
<1>s. s \in Operation /\ s = [ops[o] EXCEPT !.at = s.at]
  BY <1>t, StampType
<1>f. /\ s.type = ops[o].type /\ s.step = ops[o].step /\ s.role = ops[o].role
  BY <1>t, <1>s DEF Operation
<1> HIDE DEF s
<1>e. ops[o].state \in {"Pending", "Running"} => InFlight(o)
  BY DEF InFlight, isInFlightOperationState
<1>w. UNCHANGED workloadVars => WorkloadsTypeOK'
  BY DEF workloadVars, TypeOK, WorkloadsTypeOK
<1>p. UNCHANGED paused => paused' \subseteq Syncs
  BY DEF TypeOK, InstanceTypeOK
<1>i. UNCHANGED inst => InstanceWrite
  BY DEF InstanceWrite, TypeOK, InstanceTypeOK
<1>n. ASSUME NEW type, inst' = Entered(type) PROVE InstanceWrite
  BY <1>n, EnteredInstance DEF InstanceWrite
<1>r. RoleStatus(inst) \in [primary : Cluster \cup {NoCluster}, secondary : Cluster \cup {NoCluster}]
  BY DEF RoleStatus, TypeOK, InstanceTypeOK, InstanceStatus
<1>1. CASE Start(o)
  <2> DEFINE op == [s EXCEPT !.state = "Running"]
  <2>1. op \in Operation /\ op.type = ops[o].type /\ op.step = ops[o].step /\ op.role = ops[o].role
    BY <1>s, <1>f DEF Operation
  <2>2. OwnWrite(o, op)
    BY <2>1 DEF OwnWrite
  <2>3. ops' = [ops EXCEPT ![o] = op]
    BY <1>1 DEF Start, s
  <2>4. OperationsWrite(o)
    BY <1>1, <1>e, <2>1, <2>2, <2>3 DEF OperationsWrite, Start
  <2> QED BY <1>1, <2>4, <1>w, <1>p, <1>i DEF Start, instanceVars
<1>2. CASE Reject(o)
  <2> DEFINE op == [IF ops[o].type = "reprotect" THEN ops[o] ELSE s EXCEPT !.state = "Failed"]
  <2>1. op \in Operation /\ op.type = ops[o].type /\ op.step = ops[o].step /\ op.role = ops[o].role
    BY <1>t, <1>s, <1>f DEF Operation
  <2>2. OwnWrite(o, op)
    BY <2>1 DEF OwnWrite
  <2>3. WriteOperation(o, op)
    BY <1>2 DEF Reject, s
  <2>4. OperationsWrite(o)
    BY <1>2, <1>e, <2>1, <2>2, <2>3, WriteIsOperationsWrite DEF Reject
  <2> QED BY <1>2, <2>4, <1>w, <1>p, <1>i DEF Reject, instanceVars
<1>3. CASE LockRoles(o)
  <2> DEFINE op == [ops[o] EXCEPT !.annotated = (inst.secondary # NoCluster)]
  <2>1. op \in Operation /\ op.type = ops[o].type /\ op.step = ops[o].step /\ op.role = ops[o].role
    BY <1>t DEF Operation
  <2>2. OwnWrite(o, op)
    BY <2>1 DEF OwnWrite
  <2>3. OperationsWrite(o)
    BY <1>3, <1>e, <2>1, <2>2, WriteIsOperationsWrite DEF LockRoles, Admitted
  <2> QED BY <1>3, <2>3, <1>w, <1>p, <1>n DEF LockRoles
<1>4. CASE InitSteps(o)
  <2> DEFINE op == [ops[o] EXCEPT !.step = 1]
  <2>1. op \in Operation /\ op.type = ops[o].type /\ op.role = ops[o].role
    BY <1>t DEF Operation
  <2>2. OwnWrite(o, op)
    BY <1>4, <2>1 DEF OwnWrite, InitSteps, Admitted
  <2>3. OperationsWrite(o)
    BY <1>4, <1>e, <2>1, <2>2, WriteIsOperationsWrite DEF InitSteps, Admitted
  <2> QED BY <1>4, <2>3, <1>w, <1>p, <1>n DEF InitSteps
<1>5. CASE StartStep(o)
  <2> DEFINE op == [ops[o] EXCEPT !.stepState = "Running"]
  <2>1. op \in Operation /\ op.type = ops[o].type /\ op.step = ops[o].step /\ op.role = ops[o].role
    BY <1>t DEF Operation
  <2>2. OwnWrite(o, op)
    BY <2>1 DEF OwnWrite
  <2>3. OperationsWrite(o)
    BY <1>5, <1>e, <2>1, <2>2, WriteIsOperationsWrite DEF StartStep, AtStep, Admitted
  <2> QED BY <1>5, <2>3, <1>w, <1>p, <1>n DEF StartStep
<1>6. CASE StepDone(o)
  <2> DEFINE n == ops[o].step + 1
             op == [ops[o] EXCEPT !.step = n, !.stepState = "Pending"]
             i == Entered(ops[o].type)
  <2>a. AtStep(o, "Running")
    BY <1>6 DEF StepDone
  <2>b. InFlight(o)
    BY <2>a, <1>e DEF AtStep, Admitted
  <2>c. ops[o].step \in 1 .. Len(StepsOf(ops[o].type))
    BY <2>a DEF AtStep
  <2>0. ops[o].step > 0 /\ n \in 0 .. 8
    <3> DEFINE k == ops[o].step
               m == Len(StepsOf(ops[o].type))
    <3>1. m \in 0 .. 7
      BY StepCounts
    <3>2. k \in 1 .. m /\ n = k + 1
      BY <2>c
    <3> HIDE DEF k, m, n
    <3>3. k > 0 /\ n \in 0 .. 8
      BY <3>1, <3>2
    <3> QED BY <3>3 DEF k
  <2> HIDE DEF n
  <2>1. op \in Operation /\ op.type = ops[o].type /\ op.role = ops[o].role
    BY <1>t, <2>0 DEF Operation
  <2>2. OwnWrite(o, op)
    BY <2>0, <2>1 DEF OwnWrite
  <2>3. OperationsWrite(o)
    BY <1>6, <2>b, <2>1, <2>2, WriteIsOperationsWrite DEF StepDone, n
  <2>4. WorkloadsTypeOK' /\ paused' \subseteq Syncs
    BY <1>6, <1>t, StepTypes DEF StepDone
  <2>5. inst' \in {i, [i EXCEPT !.primary = Source, !.secondary = Target]}
    BY <1>6 DEF StepDone, SwitchedBack
  <2>6. InstanceWrite
    <3> HIDE DEF i
    <3>1. i \in InstanceStatus /\ i.primary = inst.primary /\ i.secondary = inst.secondary
          /\ i.lastStable = inst.lastStable /\ (i.fsm = "ConfigError" => inst.fsm = "ConfigError")
      BY EnteredInstance DEF i
    <3> QED BY <2>5, <3>1 DEF InstanceWrite, InstanceStatus, Cluster
  <2> QED BY <1>6, <2>3, <2>4, <2>6 DEF StepDone
<1>7. CASE StepWaits(o)
  <2>1. InFlight(o)
    BY <1>7, <1>e DEF StepWaits, AtStep, Admitted
  <2>2. ExecuteStep(ops[o], "ScaleUpSource", TRUE)
    BY <1>7 DEF StepWaits, ExecuteStep
  <2>3. WorkloadsTypeOK' /\ paused' \subseteq Syncs
    BY <2>2, <1>t, StepTypes
  <2> QED BY <1>7, <2>1, <2>3, <1>i DEF StepWaits, OperationsWrite, instanceVars
<1>8. CASE FailFailoverStep(o)
  <2> DEFINE i == Entered("failover")
             d == FailedAtStep(ops[o])
             name == CurrentName(o)
  <2>1. InFlight(o)
    BY <1>8, <1>e DEF FailFailoverStep, AtStep, Admitted
  <2>2. /\ i \in InstanceStatus /\ i.primary = inst.primary /\ i.secondary = inst.secondary
        /\ i.lastStable = inst.lastStable /\ (i.fsm = "ConfigError" => inst.fsm = "ConfigError")
    BY EnteredInstance
  <2>3. WorkloadsTypeOK' /\ paused' \subseteq Syncs
    BY <1>8, <1>t, <1>w, <1>p, StepTypes DEF FailFailoverStep, StepFails
  <2>4. RoleStatus(i) = RoleStatus(inst)
    BY <2>2 DEF RoleStatus
  <2>5. d \in Operation /\ d.type = ops[o].type /\ d.step = ops[o].step /\ d.role = ops[o].role
    BY <1>s, <1>f DEF FailedAtStep, Operation, s
  <2>6. ASSUME Settle("failover", name, i) PROVE InstanceWrite
    <3> HIDE DEF i, name
    <3> QED BY <2>2, <2>6, SettledInstance DEF InstanceWrite
  <2>7. CASE /\ Settle("failover", name, i)
             /\ WriteOperation(o, [d EXCEPT !.ac = "Succeeded", !.role = RoleStatus(i)])
    <3> DEFINE op == [d EXCEPT !.ac = "Succeeded", !.role = RoleStatus(inst)]
    <3>1. op \in Operation /\ op.type = ops[o].type /\ op.step = ops[o].step /\ op.role = RoleStatus(inst)
      <4> HIDE DEF d
      <4> QED BY <2>5, <1>r DEF Operation
    <3>2. OwnWrite(o, op)
      BY <3>1 DEF OwnWrite
    <3>3. OperationsWrite(o)
      BY <2>1, <2>4, <2>7, <3>1, <3>2, WriteIsOperationsWrite
    <3> QED BY <1>8, <2>3, <2>6, <2>7, <3>3 DEF FailFailoverStep
  <2>8. CASE /\ inst' = i
             /\ WriteOperation(o, [ops[o] EXCEPT !.stepState = "Failed", !.ac = "Running",
                                     !.acStep = 1, !.acState = "Pending", !.manual = FALSE])
    <3> DEFINE op == [ops[o] EXCEPT !.stepState = "Failed", !.ac = "Running",
                        !.acStep = 1, !.acState = "Pending", !.manual = FALSE]
               x == [ops[o] EXCEPT !.stepState = "Failed", !.ac = "Running"]
               y == [x EXCEPT !.acStep = 1]
    <3>a. x \in Operation /\ x.type = ops[o].type /\ x.step = ops[o].step /\ x.role = ops[o].role
      BY <1>t DEF Operation
    <3>b. y \in Operation /\ y.type = x.type /\ y.step = x.step /\ y.role = x.role
      <4> HIDE DEF x
      <4> QED BY <3>a DEF Operation
    <3>c. op = [y EXCEPT !.acState = "Pending", !.manual = FALSE]
      OBVIOUS
    <3>1. op \in Operation /\ op.type = ops[o].type /\ op.step = ops[o].step /\ op.role = ops[o].role
      <4> HIDE DEF x, y, op
      <4> QED BY <3>a, <3>b, <3>c DEF Operation
    <3>2. OwnWrite(o, op)
      BY <3>1 DEF OwnWrite
    <3>3. OperationsWrite(o)
      BY <2>1, <2>8, <3>1, <3>2, WriteIsOperationsWrite
    <3> QED BY <1>8, <2>3, <2>8, <3>3, <1>n DEF FailFailoverStep
  <2>9. CASE /\ Settle("failover", name, i)
             /\ WriteOperation(o, [d EXCEPT !.ac = "NotTriggered", !.manual = TRUE])
    <3> DEFINE op == [d EXCEPT !.ac = "NotTriggered", !.manual = TRUE]
    <3>1. op \in Operation /\ op.type = ops[o].type /\ op.step = ops[o].step /\ op.role = ops[o].role
      <4> HIDE DEF d
      <4> QED BY <2>5 DEF Operation
    <3>2. OwnWrite(o, op)
      BY <3>1 DEF OwnWrite
    <3>3. OperationsWrite(o)
      BY <2>1, <2>9, <3>1, <3>2, WriteIsOperationsWrite
    <3> QED BY <1>8, <2>3, <2>6, <2>9, <3>3 DEF FailFailoverStep
  <2> QED BY <1>8, <2>7, <2>8, <2>9 DEF FailFailoverStep
<1>9. CASE FailStep(o)
  <2> DEFINE i == Entered(ops[o].type)
             op == FailedAtStep(ops[o])
             name == CurrentName(o)
  <2>1. InFlight(o)
    BY <1>9, <1>e DEF FailStep, AtStep, Admitted
  <2>2. WorkloadsTypeOK' /\ paused' \subseteq Syncs
    BY <1>9, <1>t, <1>w, <1>p, StepTypes DEF FailStep, StepFails
  <2>3. op \in Operation /\ op.type = ops[o].type /\ op.step = ops[o].step /\ op.role = ops[o].role
    BY <1>s, <1>f DEF FailedAtStep, Operation, s
  <2>4. OwnWrite(o, op)
    BY <2>3 DEF OwnWrite
  <2>5. OperationsWrite(o)
    BY <1>9, <2>1, <2>3, <2>4, WriteIsOperationsWrite DEF FailStep
  <2>6. InstanceWrite
    <3>1. /\ i \in InstanceStatus /\ i.primary = inst.primary /\ i.secondary = inst.secondary
          /\ i.lastStable = inst.lastStable /\ (i.fsm = "ConfigError" => inst.fsm = "ConfigError")
      BY EnteredInstance
    <3>2. Settle(ops[o].type, name, i)
      BY <1>9 DEF FailStep
    <3> HIDE DEF i, name
    <3> QED BY <3>1, <3>2, SettledInstance DEF InstanceWrite
  <2> QED BY <1>9, <2>2, <2>5, <2>6 DEF FailStep
<1>10. CASE StartAutoCancelStep(o)
  <2> DEFINE op == [ops[o] EXCEPT !.acState = "Running"]
  <2>1. op \in Operation /\ op.type = ops[o].type /\ op.step = ops[o].step /\ op.role = ops[o].role
    BY <1>t DEF Operation
  <2>2. OwnWrite(o, op)
    BY <2>1 DEF OwnWrite
  <2>3. OperationsWrite(o)
    BY <1>10, <1>e, <2>1, <2>2, WriteIsOperationsWrite
       DEF StartAutoCancelStep, AtAutoCancelStep, Admitted
  <2> QED BY <1>10, <2>3, <1>w, <1>p, <1>n DEF StartAutoCancelStep
<1>c. ASSUME NEW name, NEW complete \in BOOLEAN, executeCancelStep(name, complete)
      PROVE  WorkloadsTypeOK' /\ paused' \subseteq Syncs
  <2> DEFINE c == [NoOperation EXCEPT !.type = "cancel"]
  <2>1. c \in Operation /\ c.type = "cancel"
    BY NoOperationType DEF Operation, OpType
  <2> HIDE DEF c
  <2>2. ExecuteStep(c, name, complete)
    BY <1>c, <2>1 DEF ExecuteStep
  <2> QED BY <2>1, <2>2, StepTypes
<1>11. CASE AutoCancelStepDone(o)
  <2> DEFINE n == ops[o].acStep + 1
             op == [ops[o] EXCEPT !.acStep = n, !.acState = "Pending"]
  <2>a. AtAutoCancelStep(o, "Running")
    BY <1>11 DEF AutoCancelStepDone
  <2>b. InFlight(o)
    BY <2>a, <1>e DEF AtAutoCancelStep, Admitted
  <2>c. ops[o].acStep \in 1 .. Len(CancelSteps)
    BY <2>a DEF AtAutoCancelStep
  <2>0. n \in 0 .. 4
    <3> DEFINE k == ops[o].acStep
    <3>1. k \in 1 .. 3 /\ n = k + 1
      BY <2>c, CancelStepCount
    <3> HIDE DEF k, n
    <3> QED BY <3>1
  <2> HIDE DEF n
  <2>1. op \in Operation /\ op.type = ops[o].type /\ op.step = ops[o].step /\ op.role = ops[o].role
    BY <1>t, <2>0 DEF Operation
  <2>2. OwnWrite(o, op)
    BY <2>1 DEF OwnWrite
  <2>3. OperationsWrite(o)
    BY <1>11, <2>b, <2>1, <2>2, WriteIsOperationsWrite DEF AutoCancelStepDone, n
  <2> QED BY <1>11, <2>3, <1>c, <1>n DEF AutoCancelStepDone
<1>12. CASE AutoCancelStepWaits(o)
  <2>1. InFlight(o)
    BY <1>12, <1>e DEF AutoCancelStepWaits, AtAutoCancelStep, Admitted
  <2>2. OperationsWrite(o)
    BY <1>12, <2>1 DEF AutoCancelStepWaits, OperationsWrite
  <2> QED BY <1>12, <2>2, <1>c, <1>n DEF AutoCancelStepWaits
<1>13. CASE failFailoverAutoCancel(o)
  <2> DEFINE i == Entered("failover")
             name == CancelSteps[ops[o].acStep]
             x == [s EXCEPT !.state = "Failed", !.ac = "Failed"]
             op == [x EXCEPT !.acState = "Failed", !.manual = TRUE]
  <2>1. InFlight(o)
    BY <1>13, <1>e DEF failFailoverAutoCancel, AtAutoCancelStep, Admitted
  <2>2. x \in Operation /\ x.type = ops[o].type /\ x.step = ops[o].step /\ x.role = ops[o].role
    BY <1>s, <1>f DEF Operation
  <2>3. op \in Operation /\ op.type = ops[o].type /\ op.step = ops[o].step /\ op.role = ops[o].role
    <3> HIDE DEF x
    <3> QED BY <2>2 DEF Operation
  <2>4. OwnWrite(o, op)
    BY <2>3 DEF OwnWrite
  <2>5. OperationsWrite(o)
    BY <1>13, <2>1, <2>3, <2>4, WriteIsOperationsWrite DEF failFailoverAutoCancel, s
  <2>6. WorkloadsTypeOK' /\ paused' \subseteq Syncs
    BY <1>13, <1>c, <1>w, <1>p DEF failFailoverAutoCancel
  <2>7. InstanceWrite
    <3>1. /\ i \in InstanceStatus /\ i.primary = inst.primary /\ i.secondary = inst.secondary
          /\ i.lastStable = inst.lastStable /\ (i.fsm = "ConfigError" => inst.fsm = "ConfigError")
      BY EnteredInstance
    <3>2. Settle("cancel", name, i)
      BY <1>13 DEF failFailoverAutoCancel
    <3> HIDE DEF i, name
    <3> QED BY <3>1, <3>2, SettledInstance DEF InstanceWrite
  <2> QED BY <1>13, <2>5, <2>6, <2>7 DEF failFailoverAutoCancel
<1>14. CASE completeFailoverAutoCancel(o)
  <2> DEFINE x == [s EXCEPT !.state = "Failed", !.ac = "Succeeded"]
             op == [x EXCEPT !.manual = FALSE, !.role = RoleStatus(inst)]
  <2>1. InFlight(o)
    BY <1>14, <1>e DEF completeFailoverAutoCancel, Admitted
  <2>2. x \in Operation /\ x.type = ops[o].type /\ x.step = ops[o].step
    BY <1>s, <1>f DEF Operation
  <2>3. op \in Operation /\ op.type = ops[o].type /\ op.step = ops[o].step /\ op.role = RoleStatus(inst)
    <3> HIDE DEF x
    <3> QED BY <2>2, <1>r DEF Operation
  <2>4. OwnWrite(o, op)
    BY <2>3 DEF OwnWrite
  <2>5. OperationsWrite(o)
    BY <1>14, <2>1, <2>3, <2>4, WriteIsOperationsWrite DEF completeFailoverAutoCancel, s
  <2>6. InstanceWrite
    BY <1>14 DEF completeFailoverAutoCancel, InstanceWrite, To, TypeOK, InstanceTypeOK,
                 InstanceStatus, FsmState, Reason
  <2> QED BY <1>14, <2>5, <2>6, <1>w, <1>p DEF completeFailoverAutoCancel
<1>15. CASE Finish(o)
  <2> DEFINE r == RoleStatus(Finished(ops[o].type))
             op == [s EXCEPT !.state = "Completed", !.role = r]
  <2>1. InFlight(o)
    BY <1>15, <1>e DEF Finish, AllStepsDone, Admitted
  <2>2. inst' = Finished(ops[o].type)
    BY <1>15 DEF Finish
  <2>3. r = RoleStatus(inst')
    BY <2>2
  <2>4. InstanceWrite
    BY <2>2 DEF Finished, InstanceWrite, To, TypeOK, InstanceTypeOK,
                InstanceStatus, FsmState, Reason
  <2>5. r \in [primary : Cluster \cup {NoCluster}, secondary : Cluster \cup {NoCluster}]
    BY <2>3, <2>4 DEF RoleStatus, InstanceWrite, InstanceStatus
  <2>6. op \in Operation /\ op.type = ops[o].type /\ op.step = ops[o].step /\ op.role = r
    <3> HIDE DEF r
    <3> QED BY <1>s, <1>f, <2>5 DEF Operation
  <2>7. OwnWrite(o, op)
    BY <2>3, <2>6 DEF OwnWrite
  <2>8. OperationsWrite(o)
    BY <1>15, <2>1, <2>6, <2>7, WriteIsOperationsWrite DEF Finish, s
  <2>9. paused' \subseteq Syncs
    BY <1>15 DEF Finish, TypeOK, InstanceTypeOK
  <2> QED BY <1>15, <2>4, <2>8, <2>9, <1>w DEF Finish
<1>h. ASSUME NEW complete \in BOOLEAN, executeResumeSchedules(complete)
      PROVE  paused' \subseteq Syncs
  BY <1>h DEF executeResumeSchedules, TypeOK, InstanceTypeOK
<1>16. CASE FinishRetried(o)
  <2>1. InFlight(o)
    BY <1>16, <1>e DEF FinishRetried, AllStepsDone, Admitted
  <2>2. OperationsWrite(o)
    BY <1>16, <2>1 DEF FinishRetried, OperationsWrite
  <2>3. paused' \subseteq Syncs
    BY <1>16, <1>h DEF FinishRetried
  <2> QED BY <1>16, <2>2, <2>3, <1>w, <1>n DEF FinishRetried
<1>17. CASE CancelProtected(o)
  <2>1. InFlight(o)
    BY <1>17, <1>e DEF CancelProtected
  <2>2. paused' \subseteq Syncs
    BY <1>17, <1>h DEF CancelProtected
  <2> DEFINE x == [ops[o] EXCEPT !.state = "Completed", !.step = Len(CancelSteps) + 1]
             y == [x EXCEPT !.stepState = "Pending", !.role = RoleStatus(inst)]
             z == [ops[o] EXCEPT !.state = "Failed"]
  <2>3. x \in Operation /\ x.type = ops[o].type
    <3> DEFINE n == Len(CancelSteps) + 1
    <3>1. n = 4
      BY CancelStepCount
    <3>2. n \in 0 .. 8
      BY <3>1
    <3> HIDE DEF n
    <3>3. x = [ops[o] EXCEPT !.state = "Completed", !.step = n]
      BY DEF n
    <3> HIDE DEF x
    <3> QED BY <1>t, <3>2, <3>3 DEF Operation
  <2>4. y \in Operation /\ y.type = ops[o].type /\ y.role = RoleStatus(inst)
    <3> HIDE DEF x
    <3> QED BY <2>3, <1>r DEF Operation
  <2>5. z \in Operation /\ z.type = ops[o].type /\ z.step = ops[o].step /\ z.role = ops[o].role
    BY <1>t DEF Operation
  <2>6. ops[o].type = "cancel"
    BY <1>17 DEF CancelProtected
  <2>7. OwnWrite(o, y) /\ OwnWrite(o, z)
    <3> HIDE DEF y, z
    <3> QED BY <2>4, <2>5, <2>6 DEF OwnWrite
  <2>8. WriteOperation(o, y) \/ WriteOperation(o, z)
    BY <1>17 DEF CancelProtected
  <2>9. OperationsWrite(o)
    <3> HIDE DEF y, z
    <3> QED BY <2>1, <2>4, <2>5, <2>7, <2>8, WriteIsOperationsWrite
  <2> QED BY <1>17, <2>2, <2>9, <1>w, <1>i DEF CancelProtected
<1>18. CASE handlePause(o)
  <2> DEFINE op == [ops[o] EXCEPT !.state = "Completed"]
  <2>1. InFlight(o)
    BY <1>18, <1>e DEF handlePause
  <2>2. paused' \subseteq Syncs
    BY <1>18 DEF handlePause, TypeOK, InstanceTypeOK
  <2>3. op \in Operation /\ op.type = ops[o].type /\ op.step = ops[o].step /\ op.role = ops[o].role
    BY <1>t DEF Operation
  <2>4. OwnWrite(o, op)
    BY <2>3 DEF OwnWrite
  <2>5. ops' = ops \/ WriteOperation(o, op)
    BY <1>18 DEF handlePause
  <2>6. OperationsWrite(o)
    BY <2>1, <2>3, <2>4, <2>5, WriteIsOperationsWrite DEF OperationsWrite
  <2>7. inst' \in {inst, To(inst, "Paused")}
    BY <1>18 DEF handlePause
  <2>8. InstanceWrite
    BY <2>7 DEF InstanceWrite, To, TypeOK, InstanceTypeOK, InstanceStatus, FsmState, Reason
  <2> QED BY <1>18, <2>2, <2>6, <2>8, <1>w DEF handlePause
<1>19. CASE handleResume(o)
  <2> DEFINE op == [ops[o] EXCEPT !.state = "Completed"]
  <2>1. InFlight(o)
    BY <1>19, <1>e DEF handleResume
  <2>2. paused' \subseteq Syncs
    BY <1>19, <1>h DEF handleResume
  <2>3. op \in Operation /\ op.type = ops[o].type /\ op.step = ops[o].step /\ op.role = ops[o].role
    BY <1>t DEF Operation
  <2>4. OwnWrite(o, op)
    BY <2>3 DEF OwnWrite
  <2>5. ops' = ops \/ WriteOperation(o, op)
    BY <1>19 DEF handleResume
  <2>6. OperationsWrite(o)
    BY <2>1, <2>3, <2>4, <2>5, WriteIsOperationsWrite DEF OperationsWrite
  <2>7. inst' \in {inst, To(inst, "Protected")}
    BY <1>19 DEF handleResume
  <2>8. InstanceWrite
    BY <2>7 DEF InstanceWrite, To, TypeOK, InstanceTypeOK, InstanceStatus, FsmState, Reason
  <2> QED BY <1>19, <2>2, <2>6, <2>8, <1>w DEF handleResume
<1> QED
  BY <1>1, <1>2, <1>3, <1>4, <1>5, <1>6, <1>7, <1>8, <1>9, <1>10, <1>11, <1>12,
     <1>13, <1>14, <1>15, <1>16, <1>17, <1>18, <1>19 DEF ReconcileOperation

(***************************************************************************)
(* Type correctness.                                                       *)
(***************************************************************************)

\* The result of a watchdog or of another instance handler has its type; the
\* roles come from the instance, the DisasterConfig or a finished operation;
\* ConfigError is entered from a state that the guard remembers.
LEMMA InstanceHandlers ==
  ASSUME TypeOK, ConfigErrorRemembers, ReconcileInstance
  PROVE  /\ inst' \in InstanceStatus
         /\ UNCHANGED <<up, annot, cm, paused, configReady, syncFailed, ops>>
         /\ \/ inst'.primary = inst.primary /\ inst'.secondary = inst.secondary
            \/ inst'.primary = Source /\ inst'.secondary = Target
            \/ \E o \in Op : RoleStatus(inst') = ops[o].role
         /\ ConfigErrorRemembers'
<1> USE DEF TypeOK, InstanceTypeOK, InstanceStatus, FsmState, Reason, To, ToFailed
<1>1. UNCHANGED <<up, annot, cm, ops>>
  BY DEF ReconcileInstance, workloadVars
<1>2. CASE guardByConfigHealth
  <2>1. CASE /\ inst.fsm # "ConfigError" /\ isConfigGuardManagedState(inst.fsm)
             /\ inst' = [To(inst, "ConfigError") EXCEPT !.lastStable = inst.fsm]
    BY <1>1, <1>2, <2>1 DEF guardByConfigHealth, isConfigGuardManagedState, ConfigErrorRemembers
  <2>2. CASE /\ inst.fsm = "ConfigError"
             /\ inst' = [To(inst, inst.lastStable) EXCEPT !.lastStable = ""]
    BY <1>1, <1>2, <2>2 DEF guardByConfigHealth, ConfigErrorRemembers
  <2> QED BY <1>2, <2>1, <2>2 DEF guardByConfigHealth
<1>3. CASE handlePending
  BY <1>1, <1>3 DEF handlePending, ConfigErrorRemembers, Cluster
<1>4. CASE handleInitializing
  BY <1>1, <1>4 DEF handleInitializing, ConfigErrorRemembers
<1>5. CASE handleProtected \/ handleActive
  BY <1>1, <1>5 DEF handleProtected, handleActive, SteadyFailure, ConfigErrorRemembers
<1>6. CASE handleFailed
  BY <1>1, <1>6 DEF handleFailed, resolveRecoveredSteadyState, ConfigErrorRemembers
<1>7. ASSUME NEW type, NEW op \in LatestTerminal(type)
      PROVE  \E o \in Op : op = ops[o] /\ op \in Operation
  BY <1>7 DEF LatestTerminal, OperationTypeOK
<1>8. ASSUME NEW type, NEW op \in LatestTerminal(type), NEW st \in {"Protected", "Active"},
             inst' = WithRoles(To(inst, st), op.role)
      PROVE  /\ inst' \in InstanceStatus
             /\ \/ inst'.primary = inst.primary /\ inst'.secondary = inst.secondary
                \/ \E o \in Op : RoleStatus(inst') = ops[o].role
             /\ inst'.fsm # "ConfigError"
  <2>1. PICK o \in Op : op = ops[o] /\ op \in Operation
    BY <1>7, <1>8
  <2> DEFINE r == op.role
  <2>2. r \in [primary : Cluster \cup {NoCluster}, secondary : Cluster \cup {NoCluster}]
    BY <2>1 DEF Operation
  <2>3. r = [primary |-> r.primary, secondary |-> r.secondary]
    BY <2>2
  <2> HIDE DEF r
  <2>4. \/ inst' = To(inst, st)
        \/ inst' = [To(inst, st) EXCEPT !.primary = r.primary, !.secondary = r.secondary]
    BY <1>8 DEF WithRoles, r
  <2>5. CASE inst' = To(inst, st)
    BY <2>5
  <2>6. CASE inst' = [To(inst, st) EXCEPT !.primary = r.primary, !.secondary = r.secondary]
    <3>1. RoleStatus(inst') = r
      BY <2>2, <2>3, <2>6 DEF RoleStatus
    <3>2. inst' \in InstanceStatus /\ inst'.fsm # "ConfigError"
      BY <2>2, <2>6
    <3> QED BY <2>1, <3>1, <3>2 DEF r
  <2> QED BY <2>4, <2>5, <2>6
<1>9. CASE handleFailingOver(RunningOf("failover"), LatestTerminal("failover"))
  <2>1. \/ inst' \in {ToFailed(inst, "OperationMissing"), ToFailed(inst, "OperationFailed"),
                      To(inst, "Protected")}
        \/ \E op \in LatestTerminal("failover") :
             inst' \in {WithRoles(To(inst, "Protected"), op.role), WithRoles(To(inst, "Active"), op.role)}
    BY <1>9 DEF handleFailingOver
  <2>2. UNCHANGED <<paused, configReady, syncFailed>>
    BY <1>9 DEF handleFailingOver
  <2> QED BY <1>1, <1>8, <2>1, <2>2 DEF ConfigErrorRemembers
<1>10. CASE handleFailingBack(RunningOf("reprotect"), LatestTerminal("reprotect"))
  <2>1. \/ inst' \in {ToFailed(inst, "OperationMissing"), ToFailed(inst, "OperationFailed")}
        \/ \E op \in LatestTerminal("reprotect") : inst' = WithRoles(To(inst, "Protected"), op.role)
    BY <1>10 DEF handleFailingBack
  <2>2. UNCHANGED <<paused, configReady, syncFailed>>
    BY <1>10 DEF handleFailingBack
  <2> QED BY <1>1, <1>8, <2>1, <2>2 DEF ConfigErrorRemembers
<1> QED BY <1>2, <1>3, <1>4, <1>5, <1>6, <1>9, <1>10 DEF ReconcileInstance

\* Superseding keeps what an operation is and never brings one back.
LEMMA BaseFacts ==
  ASSUME TypeOK, NEW o \in Op, NEW base \in {ops, Superseded(o)}, NEW q \in Op
  PROVE  /\ base \in [Op -> Operation]
         /\ base[q].type = ops[q].type /\ base[q].step = ops[q].step
         /\ base[q].role = ops[q].role
         /\ isInFlightOperationState(base[q].state) => InFlight(q)
         /\ Terminal(q) => base[q] = ops[q]
<1>1. base \in [Op -> Operation]
  BY SupersededType DEF TypeOK, OperationTypeOK
<1> DEFINE s == Stamp(ops[q])
<1>2. ops[q] \in Operation
  BY DEF TypeOK, OperationTypeOK
<1>3. s \in Operation /\ s.type = ops[q].type /\ s.step = ops[q].step /\ s.role = ops[q].role
  BY <1>2, StampType DEF Operation
<1>4. \/ base[q] = ops[q]
      \/ /\ InFlight(q)
         /\ base[q] = [s EXCEPT !.state = "Failed",
                         !.stepState = IF @ = "Running" THEN "Failed" ELSE @]
  BY DEF Superseded
<1> HIDE DEF s
<1>5. CASE base[q] = ops[q]
  BY <1>1, <1>5 DEF InFlight
<1>6. CASE /\ InFlight(q)
           /\ base[q] = [s EXCEPT !.state = "Failed",
                           !.stepState = IF @ = "Running" THEN "Failed" ELSE @]
  BY <1>1, <1>3, <1>6 DEF Operation, InFlight, isInFlightOperationState, Terminal
<1> QED BY <1>4, <1>5, <1>6

\* The consequences of an operation's reconciliation for all the operations.
LEMMA OperationsWritten ==
  ASSUME TypeOK, NEW o \in Op, OperationsWrite(o)
  PROVE  /\ OperationTypeOK'
         /\ FailoverExclusive => FailoverExclusive'
         /\ \A q \in Op : Terminal(q) => ops'[q] = ops[q]
         /\ \A q \in Op : ops'[q].role \in {ops[q].role, RoleStatus(inst), RoleStatus(inst')}
<1>1. PICK base \in {ops, Superseded(o)} :
        \/ ops' = base
        \/ \E op \in Operation : OwnWrite(o, op) /\ ops' = [base EXCEPT ![o] = op]
  BY DEF OperationsWrite
<1>2. InFlight(o)
  BY DEF OperationsWrite
<1>3. base \in [Op -> Operation]
  BY BaseFacts
<1>4. \A q \in Op \ {o} : ops'[q] = base[q]
  BY <1>1, <1>3
<1>5. ops'[o] = base[o] \/ OwnWrite(o, ops'[o])
  BY <1>1, <1>3
<1>6. OperationTypeOK'
  BY <1>1, <1>3 DEF OperationTypeOK
<1>7. ASSUME FailoverExclusive PROVE FailoverExclusive'
  <2> DEFINE F(q) == ops[q].type = "failover" /\ InFlight(q) /\ ops[q].step > 0
  <2>1. ASSUME NEW q \in Op, F(q)' PROVE F(q) \/ (q = o /\ ops[o].type = "failover" /\ ~Conflict(o))
    <3>1. CASE ops'[q] = base[q]
      BY <2>1, <3>1, BaseFacts DEF InFlight
    <3>2. CASE q = o /\ OwnWrite(o, ops'[o])
      BY <1>2, <2>1, <3>2 DEF OwnWrite
    <3> QED BY <1>4, <1>5, <3>1, <3>2
  <2>2. ASSUME NEW q \in Op, F(q)' PROVE ops[q].type = "failover" /\ InFlight(q)
    BY <1>2, <2>1, <2>2
  <2>3. ASSUME NEW a \in Op, NEW b \in Op, F(a)', F(b)' PROVE a = b
    <3>1. CASE F(a) /\ F(b)
      BY <1>7, <3>1 DEF FailoverExclusive
    <3>2. CASE a = o /\ ops[o].type = "failover" /\ ~Conflict(o)
      BY <2>2, <2>3, <3>2 DEF Conflict, findOtherInFlightOperation
    <3>3. CASE b = o /\ ops[o].type = "failover" /\ ~Conflict(o)
      BY <2>2, <2>3, <3>3 DEF Conflict, findOtherInFlightOperation
    <3> QED BY <2>1, <2>3, <3>1, <3>2, <3>3
  <2> QED BY <2>3 DEF FailoverExclusive
<1>8. ASSUME NEW q \in Op, Terminal(q) PROVE ops'[q] = ops[q]
  BY <1>2, <1>4, <1>8, BaseFacts DEF InFlight, isInFlightOperationState, Terminal
<1>9. ASSUME NEW q \in Op PROVE ops'[q].role \in {ops[q].role, RoleStatus(inst), RoleStatus(inst')}
  <2>1. CASE ops'[q] = base[q]
    BY <2>1, BaseFacts
  <2>2. CASE q = o /\ OwnWrite(o, ops'[o])
    BY <2>2 DEF OwnWrite
  <2> QED BY <1>4, <1>5, <2>1, <2>2
<1> QED BY <1>6, <1>7, <1>8, <1>9

(***************************************************************************)
(* The inductive invariant.  TypeOK is not inductive without               *)
(* ConfigErrorRemembers: the guard goes back to lastStable, which is a     *)
(* state only because it was saved on the way into ConfigError.            *)
(* RolesDistinct needs the roles kept in the operations as well, because   *)
(* the watchdogs write them back into the instance.                        *)
(***************************************************************************)
IInv == TypeOK /\ ConfigErrorRemembers /\ FailoverExclusive /\ RolesDistinct

\* A new or an already protected instance satisfies the invariant.
LEMMA InitIInv == Init => IInv
<1> SUFFICES ASSUME Init PROVE IInv
  OBVIOUS
<1> USE ClusterAssumption, InstanceAssumption, SystemAssumption DEF Init
<1>0. PICK start \in Starts : StartedFrom(start)
  OBVIOUS
<1> USE <1>0 DEF StartedFrom
<1>1. WorkloadsTypeOK
  BY DEF WorkloadsTypeOK, Recorded
<1>2. InstanceTypeOK
  BY DEF InstanceTypeOK, InstanceStatus, FsmState, Reason, Cluster, Other, Syncs
<1>3. OperationTypeOK
  BY NoOperationType DEF OperationTypeOK
<1>4. ConfigErrorRemembers
  BY DEF ConfigErrorRemembers
<1>5. FailoverExclusive
  BY DEF FailoverExclusive, NoOperation
<1>6. RolesDistinct
  BY DEF RolesDistinct, NoOperation, NoRole, Other, Cluster
<1> QED BY <1>1, <1>2, <1>3, <1>4, <1>5, <1>6 DEF IInv, TypeOK

\* The users and the syncs touch operations that are new or deleted, and cm.
LEMMA UserWrites ==
  ASSUME TypeOK, UserStep
  PROVE  /\ UNCHANGED <<up, annot, cm, inst, paused, configReady, syncFailed>>
         /\ OperationTypeOK'
         /\ \A q \in Op : \/ ops'[q] = ops[q]
                          \/ ops'[q].step = 0 /\ ops'[q].role = NoRole
         /\ \A q \in Op : Terminal(q) => ops'[q] = ops[q] \/ ops'[q].state = "Deleted"
<1>1. PICK o \in Op, op \in Operation :
        /\ ops' = [ops EXCEPT ![o] = op] /\ op.step = 0 /\ op.role = NoRole
        /\ ~Terminal(o) \/ op.state = "Deleted"
        /\ UNCHANGED <<up, annot, cm, inst, paused, configReady, syncFailed>>
  <2>1. ASSUME NEW o \in Op, NEW type \in OpType, NEW skip \in BOOLEAN, Submit(o, type, skip)
        PROVE  \E op \in Operation :
                 /\ ops' = [ops EXCEPT ![o] = op] /\ op.step = 0 /\ op.role = NoRole
                 /\ ~Terminal(o) \/ op.state = "Deleted"
    <3> DEFINE late == \E q \in Op : InFlight(q) /\ shouldSupersedeOperation(ops[q].type, type)
               op == [NoOperation EXCEPT !.type = type, !.state = "Pending", !.skipDown = skip,
                        !.late = late]
    <3>1. NoOperation.step = 0 /\ NoOperation.role = NoRole
      BY DEF NoOperation
    <3>3. ops' = [ops EXCEPT ![o] = op] /\ ~Terminal(o)
      BY <2>1 DEF Submit, Terminal
    <3>l. late \in BOOLEAN
      OBVIOUS
    <3> HIDE DEF late
    <3> DEFINE x == [NoOperation EXCEPT !.type = type, !.state = "Pending"]
    <3>n. x \in Operation /\ x.step = 0 /\ x.role = NoRole
      BY <3>1, NoOperationType DEF Operation
    <3>x. op = [x EXCEPT !.skipDown = skip, !.late = late]
      OBVIOUS
    <3> HIDE DEF x, op
    <3>2. op \in Operation /\ op.step = 0 /\ op.role = NoRole
      BY <3>l, <3>n, <3>x DEF Operation
    <3> USE DEF op
    <3> QED BY <3>2, <3>3
  <2>2. ASSUME NEW o \in Op, DeleteOperation(o)
        PROVE  \E op \in Operation :
                 /\ ops' = [ops EXCEPT ![o] = op] /\ op.step = 0 /\ op.role = NoRole
                 /\ ~Terminal(o) \/ op.state = "Deleted"
    <3> DEFINE op == [NoOperation EXCEPT !.type = ops[o].type, !.state = "Deleted",
                        !.skipDown = ops[o].skipDown, !.late = ops[o].late]
    <3>1. NoOperation.step = 0 /\ NoOperation.role = NoRole
      BY DEF NoOperation
    <3>2. ops[o].type \in OpType \cup {"none"} /\ ops[o].skipDown \in BOOLEAN /\ ops[o].late \in BOOLEAN
      BY DEF TypeOK, OperationTypeOK, Operation
    <3>3. op \in Operation /\ op.step = 0 /\ op.role = NoRole /\ op.state = "Deleted"
      BY <3>1, <3>2, NoOperationType DEF Operation
    <3>4. ops' = [ops EXCEPT ![o] = op]
      BY <2>2 DEF DeleteOperation
    <3> QED BY <3>3, <3>4
  <2>3. {FALSE, AllowSkip} \subseteq BOOLEAN
    BY SystemAssumption
  <2>4. UNCHANGED <<up, annot, cm, inst, paused, configReady, syncFailed>>
    BY DEF UserStep, Submit, DeleteOperation, workloadVars, instanceVars
  <2>5. PICK o \in Op :
          \/ \E type \in OpType, skip \in {FALSE, AllowSkip} : Submit(o, type, skip)
          \/ DeleteOperation(o)
    BY DEF UserStep
  <2>6. \E op \in Operation :
          /\ ops' = [ops EXCEPT ![o] = op] /\ op.step = 0 /\ op.role = NoRole
          /\ ~Terminal(o) \/ op.state = "Deleted"
    <3>1. CASE DeleteOperation(o)
      BY <2>2, <3>1
    <3>2. ASSUME NEW type \in OpType, NEW skip \in {FALSE, AllowSkip}, Submit(o, type, skip)
          PROVE  \E op \in Operation :
                   /\ ops' = [ops EXCEPT ![o] = op] /\ op.step = 0 /\ op.role = NoRole
                   /\ ~Terminal(o) \/ op.state = "Deleted"
      <4>1. skip \in BOOLEAN
        BY <2>3
      <4> QED BY <2>1, <3>2, <4>1
    <3> QED BY <2>5, <3>1, <3>2
  <2> QED BY <2>4, <2>6
<1>2. ops \in [Op -> Operation]
  BY DEF TypeOK, OperationTypeOK
<1> QED BY <1>1, <1>2 DEF OperationTypeOK

\* Every step keeps the invariant and the finished operations.
LEMMA NextIInv ==
  ASSUME IInv, [Next]_vars
  PROVE  /\ IInv'
         /\ \A o \in Op : Terminal(o) => ops'[o] = ops[o] \/ ops'[o].state = "Deleted"
<1> USE DEF IInv
<1>1. ASSUME NEW o \in Op, ReconcileOperation(o) PROVE /\ IInv'
        /\ \A q \in Op : Terminal(q) => ops'[q] = ops[q] \/ ops'[q].state = "Deleted"
  <2>1. /\ WorkloadsTypeOK' /\ paused' \subseteq Syncs
        /\ UNCHANGED <<configReady, syncFailed>>
        /\ InstanceWrite /\ OperationsWrite(o)
    BY <1>1, ReconcileWrites
  <2>2. /\ OperationTypeOK' /\ FailoverExclusive'
        /\ \A q \in Op : Terminal(q) => ops'[q] = ops[q]
        /\ \A q \in Op : ops'[q].role \in {ops[q].role, RoleStatus(inst), RoleStatus(inst')}
    BY <2>1, OperationsWritten
  <2>3. TypeOK'
    BY <2>1, <2>2 DEF TypeOK, InstanceTypeOK, InstanceWrite
  <2>4. ConfigErrorRemembers'
    BY <2>1 DEF ConfigErrorRemembers, InstanceWrite
  <2>5. inst'.primary = inst'.secondary => inst'.primary = NoCluster
    BY <2>1, ClusterAssumption DEF InstanceWrite, RolesDistinct
  <2>6. RolesDistinct'
    BY <2>2, <2>5 DEF RolesDistinct, RoleStatus
  <2> QED BY <2>2, <2>3, <2>4, <2>6
<1>2. CASE ReconcileInstance
  <2>1. /\ inst' \in InstanceStatus
        /\ UNCHANGED <<up, annot, cm, paused, configReady, syncFailed, ops>>
        /\ \/ inst'.primary = inst.primary /\ inst'.secondary = inst.secondary
           \/ inst'.primary = Source /\ inst'.secondary = Target
           \/ \E o \in Op : RoleStatus(inst') = ops[o].role
        /\ ConfigErrorRemembers'
    BY <1>2, InstanceHandlers
  <2>2. TypeOK'
    BY <2>1 DEF TypeOK, WorkloadsTypeOK, InstanceTypeOK, OperationTypeOK
  <2>3. FailoverExclusive'
    BY <2>1 DEF FailoverExclusive, InFlight
  <2>4. ASSUME NEW o \in Op, RoleStatus(inst') = ops[o].role
        PROVE  inst'.primary = inst'.secondary => inst'.primary = NoCluster
    <3>1. inst'.primary = ops[o].role.primary /\ inst'.secondary = ops[o].role.secondary
      BY <2>4 DEF RoleStatus
    <3> QED BY <3>1 DEF RolesDistinct
  <2>5. RolesDistinct'
    BY <2>1, <2>4, ClusterAssumption DEF RolesDistinct
  <2> QED BY <2>1, <2>2, <2>3, <2>5
<1>3. CASE StartResourceSync
  <2>1. cm' \in [Workload -> Recorded]
    BY <1>3 DEF StartResourceSync, recordReplicasToConfigMap, Recorded, TypeOK, WorkloadsTypeOK
  <2>2. UNCHANGED <<up, annot, inst, paused, configReady, syncFailed, ops>>
    BY <1>3 DEF StartResourceSync, instanceVars
  <2>3. TypeOK'
    BY <2>1, <2>2 DEF TypeOK, WorkloadsTypeOK, InstanceTypeOK, OperationTypeOK
  <2>4. ConfigErrorRemembers' /\ FailoverExclusive' /\ RolesDistinct'
    BY <2>2 DEF ConfigErrorRemembers, FailoverExclusive, InFlight, RolesDistinct
  <2> QED BY <2>2, <2>3, <2>4
<1>4. CASE DependencyChanges
  <2>1. configReady' \in BOOLEAN /\ syncFailed' \in BOOLEAN
    BY <1>4 DEF DependencyChanges, ConfigHealthChanges, SyncHealthChanges, TypeOK, InstanceTypeOK
  <2>2. UNCHANGED <<up, annot, cm, inst, paused, ops>>
    BY <1>4 DEF DependencyChanges, ConfigHealthChanges, SyncHealthChanges, workloadVars
  <2>3. TypeOK'
    BY <2>1, <2>2 DEF TypeOK, WorkloadsTypeOK, InstanceTypeOK, OperationTypeOK
  <2>4. ConfigErrorRemembers' /\ FailoverExclusive' /\ RolesDistinct'
    BY <2>2 DEF ConfigErrorRemembers, FailoverExclusive, InFlight, RolesDistinct
  <2> QED BY <2>2, <2>3, <2>4
<1>5. CASE UserStep
  <2>1. /\ UNCHANGED <<up, annot, cm, inst, paused, configReady, syncFailed>>
        /\ OperationTypeOK'
        /\ \A q \in Op : \/ ops'[q] = ops[q]
                         \/ ops'[q].step = 0 /\ ops'[q].role = NoRole
        /\ \A q \in Op : Terminal(q) => ops'[q] = ops[q] \/ ops'[q].state = "Deleted"
    BY <1>5, UserWrites
  <2>2. TypeOK' /\ ConfigErrorRemembers'
    BY <2>1 DEF TypeOK, WorkloadsTypeOK, InstanceTypeOK, ConfigErrorRemembers
  <2>3. FailoverExclusive'
    BY <2>1 DEF FailoverExclusive, InFlight
  <2>4. RolesDistinct'
    BY <2>1 DEF RolesDistinct, NoRole
  <2> QED BY <2>1, <2>2, <2>3, <2>4
<1>6. CASE UNCHANGED vars
  BY <1>6 DEF vars, TypeOK, WorkloadsTypeOK, InstanceTypeOK, OperationTypeOK,
             ConfigErrorRemembers, FailoverExclusive, InFlight, RolesDistinct
<1> QED BY <1>1, <1>2, <1>3, <1>4, <1>5, <1>6 DEF Next

(***************************************************************************)
(* The theorems.                                                           *)
(***************************************************************************)
\* The inductive invariant holds in every reachable state.
LEMMA Invariance == Spec => []IInv
<1>1. IInv /\ [Next]_vars => IInv'
  BY NextIInv
<1> QED BY InitIInv, <1>1, PTL DEF Spec

\* In every run, whatever the workloads, operations, budgets and faults, the
\* variables keep their types: no step list is overrun.
THEOREM TypeCorrect == Spec => []TypeOK
<1>1. IInv => TypeOK
  BY DEF IInv
<1> QED BY Invariance, <1>1, PTL

\* At most one failover of an instance is past its admission, for any number
\* of operations submitted, superseded, lost and deleted in any order: the
\* conflict check of handleFailover is enough.
THEOREM AtMostOneFailover == Spec => []FailoverExclusive
<1>1. IInv => FailoverExclusive
  BY DEF IInv
<1> QED BY Invariance, <1>1, PTL

\* The two roles of an instance never name the same cluster, whichever of the
\* operation handlers and watchdogs wrote them and in whatever order.
THEOREM RolesStayDistinct == Spec => []RolesDistinct
<1>1. IInv => RolesDistinct
  BY DEF IInv
<1> QED BY Invariance, <1>1, PTL

\* An instance in ConfigError can always go back to a steady state.
THEOREM GuardRemembers == Spec => []ConfigErrorRemembers
<1>1. IInv => ConfigErrorRemembers
  BY DEF IInv
<1> QED BY Invariance, <1>1, PTL

\* Completed and Failed are final: no reconciliation, retried or of another
\* operation, changes a finished operation.
THEOREM FinishedIsFinal == Spec => TerminalStable
<1>1. IInv /\ [Next]_vars =>
        [\A o \in Op : Terminal(o) => ops'[o] = ops[o] \/ ops'[o].state = "Deleted"]_vars
  BY NextIInv
<1> QED BY Invariance, <1>1, PTL DEF Spec, TerminalStable

(***************************************************************************)
(* FailoverSystem implements OperationLifecycle: the operations on an      *)
(* instance keep the promise that group operations and drills wait for,    *)
(* for every number of operations, workloads and faults.                   *)
(***************************************************************************)
\* A step of the life cycle of operation q, or none.
Moves(q) == ops'[q].state = ops[q].state \/ <<ops[q].state, ops'[q].state>> \in Lifecycle!Steps

\* Stamping an operation leaves its state alone.
LEMMA StampState == ASSUME NEW op \in Operation PROVE Stamp(op).state = op.state
BY DEF Stamp, Operation

\* supersedeInFlightOperations fails operations in flight, never the one it
\* runs for, and leaves all others as they are.
LEMMA SupersededStates ==
  ASSUME OperationTypeOK, NEW o \in Op, NEW q \in Op
  PROVE  \/ Superseded(o)[q] = ops[q]
         \/ q # o /\ InFlight(q) /\ Superseded(o)[q].state = "Failed"
<1>1. Stamp(ops[q]) \in Operation
  BY StampType DEF OperationTypeOK
<1> QED BY <1>1 DEF Superseded, Operation

\* A reconciliation that ends without a write of its own operation keeps to
\* the life cycle, with or without superseded operations.
LEMMA UnwrittenMoves ==
  ASSUME OperationTypeOK, NEW o \in Op, ops' \in {ops, Superseded(o)}
  PROVE  \A q \in Op : Moves(q)
<1> SUFFICES ASSUME NEW q \in Op PROVE Moves(q)
  OBVIOUS
<1>1. CASE ops'[q] = ops[q]
  BY <1>1 DEF Moves
<1>2. CASE InFlight(q) /\ ops'[q].state = "Failed"
  BY <1>2 DEF Moves, Lifecycle!Steps, InFlight, isInFlightOperationState
<1> QED BY <1>1, <1>2, SupersededStates

\* So does one that writes a running operation that stays, completes or fails.
LEMMA WrittenMoves ==
  ASSUME OperationTypeOK, NEW o \in Op, ops[o].state = "Running",
         NEW op, op.state \in {"Running", "Completed", "Failed"}, WriteOperation(o, op)
  PROVE  \A q \in Op : Moves(q)
<1>1. CASE ops' = Superseded(o)
  BY <1>1, UnwrittenMoves
<1>2. CASE ops' = [Superseded(o) EXCEPT ![o] = op]
  <2> SUFFICES ASSUME NEW q \in Op PROVE Moves(q)
    OBVIOUS
  <2>1. Superseded(o) = [x \in Op |-> Superseded(o)[x]]
    BY DEF Superseded
  <2>2. CASE q = o
    BY <1>2, <2>1, <2>2 DEF Moves, Lifecycle!Steps
  <2>3. CASE q # o
    <3>1. ops'[q] = Superseded(o)[q]
      BY <1>2, <2>1, <2>3
    <3>2. CASE ops'[q] = ops[q]
      BY <3>2 DEF Moves
    <3>3. CASE InFlight(q) /\ ops'[q].state = "Failed"
      BY <3>3 DEF Moves, Lifecycle!Steps, InFlight, isInFlightOperationState
    <3> QED BY <3>1, <3>2, <3>3, SupersededStates
  <2> QED BY <2>2, <2>3
<1> QED BY <1>1, <1>2 DEF WriteOperation

\* Every reconciliation of an operation keeps all operations to the life
\* cycle: its own, which it finds Pending or Running, and those it supersedes.
LEMMA ReconcileFollows ==
  ASSUME TypeOK, NEW o \in Op, ReconcileOperation(o)
  PROVE  \A q \in Op : Moves(q)
<1> DEFINE s == Stamp(ops[o])
<1>t. OperationTypeOK /\ ops[o] \in Operation
  BY DEF TypeOK, OperationTypeOK
<1>s. s \in Operation /\ s.state = ops[o].state
  BY <1>t, StampType, StampState
<1> HIDE DEF s
<1>1. CASE Start(o)
  <2>1. ops[o].state = "Pending" /\ ops' = [ops EXCEPT ![o] = [s EXCEPT !.state = "Running"]]
    BY <1>1 DEF Start, s
  <2>2. [s EXCEPT !.state = "Running"].state = "Running"
    BY <1>s DEF Operation
  <2>3. ops \in [Op -> Operation]
    BY <1>t DEF OperationTypeOK
  <2> QED BY <2>1, <2>2, <2>3 DEF Moves, Lifecycle!Steps
<1>2. CASE Reject(o)
  <2> DEFINE op == [IF ops[o].type = "reprotect" THEN ops[o] ELSE s EXCEPT !.state = "Failed"]
  <2>1. op.state = "Failed"
    BY <1>t, <1>s DEF Operation
  <2>2. ops[o].state = "Running" /\ WriteOperation(o, op)
    BY <1>2 DEF Reject, s
  <2> HIDE DEF op
  <2> QED BY <1>t, <2>1, <2>2, WrittenMoves
<1>3. CASE LockRoles(o)
  <2> DEFINE op == [ops[o] EXCEPT !.annotated = (inst.secondary # NoCluster)]
  <2>1. op.state = ops[o].state
    BY <1>t DEF Operation
  <2>2. ops[o].state = "Running" /\ WriteOperation(o, op)
    BY <1>3 DEF LockRoles, Admitted
  <2> HIDE DEF op
  <2> QED BY <1>t, <2>1, <2>2, WrittenMoves
<1>4. CASE InitSteps(o)
  <2> DEFINE op == [ops[o] EXCEPT !.step = 1]
  <2>1. op.state = ops[o].state
    BY <1>t DEF Operation
  <2>2. ops[o].state = "Running" /\ WriteOperation(o, op)
    BY <1>4 DEF InitSteps, Admitted
  <2> HIDE DEF op
  <2> QED BY <1>t, <2>1, <2>2, WrittenMoves
<1>5. CASE StartStep(o)
  <2> DEFINE op == [ops[o] EXCEPT !.stepState = "Running"]
  <2>1. op.state = ops[o].state
    BY <1>t DEF Operation
  <2>2. ops[o].state = "Running" /\ WriteOperation(o, op)
    BY <1>5 DEF StartStep, AtStep, Admitted
  <2> HIDE DEF op
  <2> QED BY <1>t, <2>1, <2>2, WrittenMoves
<1>6. CASE StepDone(o)
  <2> DEFINE op == [ops[o] EXCEPT !.step = @ + 1, !.stepState = "Pending"]
  <2>1. op.state = ops[o].state
    BY <1>t DEF Operation
  <2>2. ops[o].state = "Running" /\ WriteOperation(o, op)
    BY <1>6 DEF StepDone, AtStep, Admitted
  <2> HIDE DEF op
  <2> QED BY <1>t, <2>1, <2>2, WrittenMoves
<1>7. CASE StepWaits(o) \/ AutoCancelStepWaits(o) \/ FinishRetried(o)
  <2>1. ops' \in {ops, Superseded(o)}
    BY <1>7 DEF StepWaits, AutoCancelStepWaits, FinishRetried
  <2> QED BY <1>t, <2>1, UnwrittenMoves
<1>8. CASE FailFailoverStep(o)
  <2> DEFINE i == Entered("failover")
             direct == [FailedAtStep(ops[o]) EXCEPT !.ac = "Succeeded", !.role = RoleStatus(i)]
             cancelled == [ops[o] EXCEPT !.stepState = "Failed", !.ac = "Running", !.acStep = 1,
                             !.acState = "Pending", !.manual = FALSE]
             manual == [FailedAtStep(ops[o]) EXCEPT !.ac = "NotTriggered", !.manual = TRUE]
  <2>1. ops[o].state = "Running"
    BY <1>8 DEF FailFailoverStep, AtStep, Admitted
  <2>2. WriteOperation(o, direct) \/ WriteOperation(o, cancelled) \/ WriteOperation(o, manual)
    BY <1>8 DEF FailFailoverStep
  <2>3. direct.state = "Failed" /\ cancelled.state = ops[o].state /\ manual.state = "Failed"
    BY <1>t, <1>s DEF FailedAtStep, Operation, s
  <2> HIDE DEF direct, cancelled, manual
  <2> QED BY <1>t, <2>1, <2>2, <2>3, WrittenMoves
<1>9. CASE FailStep(o)
  <2>1. FailedAtStep(ops[o]).state = "Failed"
    BY <1>s DEF FailedAtStep, Operation, s
  <2>2. ops[o].state = "Running" /\ WriteOperation(o, FailedAtStep(ops[o]))
    BY <1>9 DEF FailStep, AtStep, Admitted
  <2> QED BY <1>t, <2>1, <2>2, WrittenMoves
<1>10. CASE StartAutoCancelStep(o)
  <2> DEFINE op == [ops[o] EXCEPT !.acState = "Running"]
  <2>1. op.state = ops[o].state
    BY <1>t DEF Operation
  <2>2. ops[o].state = "Running" /\ WriteOperation(o, op)
    BY <1>10 DEF StartAutoCancelStep, AtAutoCancelStep, Admitted
  <2> HIDE DEF op
  <2> QED BY <1>t, <2>1, <2>2, WrittenMoves
<1>11. CASE AutoCancelStepDone(o)
  <2> DEFINE op == [ops[o] EXCEPT !.acStep = @ + 1, !.acState = "Pending"]
  <2>1. op.state = ops[o].state
    BY <1>t DEF Operation
  <2>2. ops[o].state = "Running" /\ WriteOperation(o, op)
    BY <1>11 DEF AutoCancelStepDone, AtAutoCancelStep, Admitted
  <2> HIDE DEF op
  <2> QED BY <1>t, <2>1, <2>2, WrittenMoves
<1>12. CASE failFailoverAutoCancel(o)
  <2> DEFINE op == [s EXCEPT !.state = "Failed", !.ac = "Failed", !.acState = "Failed",
                 !.manual = TRUE]
  <2>1. op.state = "Failed"
    BY <1>s DEF Operation
  <2>2. ops[o].state = "Running" /\ WriteOperation(o, op)
    BY <1>12 DEF failFailoverAutoCancel, AtAutoCancelStep, Admitted, s
  <2> HIDE DEF op
  <2> QED BY <1>t, <2>1, <2>2, WrittenMoves
<1>13. CASE completeFailoverAutoCancel(o)
  <2> DEFINE op == [s EXCEPT !.state = "Failed", !.ac = "Succeeded", !.manual = FALSE,
                 !.role = RoleStatus(inst)]
  <2>1. op.state = "Failed"
    BY <1>s DEF Operation
  <2>2. ops[o].state = "Running" /\ WriteOperation(o, op)
    BY <1>13 DEF completeFailoverAutoCancel, Admitted, s
  <2> HIDE DEF op
  <2> QED BY <1>t, <2>1, <2>2, WrittenMoves
<1>14. CASE Finish(o)
  <2> DEFINE op == [s EXCEPT !.state = "Completed",
                 !.role = RoleStatus(Finished(ops[o].type))]
  <2>1. op.state = "Completed"
    BY <1>s DEF Operation
  <2>2. ops[o].state = "Running" /\ WriteOperation(o, op)
    BY <1>14 DEF Finish, AllStepsDone, Admitted, s
  <2> HIDE DEF op
  <2> QED BY <1>t, <2>1, <2>2, WrittenMoves
<1>15. CASE CancelProtected(o)
  <2> DEFINE done == [ops[o] EXCEPT !.state = "Completed", !.step = Len(CancelSteps) + 1,
                        !.stepState = "Pending", !.role = RoleStatus(inst)]
             failed == [ops[o] EXCEPT !.state = "Failed"]
  <2>1. done.state = "Completed" /\ failed.state = "Failed"
    BY <1>t DEF Operation
  <2>2. ops[o].state = "Running" /\ (WriteOperation(o, done) \/ WriteOperation(o, failed))
    BY <1>15 DEF CancelProtected
  <2> HIDE DEF done, failed
  <2> QED BY <1>t, <2>1, <2>2, WrittenMoves
<1>16. CASE handlePause(o) \/ handleResume(o)
  <2> DEFINE done == [ops[o] EXCEPT !.state = "Completed"]
  <2>1. done.state = "Completed"
    BY <1>t DEF Operation
  <2>2. ops[o].state = "Running" /\ (WriteOperation(o, done) \/ ops' = ops)
    BY <1>16 DEF handlePause, handleResume
  <2> HIDE DEF done
  <2> QED BY <1>t, <2>1, <2>2, UnwrittenMoves, WrittenMoves
<1> QED BY <1>1, <1>2, <1>3, <1>4, <1>5, <1>6, <1>7, <1>8, <1>9, <1>10, <1>11, <1>12, <1>13,
           <1>14, <1>15, <1>16 DEF ReconcileOperation

\* Users only bring operations into being and delete them.
LEMMA UserFollows ==
  ASSUME TypeOK, UserStep
  PROVE  \A q \in Op : Moves(q)
<1>1. PICK o \in Op :
        \/ \E type \in OpType, skip \in {FALSE, AllowSkip} : Submit(o, type, skip)
        \/ DeleteOperation(o)
  BY DEF UserStep
<1>2. ops \in [Op -> Operation]
  BY DEF TypeOK, OperationTypeOK
<1>3. ASSUME NEW type, NEW skip, Submit(o, type, skip) PROVE \A q \in Op : Moves(q)
  <2> DEFINE late == \E q \in Op : InFlight(q) /\ shouldSupersedeOperation(ops[q].type, type)
             op == [NoOperation EXCEPT !.type = type, !.state = "Pending", !.skipDown = skip,
                      !.late = late]
  <2>1. op.state = "Pending"
    BY DEF NoOperation
  <2>2. ops[o].state = "Absent" /\ ops' = [ops EXCEPT ![o] = op]
    BY <1>3 DEF Submit
  <2> HIDE DEF op
  <2> QED BY <1>2, <2>1, <2>2 DEF Moves, Lifecycle!Steps
<1>4. CASE DeleteOperation(o)
  <2> DEFINE op == [NoOperation EXCEPT !.type = ops[o].type, !.state = "Deleted",
                      !.skipDown = ops[o].skipDown, !.late = ops[o].late]
  <2>1. op.state = "Deleted"
    BY DEF NoOperation
  <2>2. ops[o].state \notin {"Absent", "Deleted"} /\ ops' = [ops EXCEPT ![o] = op]
    BY <1>4 DEF DeleteOperation
  <2>3. ops[o].state \in Lifecycle!OperationStates
    BY <1>2 DEF Operation, Lifecycle!OperationStates
  <2> HIDE DEF op
  <2> QED BY <1>2, <2>1, <2>2, <2>3 DEF Moves, Lifecycle!Steps
<1> QED BY <1>1, <1>3, <1>4

\* Whatever is submitted, superseded, lost, retried and deleted, each operation
\* on the instance is accepted, runs and ends once, as OperationLifecycle says:
\* FailoverSystem implements it.
THEOREM OperationsImplementLifecycle == Spec => OperationsFollowLifecycle
<1>1. Init => Lifecycle!Init
  BY DEF Init, Lifecycle!Init, NoOperation
<1>2. IInv /\ [Next]_vars => [Lifecycle!Next]_[o \in Op |-> ops[o].state]
  <2> SUFFICES ASSUME IInv, [Next]_vars
               PROVE  \/ Lifecycle!Next
                      \/ [o \in Op |-> ops[o].state]' = [o \in Op |-> ops[o].state]
    OBVIOUS
  <2>t. TypeOK
    BY DEF IInv
  <2>1. CASE \A q \in Op : Moves(q)
    BY <2>1 DEF Moves, Lifecycle!Next
  <2>2. CASE UNCHANGED ops
    BY <2>2
  <2>3. CASE Next
    <3>1. ASSUME NEW o \in Op, ReconcileOperation(o) PROVE \A q \in Op : Moves(q)
      BY <2>t, <3>1, ReconcileFollows
    <3>2. CASE UserStep
      BY <2>t, <2>1, <3>2, UserFollows
    <3>3. CASE ReconcileInstance \/ StartResourceSync \/ DependencyChanges
      BY <2>2, <3>3 DEF ReconcileInstance, StartResourceSync, DependencyChanges
    <3> QED BY <2>1, <2>3, <3>1, <3>2, <3>3 DEF Next
  <2> QED BY <2>2, <2>3 DEF vars
<1> QED BY Invariance, <1>1, <1>2, PTL DEF Spec, OperationsFollowLifecycle, Lifecycle!Spec
=============================================================================
