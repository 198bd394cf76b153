------------------------- MODULE NoDualActiveProofs -------------------------
(***************************************************************************)
(* The application never runs in both clusters: the proof of NoDualActive. *)
(***************************************************************************)
EXTENDS FailoverSystemProofs

(***************************************************************************)
(* The inductive invariant.                                                *)
(***************************************************************************)

\* Disciplined users, in two parts: without undo, or a failover and its undo.
Plain == \A o \in Op : ~ops[o].skipDown /\ ~ops[o].late

WithoutUndo ==
  /\ Submitted("undo") = {}
  /\ Submitted("reprotect") = {} \/ Submitted("pause") \cup Submitted("resume") = {}

\* An operation that was never submitted has asked for nothing.
Fresh ==
  \A o \in Op : ops[o].state = "Absent" => ops[o].type = "none" /\ ~ops[o].skipDown /\ ~ops[o].late

\* Only a failover is compensated, past its admission, and it reports that when
\* it ends.
Compensating ==
  \A o \in Op : InFlight(o) =>
    \/ ops[o].ac = "None"
    \/ ops[o].ac = "Running" /\ ops[o].type = "failover" /\ ops[o].step > 0

Started(o) == InFlight(o) /\ ops[o].step > 0

\* handlePending, which writes the roles, is over for good.
Past == inst.fsm # "Pending" /\ (inst.fsm = "ConfigError" => inst.lastStable # "Pending")

\* A failover or an undo that is past its admission runs on roles that
\* handlePending does not write any more.
RolesWritten == \A o \in Op : Started(o) /\ ops[o].type \in {"failover", "undo"} => Past

\* Only a reprotect leads to FailingBack.
FailingBackAsked == Submitted("reprotect") = {} => inst.fsm # "FailingBack"

\* Both roles are known or none is, so that the primary and the secondary that
\* the steps go by are two clusters.
RolesTogether ==
  /\ inst.primary = NoCluster <=> inst.secondary = NoCluster
  /\ \A o \in Op : ops[o].role.primary = NoCluster <=> ops[o].role.secondary = NoCluster

Base ==
  Fresh /\ Compensating /\ RolesWritten /\ FailingBackAsked /\ RolesTogether

\* The operation o is at a step that scales cluster c up.
Fills(o, c) ==
  /\ InFlight(o)
  /\ \/ ops[o].type = "failover" /\ ops[o].ac # "Running" /\ ops[o].step = 5 /\ c = SecondaryCluster
     \/ ops[o].type = "failover" /\ ops[o].ac = "Running" /\ ops[o].acStep = 2 /\ c = Source
     \/ ops[o].type = "cancel" /\ ops[o].step = 2 /\ c = Source
     \/ ops[o].type = "undo" /\ ops[o].step = 2 /\ c = SecondaryCluster

Apart == up[Source] = {} \/ up[Target] = {}

\* Whoever is to scale a cluster up finds the other one empty, and nobody else
\* fills that one meanwhile.
RoomToFill == \A o \in Op, c \in Cluster : Fills(o, c) => up[Other(c)] = {}

\* A cancel or undo past its admission is alone with the failovers gone.
Superseding ==
  \A o, q \in Op :
    Started(o) /\ ops[o].type \in {"cancel", "undo"} /\ ops[q].type = "failover" => ~InFlight(q)

\* While a failover scales the target up, no reprotect ends: the instance is in
\* FailingOver, unless a pause or resume took it out.
InFailingOver ==
  Submitted("pause") \cup Submitted("resume") = {} =>
    \A o \in Op :
      InFlight(o) /\ ops[o].type = "failover" /\ ops[o].ac # "Running" /\ ops[o].step = 5
        => inst.fsm = "FailingOver"

\* Until an undo writes the roles, the watchdog of FailingOver cannot change
\* them: the failover that it copies them from was not completed, and was
\* compensated with the roles that the instance has.
UndoToCome == \A o \in Op : ops[o].type = "undo" => InFlight(o) /\ ops[o].step <= 2

WatchdogKeepsRoles ==
  \A o \in Op :
    ops[o].type = "failover" /\ inst.fsm = "FailingOver" =>
      /\ ops[o].state # "Completed"
      /\ ops[o].ac = "Succeeded" /\ UndoToCome => ops[o].role = RoleStatus(inst)

Scaling ==
  /\ Apart /\ RoomToFill /\ Superseding /\ InFailingOver
  /\ SingleUndo => WatchdogKeepsRoles

DInv == Base /\ (Disciplined => Scaling)

(***************************************************************************)
(* What a reconciliation does to the operations.                           *)
(***************************************************************************)

\* What supersedeInFlightOperations leaves of every operation.
LEMMA Untouched ==
  ASSUME TypeOK, NEW o \in Op, NEW q \in Op
  PROVE  /\ Superseded(o) \in [Op -> Operation]
         /\ Superseded(o)[o] = ops[o]
         /\ Superseded(o)[q].type = ops[q].type
         /\ Superseded(o)[q].skipDown = ops[q].skipDown
         /\ Superseded(o)[q].late = ops[q].late
         /\ Superseded(o)[q].step = ops[q].step
         /\ Superseded(o)[q].ac = ops[q].ac
         /\ Superseded(o)[q].acStep = ops[q].acStep
         /\ Superseded(o)[q].role = ops[q].role
         /\ \/ Superseded(o)[q] = ops[q]
            \/ InFlight(q) /\ ops[q].type = "failover" /\ Superseded(o)[q].state = "Failed"
         /\ ops[o].type \in {"cancel", "undo"} /\ ops[q].type = "failover" =>
              ~isInFlightOperationState(Superseded(o)[q].state)
<1> DEFINE s == Stamp(ops[q])
<1>1. Superseded(o) \in [Op -> Operation]
  BY SupersededType DEF TypeOK
<1>2. ops[q] \in Operation
  BY DEF TypeOK, OperationTypeOK
<1>3. /\ s \in Operation /\ s.type = ops[q].type /\ s.skipDown = ops[q].skipDown
      /\ s.late = ops[q].late /\ s.step = ops[q].step /\ s.ac = ops[q].ac
      /\ s.acStep = ops[q].acStep /\ s.role = ops[q].role
  BY <1>2, StampType DEF Operation
<1>4. Superseded(o)[o] = ops[o]
  BY DEF Superseded
<1>5. Superseded(o)[q] =
        IF q # o /\ InFlight(q) /\ shouldSupersedeOperation(ops[o].type, ops[q].type)
        THEN [s EXCEPT !.state = "Failed", !.stepState = IF @ = "Running" THEN "Failed" ELSE @]
        ELSE ops[q]
  BY DEF Superseded
<1> HIDE DEF s
<1>6. CASE q # o /\ InFlight(q) /\ shouldSupersedeOperation(ops[o].type, ops[q].type)
  <2> DEFINE x == [s EXCEPT !.state = "Failed", !.stepState = IF @ = "Running" THEN "Failed" ELSE @]
  <2>1. /\ x.type = s.type /\ x.skipDown = s.skipDown /\ x.late = s.late /\ x.step = s.step
        /\ x.ac = s.ac /\ x.acStep = s.acStep /\ x.role = s.role /\ x.state = "Failed"
    BY <1>3 DEF Operation
  <2>2. Superseded(o)[q] = x
    BY <1>5, <1>6
  <2> HIDE DEF x
  <2> QED BY <1>1, <1>3, <1>4, <1>6, <2>1, <2>2
           DEF shouldSupersedeOperation, isInFlightOperationState
<1>7. CASE ~(q # o /\ InFlight(q) /\ shouldSupersedeOperation(ops[o].type, ops[q].type))
  <2>1. Superseded(o)[q] = ops[q]
    BY <1>5, <1>7
  <2> QED BY <1>1, <1>4, <1>7, <2>1 DEF InFlight, shouldSupersedeOperation
<1> QED BY <1>6, <1>7

\* A status write leaves the new status in the operation, or is lost.
LEMMA OwnWritten ==
  ASSUME TypeOK, NEW o \in Op, NEW op, WriteOperation(o, op)
  PROVE  ops'[o] \in {op, ops[o]}
<1>1. Superseded(o) \in [Op -> Operation] /\ Superseded(o)[o] = ops[o]
  BY Untouched
<1> QED BY <1>1 DEF WriteOperation

\* What a reconciliation never changes in its operation.
Kept(o) ==
  /\ ops'[o].type = ops[o].type /\ ops'[o].skipDown = ops[o].skipDown
  /\ ops'[o].late = ops[o].late /\ ops'[o].state # "Absent"

SamePc(o) ==
  ops'[o].step = ops[o].step /\ ops'[o].ac = ops[o].ac /\ ops'[o].acStep = ops[o].acStep

\* How an operation ends: a failover compensated with the roles of the instance, or
\* completed with the instance in Active.
Ends(o) ==
  /\ ops'[o].state \in {"Completed", "Failed"}
  /\ ops'[o].ac = "Succeeded" =>
       \/ ops[o].ac = "Succeeded"
       \/ /\ ops[o].type = "failover" \/ ops[o].ac = "Running"
          /\ ops'[o].role = RoleStatus(inst')
  /\ ops[o].type = "failover" /\ ops'[o].state = "Completed" => inst'.fsm = "Active"

\* Where a reconciliation may bring its operation.
OwnMove(o) ==
  /\ Kept(o)
  /\ \/ Ends(o)
     \/ InFlight(o)' /\ SamePc(o)
     \/ InFlight(o)' /\ InitSteps(o) /\ ops'[o].step = 1 /\ ops'[o].ac = ops[o].ac
     \/ InFlight(o)' /\ StepDone(o) /\ ops'[o].step = ops[o].step + 1 /\ ops'[o].ac = ops[o].ac
     \/ /\ InFlight(o)' /\ FailFailoverStep(o) /\ ops'[o].step = ops[o].step
        /\ ops'[o].ac = "Running" /\ ops'[o].acStep = 1
     \/ /\ InFlight(o)' /\ AutoCancelStepDone(o) /\ ops'[o].step = ops[o].step
        /\ ops'[o].ac = ops[o].ac /\ ops'[o].acStep = ops[o].acStep + 1

LEMMA ReconcileMoves ==
  ASSUME TypeOK, NEW o \in Op, ReconcileOperation(o)
  PROVE  OwnMove(o)
<1> DEFINE s == Stamp(ops[o])
<1>t. ops[o] \in Operation
  BY DEF TypeOK, OperationTypeOK
<1>s. /\ s \in Operation /\ s.type = ops[o].type /\ s.skipDown = ops[o].skipDown
      /\ s.late = ops[o].late /\ s.step = ops[o].step /\ s.ac = ops[o].ac
      /\ s.acStep = ops[o].acStep /\ s.role = ops[o].role
  BY <1>t, StampType DEF Operation
<1> HIDE DEF s
<1>e. InFlight(o)
  <2>1. OperationsWrite(o)
    BY ReconcileWrites
  <2> QED BY <2>1 DEF OperationsWrite
<1>u. ops'[o] = ops[o] => OwnMove(o)
  BY <1>e DEF OwnMove, Kept, SamePc, InFlight, isInFlightOperationState
<1>1. CASE Start(o)
  <2>1. ops'[o] = [s EXCEPT !.state = "Running"]
    BY <1>1 DEF Start, s, TypeOK, OperationTypeOK
  <2> QED BY <1>s, <2>1 DEF Operation, OwnMove, Kept, SamePc, InFlight, isInFlightOperationState
<1>2. CASE Reject(o)
  <2> DEFINE b == IF ops[o].type = "reprotect" THEN ops[o] ELSE s
             op == [b EXCEPT !.state = "Failed"]
  <2>1. ops'[o] \in {op, ops[o]}
    BY <1>2, OwnWritten DEF Reject, s
  <2>2. b \in Operation /\ b.type = ops[o].type /\ b.skipDown = ops[o].skipDown
        /\ b.late = ops[o].late /\ b.ac = ops[o].ac
    BY <1>t, <1>s
  <2> HIDE DEF b
  <2>3. op.type = b.type /\ op.skipDown = b.skipDown /\ op.late = b.late /\ op.ac = b.ac
        /\ op.state = "Failed"
    BY <2>2 DEF Operation
  <2> HIDE DEF op
  <2> QED BY <2>1, <2>2, <2>3, <1>u DEF OwnMove, Kept, Ends
<1>3. CASE LockRoles(o)
  <2> DEFINE known == inst.secondary # NoCluster
             op == [ops[o] EXCEPT !.annotated = known]
  <2>1. ops'[o] \in {op, ops[o]}
    BY <1>3, OwnWritten DEF LockRoles
  <2> HIDE DEF known
  <2>2. op.type = ops[o].type /\ op.skipDown = ops[o].skipDown /\ op.late = ops[o].late
        /\ op.ac = ops[o].ac /\ op.step = ops[o].step /\ op.acStep = ops[o].acStep
        /\ op.state = ops[o].state
    BY <1>t DEF Operation
  <2> HIDE DEF op
  <2> QED BY <2>1, <2>2, <1>e, <1>u DEF OwnMove, Kept, SamePc, InFlight, isInFlightOperationState
<1>4. CASE InitSteps(o)
  <2> DEFINE op == [ops[o] EXCEPT !.step = 1]
  <2>1. ops'[o] \in {op, ops[o]}
    BY <1>4, OwnWritten DEF InitSteps
  <2>2. op.type = ops[o].type /\ op.skipDown = ops[o].skipDown /\ op.late = ops[o].late
        /\ op.ac = ops[o].ac /\ op.step = 1 /\ op.state = ops[o].state
    BY <1>t DEF Operation
  <2> HIDE DEF op
  <2> QED BY <1>4, <2>1, <2>2, <1>e, <1>u DEF OwnMove, Kept, InFlight, isInFlightOperationState
<1>5. CASE StartStep(o)
  <2> DEFINE op == [ops[o] EXCEPT !.stepState = "Running"]
  <2>1. ops'[o] \in {op, ops[o]}
    BY <1>5, OwnWritten DEF StartStep
  <2>2. op.type = ops[o].type /\ op.skipDown = ops[o].skipDown /\ op.late = ops[o].late
        /\ op.ac = ops[o].ac /\ op.step = ops[o].step /\ op.acStep = ops[o].acStep
        /\ op.state = ops[o].state
    BY <1>t DEF Operation
  <2> HIDE DEF op
  <2> QED BY <2>1, <2>2, <1>e, <1>u DEF OwnMove, Kept, SamePc, InFlight, isInFlightOperationState
<1>6. CASE StepDone(o)
  <2> DEFINE n == ops[o].step + 1
             op == [ops[o] EXCEPT !.step = n, !.stepState = "Pending"]
  <2>1. ops'[o] \in {op, ops[o]}
    BY <1>6, OwnWritten DEF StepDone
  <2> HIDE DEF n
  <2>2. op.type = ops[o].type /\ op.skipDown = ops[o].skipDown /\ op.late = ops[o].late
        /\ op.ac = ops[o].ac /\ op.step = n /\ op.state = ops[o].state
    BY <1>t DEF Operation
  <2> HIDE DEF op
  <2>3. ops'[o] = op => ops'[o].step = ops[o].step + 1
    BY <2>2 DEF n
  <2> QED BY <1>6, <2>1, <2>2, <2>3, <1>e, <1>u DEF OwnMove, Kept, InFlight, isInFlightOperationState
<1>7. CASE StepWaits(o)
  <2>1. ops'[o] = ops[o]
    BY <1>7, Untouched DEF StepWaits
  <2> QED BY <2>1, <1>u
<1>f. LET d == FailedAtStep(ops[o])
      IN /\ d \in Operation /\ d.type = ops[o].type /\ d.skipDown = ops[o].skipDown
         /\ d.late = ops[o].late /\ d.ac = ops[o].ac /\ d.state = "Failed"
  BY <1>s DEF FailedAtStep, Operation, s
<1>8. CASE FailFailoverStep(o)
  <2> DEFINE d == FailedAtStep(ops[o])
             i == Entered("failover")
             name == CurrentName(o)
  <2>d. /\ d \in Operation /\ d.type = ops[o].type /\ d.skipDown = ops[o].skipDown
        /\ d.late = ops[o].late /\ d.ac = ops[o].ac /\ d.state = "Failed"
    BY <1>f
  <2>1. CASE /\ Settle("failover", name, i)
             /\ WriteOperation(o, [d EXCEPT !.ac = "Succeeded", !.role = RoleStatus(i)])
    <3> DEFINE r == RoleStatus(i)
               op == [d EXCEPT !.ac = "Succeeded", !.role = r]
    <3>1. ops'[o] \in {op, ops[o]}
      BY <2>1, OwnWritten
    <3>2. r = RoleStatus(inst')
      <4>1. i \in InstanceStatus
        BY EnteredInstance
      <4> HIDE DEF i, name
      <4> QED BY <2>1, <4>1, SettledInstance DEF RoleStatus
    <3> HIDE DEF d, r
    <3>3. op.type = d.type /\ op.skipDown = d.skipDown /\ op.late = d.late
          /\ op.state = "Failed" /\ op.role = r
      BY <2>d DEF Operation
    <3> HIDE DEF op
    <3> QED BY <1>8, <2>d, <3>1, <3>2, <3>3, <1>u DEF OwnMove, Kept, Ends, FailFailoverStep
  <2>2. CASE /\ inst' = i
             /\ WriteOperation(o, [ops[o] EXCEPT !.stepState = "Failed", !.ac = "Running",
                                     !.acStep = 1, !.acState = "Pending", !.manual = FALSE])
    <3> DEFINE op == [ops[o] EXCEPT !.stepState = "Failed", !.ac = "Running",
                        !.acStep = 1, !.acState = "Pending", !.manual = FALSE]
               x == [ops[o] EXCEPT !.stepState = "Failed", !.ac = "Running"]
               y == [x EXCEPT !.acStep = 1]
    <3>1. ops'[o] \in {op, ops[o]}
      BY <2>2, OwnWritten
    <3>2. x \in Operation /\ x.type = ops[o].type /\ x.step = ops[o].step /\ x.ac = "Running"
          /\ x.skipDown = ops[o].skipDown /\ x.late = ops[o].late /\ x.state = ops[o].state
      BY <1>t DEF Operation
    <3>3. y \in Operation /\ y.type = x.type /\ y.step = x.step /\ y.ac = x.ac /\ y.acStep = 1
          /\ y.skipDown = x.skipDown /\ y.late = x.late /\ y.state = x.state
      <4> HIDE DEF x
      <4> QED BY <3>2 DEF Operation
    <3>4. op = [y EXCEPT !.acState = "Pending", !.manual = FALSE]
      OBVIOUS
    <3> HIDE DEF x, y, op
    <3>5. op.type = y.type /\ op.step = y.step /\ op.ac = y.ac /\ op.acStep = y.acStep
          /\ op.skipDown = y.skipDown /\ op.late = y.late /\ op.state = y.state
      BY <3>3, <3>4 DEF Operation
    <3> QED BY <1>8, <3>1, <3>2, <3>3, <3>5, <1>e, <1>u
            DEF OwnMove, Kept, InFlight, isInFlightOperationState
  <2>3. CASE /\ Settle("failover", name, i)
             /\ WriteOperation(o, [d EXCEPT !.ac = "NotTriggered", !.manual = TRUE])
    <3> DEFINE op == [d EXCEPT !.ac = "NotTriggered", !.manual = TRUE]
    <3>1. ops'[o] \in {op, ops[o]}
      BY <2>3, OwnWritten
    <3> HIDE DEF d
    <3>2. op.type = d.type /\ op.skipDown = d.skipDown /\ op.late = d.late
          /\ op.state = "Failed" /\ op.ac = "NotTriggered"
      BY <2>d DEF Operation
    <3> HIDE DEF op
    <3> QED BY <2>d, <3>1, <3>2, <1>u DEF OwnMove, Kept, Ends
  <2> QED BY <1>8, <2>1, <2>2, <2>3 DEF FailFailoverStep
<1>9. CASE FailStep(o)
  <2>1. ops'[o] \in {FailedAtStep(ops[o]), ops[o]}
    BY <1>9, OwnWritten DEF FailStep
  <2>2. ops[o].type # "failover"
    BY <1>9 DEF FailStep
  <2> QED BY <2>1, <2>2, <1>f, <1>u DEF OwnMove, Kept, Ends
<1>10. CASE StartAutoCancelStep(o)
  <2> DEFINE op == [ops[o] EXCEPT !.acState = "Running"]
  <2>1. ops'[o] \in {op, ops[o]}
    BY <1>10, OwnWritten DEF StartAutoCancelStep
  <2>2. op.type = ops[o].type /\ op.skipDown = ops[o].skipDown /\ op.late = ops[o].late
        /\ op.ac = ops[o].ac /\ op.step = ops[o].step /\ op.acStep = ops[o].acStep
        /\ op.state = ops[o].state
    BY <1>t DEF Operation
  <2> HIDE DEF op
  <2> QED BY <2>1, <2>2, <1>e, <1>u DEF OwnMove, Kept, SamePc, InFlight, isInFlightOperationState
<1>11. CASE AutoCancelStepDone(o)
  <2> DEFINE n == ops[o].acStep + 1
             op == [ops[o] EXCEPT !.acStep = n, !.acState = "Pending"]
  <2>1. ops'[o] \in {op, ops[o]}
    BY <1>11, OwnWritten DEF AutoCancelStepDone
  <2> HIDE DEF n
  <2>2. op.type = ops[o].type /\ op.skipDown = ops[o].skipDown /\ op.late = ops[o].late
        /\ op.ac = ops[o].ac /\ op.step = ops[o].step /\ op.acStep = n /\ op.state = ops[o].state
    BY <1>t DEF Operation
  <2> HIDE DEF op
  <2>3. ops'[o] = op => ops'[o].acStep = ops[o].acStep + 1
    BY <2>2 DEF n
  <2> QED BY <1>11, <2>1, <2>2, <2>3, <1>e, <1>u
          DEF OwnMove, Kept, InFlight, isInFlightOperationState
<1>12. CASE AutoCancelStepWaits(o)
  BY <1>12, <1>u DEF AutoCancelStepWaits
<1>13. CASE failFailoverAutoCancel(o)
  <2> DEFINE x == [s EXCEPT !.state = "Failed", !.ac = "Failed"]
             op == [x EXCEPT !.acState = "Failed", !.manual = TRUE]
  <2>1. ops'[o] \in {op, ops[o]}
    BY <1>13, OwnWritten DEF failFailoverAutoCancel, s
  <2>2. x \in Operation /\ x.type = ops[o].type /\ x.skipDown = ops[o].skipDown
        /\ x.late = ops[o].late /\ x.state = "Failed" /\ x.ac = "Failed"
    BY <1>s DEF Operation
  <2> HIDE DEF x
  <2>3. op.type = x.type /\ op.skipDown = x.skipDown /\ op.late = x.late
        /\ op.state = x.state /\ op.ac = x.ac
    BY <2>2 DEF Operation
  <2> HIDE DEF op
  <2> QED BY <2>1, <2>2, <2>3, <1>u DEF OwnMove, Kept, Ends
<1>14. CASE completeFailoverAutoCancel(o)
  <2> DEFINE r == RoleStatus(inst)
             x == [s EXCEPT !.state = "Failed", !.ac = "Succeeded"]
             op == [x EXCEPT !.manual = FALSE, !.role = r]
  <2>1. ops'[o] \in {op, ops[o]}
    BY <1>14, OwnWritten DEF completeFailoverAutoCancel, s
  <2>2. x \in Operation /\ x.type = ops[o].type /\ x.skipDown = ops[o].skipDown
        /\ x.late = ops[o].late /\ x.state = "Failed"
    BY <1>s DEF Operation
  <2>3. r = RoleStatus(inst')
    BY <1>14 DEF completeFailoverAutoCancel, To, RoleStatus, TypeOK, InstanceTypeOK, InstanceStatus
  <2> HIDE DEF x, r
  <2>4. op.type = x.type /\ op.skipDown = x.skipDown /\ op.late = x.late
        /\ op.state = x.state /\ op.role = r
    BY <2>2 DEF Operation
  <2> HIDE DEF op
  <2>5. ops[o].ac = "Running"
    BY <1>14 DEF completeFailoverAutoCancel
  <2> QED BY <2>1, <2>2, <2>3, <2>4, <2>5, <1>u DEF OwnMove, Kept, Ends
<1>15. CASE Finish(o)
  <2> DEFINE r == RoleStatus(Finished(ops[o].type))
             op == [s EXCEPT !.state = "Completed", !.role = r]
  <2>1. ops'[o] \in {op, ops[o]}
    BY <1>15, OwnWritten DEF Finish, s
  <2>2. r = RoleStatus(inst') /\ (ops[o].type = "failover" => inst'.fsm = "Active")
    BY <1>15 DEF Finish, Finished, To, TypeOK, InstanceTypeOK, InstanceStatus
  <2> HIDE DEF r
  <2>3. op.type = ops[o].type /\ op.skipDown = ops[o].skipDown /\ op.late = ops[o].late
        /\ op.state = "Completed" /\ op.role = r /\ op.ac = ops[o].ac
    BY <1>s DEF Operation
  <2> HIDE DEF op
  <2> QED BY <2>1, <2>2, <2>3, <1>u DEF OwnMove, Kept, Ends
<1>16. CASE FinishRetried(o)
  BY <1>16, <1>u DEF FinishRetried
<1>17. CASE CancelProtected(o)
  <2> DEFINE n == Len(CancelSteps) + 1
             r == RoleStatus(inst)
             x == [ops[o] EXCEPT !.state = "Completed", !.step = n]
             y == [x EXCEPT !.stepState = "Pending", !.role = r]
             z == [ops[o] EXCEPT !.state = "Failed"]
  <2>1. ops'[o] \in {y, z, ops[o]}
    BY <1>17, OwnWritten DEF CancelProtected
  <2>2. n \in 0 .. 8 /\ ops[o].type = "cancel"
    BY <1>17, CancelStepCount DEF CancelProtected
  <2> HIDE DEF n, r
  <2>3. x \in Operation /\ x.type = ops[o].type /\ x.skipDown = ops[o].skipDown
        /\ x.late = ops[o].late /\ x.state = "Completed" /\ x.ac = ops[o].ac
    BY <1>t, <2>2 DEF Operation
  <2>4. z.type = ops[o].type /\ z.skipDown = ops[o].skipDown
        /\ z.late = ops[o].late /\ z.state = "Failed" /\ z.ac = ops[o].ac
    BY <1>t DEF Operation
  <2> HIDE DEF x
  <2>5. y.type = x.type /\ y.skipDown = x.skipDown /\ y.late = x.late /\ y.state = x.state
        /\ y.ac = x.ac
    BY <2>3 DEF Operation
  <2> HIDE DEF y, z
  <2> QED BY <2>1, <2>2, <2>3, <2>4, <2>5, <1>u DEF OwnMove, Kept, Ends
<1>18. CASE handlePause(o) \/ handleResume(o)
  <2> DEFINE op == [ops[o] EXCEPT !.state = "Completed"]
  <2>1. ops'[o] \in {op, ops[o]} /\ ops[o].type \in {"pause", "resume"}
    BY <1>18, OwnWritten DEF handlePause, handleResume
  <2>2. op.type = ops[o].type /\ op.skipDown = ops[o].skipDown
        /\ op.late = ops[o].late /\ op.state = "Completed" /\ op.ac = ops[o].ac
    BY <1>t DEF Operation
  <2> HIDE DEF op
  <2> QED BY <2>1, <2>2, <1>u DEF OwnMove, Kept, Ends
<1> QED
  BY <1>1, <1>2, <1>3, <1>4, <1>5, <1>6, <1>7, <1>8, <1>9, <1>10, <1>11, <1>12,
     <1>13, <1>14, <1>15, <1>16, <1>17, <1>18 DEF ReconcileOperation

(***************************************************************************)
(* What a reconciliation does to the instance.                             *)
(***************************************************************************)

\* The operation is at the step that scales the target of a failover up.
AtScaleUp(o) == ops[o].type = "failover" /\ ops[o].ac # "Running" /\ ops[o].step = 5

\* Who may take the instance out of FailingOver.
MayLeave(o) ==
  \/ ops[o].type \in {"pause", "resume"}
  \/ ops[o].type = "failover" /\ ~Conflict(o) /\ ~AtScaleUp(o)
  \/ ops[o].type \in {"cancel", "undo"} /\ ops[o].step > 0

\* Who may write the roles.
MayWriteRoles(o) ==
  \/ ops[o].type = "failover" /\ ops[o].step = 8 /\ ops[o].ac # "Running" /\ ~Conflict(o)
  \/ ops[o].type = "undo" /\ ops[o].step = 3

\* The states that a reconciliation of o leads to.
FsmMove(o) ==
  /\ \/ inst'.fsm = inst.fsm
     \/ inst'.fsm \notin {"Pending", "ConfigError", "FailingBack"}
     \/ inst'.fsm = "FailingBack" /\ ops[o].type = "reprotect"
  /\ inst.fsm = "FailingOver" /\ inst'.fsm # "FailingOver" => MayLeave(o)
  /\ inst'.fsm = "FailingOver" => inst.fsm = "FailingOver" \/ ops[o].type = "failover"

RolesMove(o) ==
  \/ inst'.primary = inst.primary /\ inst'.secondary = inst.secondary
  \/ MayWriteRoles(o)

InstanceMove(o) == FsmMove(o) /\ RolesMove(o)

\* Entering the intermediate state of an operation.
LEMMA EnteredMove ==
  ASSUME TypeOK, NEW o \in Op, NEW type, type = ops[o].type
  PROVE  LET i == Entered(type)
         IN /\ i \in InstanceStatus /\ i.primary = inst.primary /\ i.secondary = inst.secondary
            /\ \/ i.fsm = inst.fsm
               \/ i.fsm = "FailingOver" /\ type = "failover" /\ inst.fsm = "Protected"
               \/ i.fsm = "FailingBack" /\ type = "reprotect" /\ inst.fsm = "Active"
            /\ type = "failover" /\ inst.fsm \in AdmittedFsm(type) => i.fsm = "FailingOver"
BY EnteredInstance DEF Entered, To, AdmittedFsm, TypeOK, InstanceTypeOK, InstanceStatus

\* A failed step leaves the instance, or settles it in Protected or Failed; a
\* reprotect only settles from FailingBack.
LEMMA SettledMove ==
  ASSUME NEW i \in InstanceStatus, NEW type, NEW name, Settle(type, name, i)
  PROVE  /\ inst'.primary = i.primary /\ inst'.secondary = i.secondary
         /\ \/ inst'.fsm = i.fsm
            \/ /\ inst'.fsm \in {"Protected", "Failed"}
               /\ type = "reprotect" => i.fsm = "FailingBack"
<1>1. inst' \in {i, To(i, "Protected"), ToFailed(i, "StepFailed")}
      /\ (inst' = i \/ (type = "reprotect" => i.fsm = "FailingBack"))
  BY DEF Settle, settleInstanceStateOnStepFailure
<1> QED BY <1>1 DEF To, ToFailed, InstanceStatus

\* The names of the steps.
LEMMA StepNames ==
  /\ FailoverSteps[1] = "PreCheck" /\ FailoverSteps[2] = "PauseSchedules"
  /\ FailoverSteps[3] = "FinalSync" /\ FailoverSteps[4] = "ScaleDownSource"
  /\ FailoverSteps[5] = "ScaleUpTarget" /\ FailoverSteps[6] = "CheckReplicas"
  /\ FailoverSteps[7] = "SwitchRoles" /\ Len(FailoverSteps) = 7
  /\ CancelSteps[1] = "ScaleDownTarget" /\ CancelSteps[2] = "ScaleUpSource"
  /\ CancelSteps[3] = "ResumeSchedules" /\ Len(CancelSteps) = 3
  /\ UndoSteps[1] = "ScaleDownTarget" /\ UndoSteps[2] = "ScaleUpSource"
  /\ UndoSteps[3] = "SwitchRoles" /\ UndoSteps[4] = "ResumeSchedules" /\ Len(UndoSteps) = 4
  /\ ReprotectSteps[1] = "PreCheck" /\ ReprotectSteps[2] = "PauseSchedules"
  /\ Len(ReprotectSteps) = 2
BY DEF FailoverSteps, CancelSteps, UndoSteps, ReprotectSteps

\* The step of an operation whose step loop is at a step that runs.
LEMMA AtStepNames ==
  ASSUME TypeOK, NEW o \in Op, NEW st, AtStep(o, st)
  PROVE  /\ ops[o].ac # "Running" /\ ~Conflict(o) /\ inst.fsm \in AdmittedFsm(ops[o].type)
         /\ InFlight(o) /\ ops[o].step > 0
         /\ \/ /\ ops[o].type = "failover" /\ ops[o].step \in 1 .. 7
               /\ CurrentName(o) = FailoverSteps[ops[o].step]
            \/ /\ ops[o].type = "cancel" /\ ops[o].step \in 1 .. 3
               /\ CurrentName(o) = CancelSteps[ops[o].step]
            \/ /\ ops[o].type = "undo" /\ ops[o].step \in 1 .. 4
               /\ CurrentName(o) = UndoSteps[ops[o].step]
            \/ /\ ops[o].type = "reprotect" /\ ops[o].step \in 1 .. 2
               /\ CurrentName(o) = ReprotectSteps[ops[o].step]
<1>1. /\ ops[o].state = "Running" /\ Stepped(ops[o].type) /\ ~Conflict(o)
      /\ inst.fsm \in AdmittedFsm(ops[o].type) /\ ops[o].ac # "Running"
      /\ ops[o].step \in 1 .. Len(StepsOf(ops[o].type))
  BY DEF AtStep, Admitted
<1>2. InFlight(o)
  BY <1>1 DEF InFlight, isInFlightOperationState
<1>3. ops[o].step > 0
  <2> DEFINE n == Len(StepsOf(ops[o].type))
  <2>1. n \in 0 .. 7 /\ ops[o].step \in 1 .. n
    BY <1>1, StepCounts
  <2> HIDE DEF n
  <2> QED BY <2>1
<1>4. CASE ops[o].type = "failover"
  <2>1. StepsOf(ops[o].type) = FailoverSteps
    BY <1>4 DEF StepsOf
  <2> QED BY <1>1, <1>2, <1>3, <1>4, <2>1, StepNames DEF CurrentName
<1>5. CASE ops[o].type = "cancel"
  <2>1. StepsOf(ops[o].type) = CancelSteps
    BY <1>5 DEF StepsOf
  <2> QED BY <1>1, <1>2, <1>3, <1>5, <2>1, StepNames DEF CurrentName
<1>6. CASE ops[o].type = "undo"
  <2>1. StepsOf(ops[o].type) = UndoSteps
    BY <1>6 DEF StepsOf
  <2> QED BY <1>1, <1>2, <1>3, <1>6, <2>1, StepNames DEF CurrentName
<1>7. CASE ops[o].type = "reprotect"
  <2>1. StepsOf(ops[o].type) = ReprotectSteps
    BY <1>7 DEF StepsOf
  <2> QED BY <1>1, <1>2, <1>3, <1>7, <2>1, StepNames DEF CurrentName
<1> QED BY <1>1, <1>4, <1>5, <1>6, <1>7 DEF Stepped

\* Every reconciliation moves the instance in these ways only.
LEMMA ReconcileMovesInstance ==
  ASSUME TypeOK, Compensating, NEW o \in Op, ReconcileOperation(o)
  PROVE  InstanceMove(o)
<1> DEFINE type == ops[o].type
           i == Entered(type)
<1>t. ops[o] \in Operation
  BY DEF TypeOK, OperationTypeOK
<1>u. ASSUME inst' = inst PROVE InstanceMove(o)
  BY <1>u DEF InstanceMove, FsmMove, RolesMove
<1>i. /\ i \in InstanceStatus /\ i.primary = inst.primary /\ i.secondary = inst.secondary
      /\ \/ i.fsm = inst.fsm
         \/ i.fsm = "FailingOver" /\ type = "failover" /\ inst.fsm = "Protected"
         \/ i.fsm = "FailingBack" /\ type = "reprotect" /\ inst.fsm = "Active"
      /\ type = "failover" /\ inst.fsm \in AdmittedFsm(type) => i.fsm = "FailingOver"
  BY EnteredMove
<1>n. ASSUME inst' = i PROVE InstanceMove(o)
  <2> HIDE DEF i
  <2> QED BY <1>i, <1>n DEF InstanceMove, FsmMove, RolesMove
<1>a. ASSUME NEW name, NEW as, Settle(as, name, i), ~Conflict(o), ~AtScaleUp(o),
             (ops[o].step > 0 \/ type = "failover"),
             type \in {"failover", "cancel", "undo"} \/ (type = "reprotect" /\ as = "reprotect")
      PROVE  InstanceMove(o)
  <2>1. /\ inst'.primary = i.primary /\ inst'.secondary = i.secondary
        /\ \/ inst'.fsm = i.fsm
           \/ /\ inst'.fsm \in {"Protected", "Failed"}
              /\ as = "reprotect" => i.fsm = "FailingBack"
    <3> HIDE DEF i
    <3> QED BY <1>i, <1>a, SettledMove
  <2>2. RolesMove(o)
    BY <1>i, <2>1 DEF RolesMove
  <2>3. CASE inst'.fsm = i.fsm
    <3> HIDE DEF i
    <3> QED BY <1>i, <2>2, <2>3 DEF InstanceMove, FsmMove
  <2>4. CASE /\ inst'.fsm \in {"Protected", "Failed"}
             /\ as = "reprotect" => i.fsm = "FailingBack"
    <3> HIDE DEF i
    <3>1. inst.fsm = "FailingOver" => MayLeave(o)
      BY <1>i, <1>a, <2>4 DEF MayLeave
    <3> QED BY <2>2, <2>4, <3>1 DEF InstanceMove, FsmMove
  <2> QED BY <2>1, <2>3, <2>4
<1>1. CASE Start(o)
  BY <1>1, <1>u DEF Start, instanceVars
<1>2. CASE Reject(o)
  BY <1>2, <1>u DEF Reject, instanceVars
<1>3. CASE LockRoles(o)
  BY <1>3, <1>n DEF LockRoles
<1>4. CASE InitSteps(o)
  BY <1>4, <1>n DEF InitSteps
<1>5. CASE StartStep(o)
  BY <1>5, <1>n DEF StartStep
<1>6. CASE StepDone(o)
  <2>1. inst' = SwitchedBack(ops[o], CurrentName(o), i)
    BY <1>6 DEF StepDone
  <2>2. CASE inst' = i
    BY <2>2, <1>n
  <2>3. CASE inst' # i
    <3>1. /\ type = "undo" /\ CurrentName(o) = "SwitchRoles"
          /\ inst' = [i EXCEPT !.primary = Source, !.secondary = Target]
      BY <2>1, <2>3 DEF SwitchedBack
    <3>2. ops[o].step = 3
      BY <1>6, <3>1, AtStepNames, StepNames DEF StepDone
    <3>3. inst'.fsm = i.fsm /\ i.fsm = inst.fsm
      <4> HIDE DEF i
      <4> QED BY <1>i, <3>1 DEF InstanceStatus
    <3> HIDE DEF i
    <3> QED BY <3>1, <3>2, <3>3 DEF InstanceMove, FsmMove, RolesMove, MayWriteRoles
  <2> QED BY <2>2, <2>3
<1>7. CASE StepWaits(o)
  BY <1>7, <1>u DEF StepWaits, instanceVars
<1>8. CASE FailFailoverStep(o)
  <2>1. /\ AtStep(o, "Running") /\ type = "failover"
        /\ \/ inst' = i
           \/ /\ Settle("failover", CurrentName(o), i)
              /\ resolveFailoverAutoCancelMode(CurrentName(o)) \in {"DirectRollback", "NoAutoCancel"}
    BY <1>8 DEF FailFailoverStep
  <2>2. CASE /\ Settle("failover", CurrentName(o), i)
             /\ resolveFailoverAutoCancelMode(CurrentName(o)) \in {"DirectRollback", "NoAutoCancel"}
    <3>1. ~Conflict(o) /\ ops[o].step > 0 /\ CurrentName(o) = FailoverSteps[ops[o].step]
      BY <2>1, AtStepNames
    <3>2. ~AtScaleUp(o)
      BY <2>2, <3>1, StepNames DEF AtScaleUp, resolveFailoverAutoCancelMode
    <3> HIDE DEF i
    <3> QED BY <2>1, <2>2, <3>1, <3>2, <1>a
  <2> QED BY <2>1, <2>2, <1>n
<1>9. CASE FailStep(o)
  <2>1. AtStep(o, "Running") /\ type # "failover" /\ Settle(type, CurrentName(o), i)
    BY <1>9 DEF FailStep
  <2>2. ~Conflict(o) /\ ops[o].step > 0 /\ type \in {"cancel", "undo", "reprotect"}
    BY <2>1, AtStepNames
  <2>3. ~AtScaleUp(o)
    BY <2>1 DEF AtScaleUp
  <2> HIDE DEF i
  <2> QED BY <2>1, <2>2, <2>3, <1>a
<1>c. ASSUME ops[o].ac = "Running" PROVE type = "failover"
  <2>1. InFlight(o)
    <3>1. OperationsWrite(o)
      BY ReconcileWrites
    <3> QED BY <3>1 DEF OperationsWrite
  <2> QED BY <1>c, <2>1 DEF Compensating
<1>10. CASE StartAutoCancelStep(o) \/ AutoCancelStepDone(o) \/ AutoCancelStepWaits(o)
  <2>1. ops[o].ac = "Running" /\ inst' = Entered("failover")
    BY <1>10 DEF StartAutoCancelStep, AutoCancelStepDone, AutoCancelStepWaits, AtAutoCancelStep
  <2> QED BY <2>1, <1>c, <1>n
<1>11. CASE failFailoverAutoCancel(o)
  <2>1. /\ ops[o].ac = "Running" /\ ~Conflict(o)
        /\ Settle("cancel", CancelSteps[ops[o].acStep], Entered("failover"))
    BY <1>11 DEF failFailoverAutoCancel, AtAutoCancelStep, Admitted
  <2>2. type = "failover" /\ ~AtScaleUp(o)
    BY <2>1, <1>c DEF AtScaleUp
  <2>3. Settle("cancel", CancelSteps[ops[o].acStep], i)
    BY <2>1, <2>2
  <2> HIDE DEF i
  <2> QED BY <2>1, <2>2, <2>3, <1>a
<1>12. CASE completeFailoverAutoCancel(o)
  <2>1. ops[o].ac = "Running" /\ ~Conflict(o) /\ inst' = To(inst, "Protected")
    BY <1>12 DEF completeFailoverAutoCancel, Admitted
  <2>2. MayLeave(o)
    BY <2>1, <1>c DEF MayLeave, AtScaleUp
  <2>3. inst'.fsm = "Protected" /\ inst'.primary = inst.primary /\ inst'.secondary = inst.secondary
    BY <2>1 DEF To, TypeOK, InstanceTypeOK, InstanceStatus
  <2> QED BY <2>2, <2>3 DEF InstanceMove, FsmMove, RolesMove
<1>13. CASE Finish(o)
  <2>1. /\ inst' = Finished(type) /\ Stepped(type) /\ ~Conflict(o) /\ ops[o].ac # "Running"
        /\ ops[o].step = Len(StepsOf(type)) + 1 /\ inst.fsm \in AdmittedFsm(type)
    BY <1>13 DEF Finish, AllStepsDone, Admitted
  <2>2. CASE type = "failover"
    <3>1. StepsOf(type) = FailoverSteps
      BY <2>2 DEF StepsOf
    <3>2. ops[o].step = 8
      BY <2>1, <3>1, StepNames
    <3>3. inst'.fsm = "Active"
      BY <2>1, <2>2 DEF Finished, To, TypeOK, InstanceTypeOK, InstanceStatus
    <3>4. MayLeave(o) /\ MayWriteRoles(o)
      BY <2>1, <2>2, <3>2 DEF MayLeave, MayWriteRoles, AtScaleUp
    <3> QED BY <3>3, <3>4 DEF InstanceMove, FsmMove, RolesMove
  <2>3. CASE type # "failover"
    <3>1. inst'.fsm = "Protected" /\ inst'.primary = inst.primary /\ inst'.secondary = inst.secondary
      BY <2>1, <2>3 DEF Finished, To, TypeOK, InstanceTypeOK, InstanceStatus
    <3>2. ops[o].step > 0
      <4> DEFINE n == Len(StepsOf(type))
      <4>1. n \in 0 .. 7 /\ ops[o].step = n + 1
        BY <2>1, StepCounts
      <4> HIDE DEF n
      <4> QED BY <4>1
    <3>3. inst.fsm = "FailingOver" => MayLeave(o)
      BY <2>1, <2>3, <3>2 DEF MayLeave, Stepped, AdmittedFsm
    <3> QED BY <3>1, <3>3 DEF InstanceMove, FsmMove, RolesMove
  <2> QED BY <2>2, <2>3
<1>14. CASE FinishRetried(o)
  BY <1>14, <1>n DEF FinishRetried
<1>15. CASE CancelProtected(o)
  BY <1>15, <1>u DEF CancelProtected
<1>16. CASE handlePause(o) \/ handleResume(o)
  <2>1. inst' \in {inst, To(inst, "Paused"), To(inst, "Protected")} /\ type \in {"pause", "resume"}
    BY <1>16 DEF handlePause, handleResume
  <2>2. /\ inst'.fsm \in {inst.fsm, "Paused", "Protected"}
        /\ inst'.primary = inst.primary /\ inst'.secondary = inst.secondary
    BY <2>1 DEF To, TypeOK, InstanceTypeOK, InstanceStatus
  <2> QED BY <2>1, <2>2 DEF InstanceMove, FsmMove, RolesMove, MayLeave
<1> QED
  BY <1>1, <1>2, <1>3, <1>4, <1>5, <1>6, <1>7, <1>8, <1>9, <1>10, <1>11, <1>12,
     <1>13, <1>14, <1>15, <1>16 DEF ReconcileOperation

(***************************************************************************)
(* What a reconciliation does to the workloads.                            *)
(***************************************************************************)

\* The clusters by role are two.
LEMMA TwoClusters ==
  ASSUME TypeOK, RolesDistinct, RolesTogether
  PROVE  /\ PrimaryCluster \in Cluster /\ SecondaryCluster \in Cluster
         /\ Other(SecondaryCluster) = PrimaryCluster
         /\ Other(Source) = Target /\ Other(Target) = Source
<1>1. inst.primary \in Cluster \cup {NoCluster} /\ inst.secondary \in Cluster \cup {NoCluster}
  BY DEF TypeOK, InstanceTypeOK, InstanceStatus
<1> QED BY <1>1, ClusterAssumption, InstanceAssumption
        DEF RolesDistinct, RolesTogether, PrimaryCluster, SecondaryCluster, Other, Cluster

Shrinks == \A c \in Cluster : up'[c] \subseteq up[c]

GrowsIn(d) == \A c \in Cluster \ {d} : up'[c] \subseteq up[c]

LEMMA ScaleUpGrows ==
  ASSUME TypeOK, NEW d \in Cluster, NEW complete \in BOOLEAN, doScaleUp(d, complete)
  PROVE  GrowsIn(d)
BY DEF doScaleUp, GrowsIn, TypeOK, WorkloadsTypeOK

LEMMA ScaleDownShrinks ==
  ASSUME TypeOK, NEW d \in Cluster, NEW complete \in BOOLEAN,
         doScaleDown(d, complete) \/ (\E recorded \in BOOLEAN : executeScaleDownSource(d, complete, recorded))
  PROVE  Shrinks /\ (complete => up'[d] = {})
<1>1. PICK done \in Scaled(up[d], complete) : up' = [up EXCEPT ![d] = @ \ done]
  BY DEF doScaleDown, executeScaleDownSource
<1> QED BY <1>1 DEF Scaled, Shrinks, TypeOK, WorkloadsTypeOK

LEMMA UnchangedShrinks ==
  ASSUME UNCHANGED workloadVars
  PROVE  Shrinks
BY DEF workloadVars, Shrinks

LEMMA PrimaryShrinks ==
  ASSUME TypeOK, RolesDistinct, RolesTogether, NEW op, ~op.skipDown,
         NEW complete \in BOOLEAN, ScaleDownPrimary(op, complete)
  PROVE  Shrinks /\ (complete => up'[PrimaryCluster] = {})
<1>1. PrimaryCluster \in Cluster
  BY TwoClusters
<1>2. \E recorded \in BOOLEAN : executeScaleDownSource(PrimaryCluster, complete, recorded)
  BY DEF ScaleDownPrimary
<1> QED BY <1>1, <1>2, ScaleDownShrinks

LEMMA CancelStepMoves ==
  ASSUME TypeOK, NEW name, NEW complete \in BOOLEAN, executeCancelStep(name, complete)
  PROVE  /\ Shrinks \/ (name = "ScaleUpSource" /\ GrowsIn(Source))
         /\ name = "ScaleDownTarget" /\ complete => up'[Target] = {}
<1>1. Source \in Cluster /\ Target \in Cluster
  BY DEF Cluster
<1>2. CASE name = "ScaleDownTarget" /\ doScaleDown(Target, complete)
  BY <1>1, <1>2, ScaleDownShrinks
<1>3. CASE name = "ScaleUpSource" /\ doScaleUp(Source, complete)
  BY <1>1, <1>3, ScaleUpGrows
<1>4. CASE name = "ResumeSchedules" /\ UNCHANGED workloadVars
  BY <1>4, UnchangedShrinks
<1> QED BY <1>2, <1>3, <1>4 DEF executeCancelStep

LEMMA FailoverStepMoves ==
  ASSUME TypeOK, RolesDistinct, RolesTogether, NEW op, ~op.skipDown, NEW name,
         NEW complete \in BOOLEAN, executeFailoverStep(op, name, complete)
  PROVE  /\ Shrinks \/ (name = "ScaleUpTarget" /\ GrowsIn(SecondaryCluster))
         /\ name = "ScaleDownSource" /\ complete => up'[PrimaryCluster] = {}
<1>1. CASE name = "ScaleDownSource" /\ ScaleDownPrimary(op, complete)
  BY <1>1, PrimaryShrinks
<1>2. CASE name = "ScaleUpTarget" /\ doScaleUp(SecondaryCluster, complete)
  BY <1>2, TwoClusters, ScaleUpGrows
<1>3. CASE name # "ScaleDownSource" /\ UNCHANGED workloadVars
  BY <1>3, UnchangedShrinks
<1> QED BY <1>1, <1>2, <1>3 DEF executeFailoverStep

LEMMA UndoStepMoves ==
  ASSUME TypeOK, RolesDistinct, RolesTogether, NEW op, ~op.skipDown, NEW name,
         NEW complete \in BOOLEAN, executeUndoStep(op, name, complete)
  PROVE  /\ Shrinks \/ (name = "ScaleUpSource" /\ GrowsIn(SecondaryCluster))
         /\ name = "ScaleDownTarget" /\ complete => up'[PrimaryCluster] = {}
<1>1. CASE name = "ScaleDownTarget" /\ ScaleDownPrimary(op, complete)
  BY <1>1, PrimaryShrinks
<1>2. CASE name = "ScaleUpSource" /\ doScaleUp(SecondaryCluster, complete)
  BY <1>2, TwoClusters, ScaleUpGrows
<1>3. CASE name # "ScaleDownTarget" /\ UNCHANGED workloadVars
  BY <1>3, UnchangedShrinks
<1> QED BY <1>1, <1>2, <1>3 DEF executeUndoStep

\* A workload is only scaled up in a cluster that the operation fills.
UpMove(o) == \A c \in Cluster : up'[c] \subseteq up[c] \/ Fills(o, c)

LEMMA StepMoves ==
  ASSUME TypeOK, RolesDistinct, RolesTogether, Plain, NEW o \in Op, AtStep(o, "Running"),
         NEW complete \in BOOLEAN, ExecuteStep(ops[o], CurrentName(o), complete)
  PROVE  /\ UpMove(o)
         /\ complete =>
              /\ ops[o].type = "failover" /\ ops[o].step = 4 => up'[PrimaryCluster] = {}
              /\ ops[o].type = "cancel" /\ ops[o].step = 1 => up'[Target] = {}
              /\ ops[o].type = "undo" /\ ops[o].step = 1 => up'[PrimaryCluster] = {}
<1> DEFINE name == CurrentName(o)
           k == ops[o].step
<1>1. /\ ops[o].ac # "Running" /\ InFlight(o)
      /\ \/ ops[o].type = "failover" /\ k \in 1 .. 7 /\ name = FailoverSteps[k]
         \/ ops[o].type = "cancel" /\ k \in 1 .. 3 /\ name = CancelSteps[k]
         \/ ops[o].type = "undo" /\ k \in 1 .. 4 /\ name = UndoSteps[k]
         \/ ops[o].type = "reprotect" /\ k \in 1 .. 2 /\ name = ReprotectSteps[k]
  BY AtStepNames
<1>2. ~ops[o].skipDown
  BY DEF Plain
<1>3. ExecuteStep(ops[o], name, complete)
  OBVIOUS
<1> HIDE DEF name
<1>g. ASSUME NEW d, GrowsIn(d), Fills(o, d) PROVE UpMove(o)
  BY <1>g DEF GrowsIn, UpMove
<1>s. Shrinks => UpMove(o)
  BY DEF Shrinks, UpMove
<1>4. CASE ops[o].type \in {"failover", "reprotect"}
  <2>1. /\ Shrinks \/ (name = "ScaleUpTarget" /\ GrowsIn(SecondaryCluster))
        /\ name = "ScaleDownSource" /\ complete => up'[PrimaryCluster] = {}
    BY <1>2, <1>3, <1>4, FailoverStepMoves DEF ExecuteStep
  <2>2. name = "ScaleUpTarget" => ops[o].type = "failover" /\ k = 5
    BY <1>1, <1>4, StepNames
  <2>3. name = "ScaleUpTarget" => Fills(o, SecondaryCluster)
    BY <1>1, <2>2 DEF Fills
  <2>4. ops[o].type = "failover" /\ k = 4 => name = "ScaleDownSource"
    BY <1>1, StepNames
  <2> QED BY <1>4, <1>g, <1>s, <2>1, <2>3, <2>4
<1>5. CASE ops[o].type = "cancel"
  <2>1. /\ Shrinks \/ (name = "ScaleUpSource" /\ GrowsIn(Source))
        /\ name = "ScaleDownTarget" /\ complete => up'[Target] = {}
    BY <1>3, <1>5, CancelStepMoves DEF ExecuteStep
  <2>2. name = "ScaleUpSource" => Fills(o, Source)
    BY <1>1, <1>5, StepNames DEF Fills
  <2>3. k = 1 => name = "ScaleDownTarget"
    BY <1>1, <1>5, StepNames
  <2> QED BY <1>5, <1>g, <1>s, <2>1, <2>2, <2>3
<1>6. CASE ops[o].type = "undo"
  <2>1. /\ Shrinks \/ (name = "ScaleUpSource" /\ GrowsIn(SecondaryCluster))
        /\ name = "ScaleDownTarget" /\ complete => up'[PrimaryCluster] = {}
    BY <1>2, <1>3, <1>6, UndoStepMoves DEF ExecuteStep
  <2>2. name = "ScaleUpSource" => Fills(o, SecondaryCluster)
    BY <1>1, <1>6, StepNames DEF Fills
  <2>3. k = 1 => name = "ScaleDownTarget"
    BY <1>1, <1>6, StepNames
  <2> QED BY <1>6, <1>g, <1>s, <2>1, <2>2, <2>3
<1> QED BY <1>1, <1>4, <1>5, <1>6

LEMMA InFlightReconciled ==
  ASSUME TypeOK, NEW o \in Op, ReconcileOperation(o)
  PROVE  InFlight(o)
<1>1. OperationsWrite(o)
  BY ReconcileWrites
<1> QED BY <1>1 DEF OperationsWrite

\* The steps of the compensation.
LEMMA AutoCancelMoves ==
  ASSUME TypeOK, Compensating, NEW o \in Op, InFlight(o), AtAutoCancelStep(o, "Running"),
         NEW complete \in BOOLEAN, executeCancelStep(CancelSteps[ops[o].acStep], complete)
  PROVE  /\ UpMove(o)
         /\ complete /\ ops[o].acStep = 1 => up'[Target] = {}
<1> DEFINE name == CancelSteps[ops[o].acStep]
<1>1. ops[o].ac = "Running" /\ ops[o].type = "failover" /\ ops[o].acStep \in 1 .. 3
  BY StepNames DEF AtAutoCancelStep, Compensating
<1>2. /\ Shrinks \/ (name = "ScaleUpSource" /\ GrowsIn(Source))
      /\ name = "ScaleDownTarget" /\ complete => up'[Target] = {}
  BY CancelStepMoves
<1>3. name = "ScaleUpSource" => ops[o].acStep = 2
  BY <1>1, StepNames
<1>4. ops[o].acStep = 1 => name = "ScaleDownTarget"
  BY StepNames
<1>5. ASSUME name = "ScaleUpSource", GrowsIn(Source) PROVE UpMove(o)
  BY <1>1, <1>3, <1>5 DEF UpMove, GrowsIn, Fills
<1>6. Shrinks => UpMove(o)
  BY DEF Shrinks, UpMove
<1> QED BY <1>2, <1>4, <1>5, <1>6

\* Every reconciliation scales up what its operation fills only.
LEMMA ReconcileScales ==
  ASSUME TypeOK, RolesDistinct, Base, Plain, NEW o \in Op, ReconcileOperation(o)
  PROVE  UpMove(o)
<1>b. Compensating /\ RolesTogether
  BY DEF Base
<1>f. InFlight(o)
  BY InFlightReconciled
<1>u. UNCHANGED workloadVars => UpMove(o)
  BY UnchangedShrinks DEF Shrinks, UpMove
<1>1. CASE StepDone(o)
  BY <1>1, <1>b, StepMoves DEF StepDone
<1>2. CASE StepWaits(o)
  <2>1. /\ ops[o].type = "cancel" /\ CurrentName(o) = "ScaleUpSource" /\ AtStep(o, "Running")
        /\ executeCancelStep("ScaleUpSource", TRUE)
    BY <1>2 DEF StepWaits
  <2>2. ExecuteStep(ops[o], CurrentName(o), TRUE)
    BY <2>1 DEF ExecuteStep
  <2> QED BY <2>1, <2>2, <1>b, StepMoves
<1>3. CASE FailFailoverStep(o) \/ FailStep(o)
  <2>1. AtStep(o, "Running")
    BY <1>3 DEF FailFailoverStep, FailStep
  <2>2. ExecuteStep(ops[o], CurrentName(o), FALSE) \/ UNCHANGED workloadVars
    BY <1>3 DEF FailFailoverStep, FailStep, StepFails
  <2> QED BY <2>1, <2>2, <1>b, <1>u, StepMoves
<1>4. CASE AutoCancelStepDone(o)
  BY <1>4, <1>b, <1>f, AutoCancelMoves DEF AutoCancelStepDone
<1>5. CASE AutoCancelStepWaits(o)
  <2>1. AtAutoCancelStep(o, "Running") /\ executeCancelStep(CancelSteps[ops[o].acStep], TRUE)
    BY <1>5 DEF AutoCancelStepWaits
  <2> QED BY <2>1, <1>b, <1>f, AutoCancelMoves
<1>6. CASE failFailoverAutoCancel(o)
  <2>1. /\ AtAutoCancelStep(o, "Running")
        /\ executeCancelStep(CancelSteps[ops[o].acStep], FALSE) \/ UNCHANGED workloadVars
    BY <1>6 DEF failFailoverAutoCancel
  <2> QED BY <2>1, <1>b, <1>f, <1>u, AutoCancelMoves
<1>7. CASE \/ Start(o) \/ Reject(o) \/ LockRoles(o) \/ InitSteps(o) \/ StartStep(o)
           \/ StartAutoCancelStep(o) \/ completeFailoverAutoCancel(o) \/ Finish(o)
           \/ FinishRetried(o) \/ CancelProtected(o) \/ handlePause(o) \/ handleResume(o)
  <2>1. UNCHANGED workloadVars
    BY <1>7 DEF Start, Reject, LockRoles, InitSteps, StartStep, StartAutoCancelStep,
                completeFailoverAutoCancel, Finish, FinishRetried, CancelProtected,
                handlePause, handleResume
  <2> QED BY <2>1, <1>u
<1> QED BY <1>1, <1>2, <1>3, <1>4, <1>5, <1>6, <1>7 DEF ReconcileOperation

\* An operation arrives at a step that fills a cluster with the other one empty.
LEMMA Arrivals ==
  ASSUME TypeOK, RolesDistinct, Base, Plain, NEW o \in Op, ReconcileOperation(o),
         NEW c \in Cluster, Fills(o, c)'
  PROVE  Fills(o, c) \/ up'[Other(c)] = {}
<1>b. Compensating /\ RolesTogether
  BY DEF Base
<1>f. InFlight(o)
  BY InFlightReconciled
<1>a. /\ InFlight(o)' /\ Kept(o)
      /\ ops[o].ac = "Running" => ops[o].type = "failover" /\ ops[o].step > 0
      /\ ops[o].step \in 0 .. 8
  BY <1>b, <1>f, ReconcileMoves DEF Fills, OwnMove, Compensating, TypeOK, OperationTypeOK, Operation
<1>n. ~Ends(o)
  BY <1>a DEF Ends, InFlight, isInFlightOperationState
<1>r. RolesMove(o)
  BY <1>b, ReconcileMovesInstance DEF InstanceMove
<1>c. ~MayWriteRoles(o) => SecondaryCluster' = SecondaryCluster
  BY <1>r DEF RolesMove, SecondaryCluster
<1>t. /\ Other(SecondaryCluster) = PrimaryCluster /\ Other(Source) = Target
  BY <1>b, TwoClusters
<1>1. CASE SamePc(o)
  <2>1. ~MayWriteRoles(o)
    BY <1>1, <1>a DEF SamePc, MayWriteRoles, Fills, Kept
  <2> QED BY <1>1, <1>a, <1>c, <1>f, <2>1 DEF SamePc, Fills, Kept
<1>2. CASE InitSteps(o) /\ ops'[o].step = 1 /\ ops'[o].ac = ops[o].ac
  <2>1. ops[o].step = 0
    BY <1>2 DEF InitSteps
  <2> QED BY <1>2, <1>a, <2>1 DEF Fills, Kept
<1>3. CASE StepDone(o) /\ ops'[o].step = ops[o].step + 1 /\ ops'[o].ac = ops[o].ac
  <2>1. ops[o].ac # "Running" /\ AtStep(o, "Running") /\ ExecuteStep(ops[o], CurrentName(o), TRUE)
    BY <1>3 DEF StepDone, AtStep
  <2>2. /\ ops[o].type = "failover" /\ ops[o].step = 4 => up'[PrimaryCluster] = {}
        /\ ops[o].type = "cancel" /\ ops[o].step = 1 => up'[Target] = {}
        /\ ops[o].type = "undo" /\ ops[o].step = 1 => up'[PrimaryCluster] = {}
    BY <2>1, <1>b, StepMoves
  <2>3. \/ ops[o].type = "failover" /\ ops[o].step = 4 /\ c = SecondaryCluster'
        \/ ops[o].type = "cancel" /\ ops[o].step = 1 /\ c = Source
        \/ ops[o].type = "undo" /\ ops[o].step = 1 /\ c = SecondaryCluster'
    BY <1>3, <1>a, <2>1 DEF Fills, Kept
  <2>4. ops[o].type # "cancel" => SecondaryCluster' = SecondaryCluster
    BY <1>c, <2>3 DEF MayWriteRoles
  <2> QED BY <1>t, <2>2, <2>3, <2>4
<1>4. CASE ops'[o].ac = "Running" /\ ops'[o].acStep = 1 /\ FailFailoverStep(o)
  BY <1>4, <1>a DEF Fills, Kept, FailFailoverStep
<1>5. CASE /\ AutoCancelStepDone(o) /\ ops'[o].step = ops[o].step
           /\ ops'[o].ac = ops[o].ac /\ ops'[o].acStep = ops[o].acStep + 1
  <2>1. /\ ops[o].ac = "Running" /\ AtAutoCancelStep(o, "Running")
        /\ executeCancelStep(CancelSteps[ops[o].acStep], TRUE)
    BY <1>5 DEF AutoCancelStepDone, AtAutoCancelStep
  <2>2. ops[o].acStep = 1 => up'[Target] = {}
    BY <1>b, <1>f, <2>1, AutoCancelMoves
  <2>3. ops[o].acStep \in 0 .. 4
    BY DEF TypeOK, OperationTypeOK, Operation
  <2>4. ops[o].acStep = 1 /\ c = Source
    BY <1>5, <1>a, <2>1, <2>3 DEF Fills, Kept
  <2> QED BY <1>t, <2>2, <2>4
<1>6. OwnMove(o)
  BY ReconcileMoves
<1> QED BY <1>n, <1>1, <1>2, <1>3, <1>4, <1>5, <1>6 DEF OwnMove

(***************************************************************************)
(* What each step does to all the operations, and to how disciplined the   *)
(* users have been.                                                        *)
(***************************************************************************)

\* A reconciliation of o leaves another operation, or supersedes it.
LEMMA OthersMove ==
  ASSUME TypeOK, NEW o \in Op, ReconcileOperation(o), NEW q \in Op, q # o
  PROVE  /\ ops'[q].type = ops[q].type /\ ops'[q].skipDown = ops[q].skipDown
         /\ ops'[q].late = ops[q].late /\ ops'[q].ac = ops[q].ac /\ ops'[q].role = ops[q].role
         /\ \/ ops'[q] = ops[q]
            \/ ops[q].type = "failover" /\ ops'[q].state = "Failed"
<1>1. OperationsWrite(o)
  BY ReconcileWrites
<1>2. PICK base \in {ops, Superseded(o)} :
        \/ ops' = base
        \/ \E op \in Operation : OwnWrite(o, op) /\ ops' = [base EXCEPT ![o] = op]
  BY <1>1 DEF OperationsWrite
<1>3. ops \in [Op -> Operation] /\ Superseded(o) \in [Op -> Operation]
  BY Untouched DEF TypeOK, OperationTypeOK
<1>4. ops'[q] = ops[q] \/ ops'[q] = Superseded(o)[q]
  BY <1>2, <1>3
<1>5. CASE ops'[q] = ops[q]
  BY <1>5
<1>6. CASE ops'[q] = Superseded(o)[q]
  BY <1>6, Untouched
<1> QED BY <1>4, <1>5, <1>6

\* The first step of a cancel or undo ends the failovers.
LEMMA InitSupersedes ==
  ASSUME TypeOK, NEW o \in Op, InitSteps(o), ops[o].type \in {"cancel", "undo"},
         NEW q \in Op, ops[q].type = "failover"
  PROVE  ~InFlight(q)'
<1>1. Superseded(o) \in [Op -> Operation]
      /\ ~isInFlightOperationState(Superseded(o)[q].state) /\ q # o
  BY Untouched
<1>2. ops'[q] = Superseded(o)[q]
  BY <1>1 DEF InitSteps, WriteOperation
<1> QED BY <1>1, <1>2 DEF InFlight

\* A step of the loop of o was started, and steps only go forward.
LEMMA StepsGoForward ==
  ASSUME TypeOK, Compensating, NEW o \in Op, ReconcileOperation(o), InFlight(o)'
  PROVE  /\ ops'[o].step >= ops[o].step
         /\ ops'[o].step > 0 => ops[o].step > 0 \/ InitSteps(o)
<1>1. OwnMove(o) /\ ~Ends(o)
  BY ReconcileMoves DEF Ends, InFlight, isInFlightOperationState
<1>2. ops[o].step \in 0 .. 8
  BY DEF TypeOK, OperationTypeOK, Operation
<1>3. StepDone(o) => ops[o].step > 0
  BY AtStepNames DEF StepDone
<1>4. InitSteps(o) => ops[o].step = 0
  BY DEF InitSteps
<1> QED BY <1>1, <1>2, <1>3, <1>4 DEF OwnMove, SamePc

\* What users asked for is kept, or new.
TypesKept ==
  \A q \in Op :
    \/ /\ ops'[q].type = ops[q].type /\ ops'[q].skipDown = ops[q].skipDown
       /\ ops'[q].late = ops[q].late
    \/ ops[q].type = "none" /\ ~ops[q].skipDown /\ ~ops[q].late

\* Discipline, once lost, does not come back.
LEMMA DisciplineKept ==
  ASSUME TypesKept
  PROVE  /\ Plain' => Plain
         /\ \A t \in OpType : Submitted(t)' = {} => Submitted(t) = {}
         /\ WithoutUndo' => WithoutUndo
         /\ SingleUndo' => SingleUndo
         /\ Disciplined' => Disciplined
<1>1. Plain' => Plain
  BY DEF TypesKept, Plain
<1>2. ASSUME NEW t \in OpType, Submitted(t)' = {} PROVE Submitted(t) = {}
  <2>1. "none" \notin OpType
    BY DEF OpType
  <2>2. ASSUME NEW q \in Op, ops[q].type = t PROVE FALSE
    <3>1. ops'[q].type = t
      BY <2>1, <2>2 DEF TypesKept
    <3> QED BY <1>2, <3>1 DEF Submitted
  <2> QED BY <2>2 DEF Submitted
<1>3. WithoutUndo' => WithoutUndo
  <2>1. {"undo", "reprotect", "pause", "resume"} \subseteq OpType
    BY DEF OpType
  <2> QED BY <1>2, <2>1 DEF WithoutUndo
<1>4. SingleUndo' => SingleUndo
  <2> SUFFICES ASSUME SingleUndo' PROVE SingleUndo
    OBVIOUS
  <2>1. \A q \in Op : ops[q].type = ops'[q].type \/ ops[q].type = "none"
    BY DEF TypesKept
  <2> QED BY <2>1 DEF SingleUndo
<1>5. Disciplined <=> Plain /\ (WithoutUndo \/ SingleUndo)
  BY DEF Disciplined, Plain, WithoutUndo, SingleUndo
<1>6. Disciplined' <=> Plain' /\ (WithoutUndo' \/ SingleUndo')
  BY DEF Disciplined, Plain, WithoutUndo, SingleUndo
<1> QED BY <1>1, <1>2, <1>3, <1>4, <1>5, <1>6

LEMMA ReconcileKeepsTypes ==
  ASSUME TypeOK, NEW o \in Op, ReconcileOperation(o)
  PROVE  TypesKept
<1>1. Kept(o)
  BY ReconcileMoves DEF OwnMove
<1> QED BY <1>1, OthersMove DEF Kept, TypesKept

\* What the users do to one operation.
Submitting(o) ==
  /\ ops[o].state = "Absent"
  /\ ops'[o].state = "Pending" /\ ops'[o].step = 0 /\ ops'[o].ac = "None"
  /\ ops'[o].late <=> \E q \in Op : InFlight(q) /\ shouldSupersedeOperation(ops[q].type, ops'[o].type)

Deleting(o) ==
  /\ ops'[o].type = ops[o].type /\ ops'[o].skipDown = ops[o].skipDown
  /\ ops'[o].late = ops[o].late
  /\ ops'[o].state = "Deleted" /\ ops'[o].step = 0 /\ ops'[o].ac = "None"

LEMMA UserMoves ==
  ASSUME TypeOK, UserStep
  PROVE  \E o \in Op : /\ \A q \in Op \ {o} : ops'[q] = ops[q]
                       /\ Submitting(o) \/ Deleting(o)
<1>1. PICK o \in Op :
        \/ \E type \in OpType, skip \in {FALSE, AllowSkip} : Submit(o, type, skip)
        \/ DeleteOperation(o)
  BY DEF UserStep
<1>t. ops \in [Op -> Operation]
  BY DEF TypeOK, OperationTypeOK
<1>2. ASSUME NEW type \in OpType, NEW skip \in {FALSE, AllowSkip}, Submit(o, type, skip)
      PROVE  (\A q \in Op \ {o} : ops'[q] = ops[q]) /\ Submitting(o)
  <2> DEFINE late == \E q \in Op : InFlight(q) /\ shouldSupersedeOperation(ops[q].type, type)
             op == [NoOperation EXCEPT !.type = type, !.state = "Pending", !.skipDown = skip,
                      !.late = late]
  <2>1. ops[o].state = "Absent" /\ ops' = [ops EXCEPT ![o] = op]
    BY <1>2 DEF Submit
  <2>2. late \in BOOLEAN
    OBVIOUS
  <2>d. late <=> \E q \in Op : InFlight(q) /\ shouldSupersedeOperation(ops[q].type, type)
    OBVIOUS
  <2> HIDE DEF late
  <2>3. /\ op.type = type /\ op.state = "Pending" /\ op.step = 0 /\ op.ac = "None"
        /\ op.late = late
    BY <2>2 DEF NoOperation
  <2> HIDE DEF op
  <2>4. ops'[o] = op /\ \A q \in Op \ {o} : ops'[q] = ops[q]
    BY <2>1, <1>t
  <2> QED BY <2>1, <2>2, <2>d, <2>3, <2>4 DEF Submitting
<1>3. ASSUME DeleteOperation(o)
      PROVE  (\A q \in Op \ {o} : ops'[q] = ops[q]) /\ Deleting(o)
  BY <1>3, <1>t DEF DeleteOperation, Deleting, NoOperation
<1> QED BY <1>1, <1>2, <1>3

LEMMA UserKeepsTypes ==
  ASSUME TypeOK, Fresh, UserStep
  PROVE  TypesKept
<1>1. PICK o \in Op : /\ \A q \in Op \ {o} : ops'[q] = ops[q]
                      /\ Submitting(o) \/ Deleting(o)
  BY UserMoves
<1> QED BY <1>1 DEF Submitting, Deleting, Fresh, TypesKept

(***************************************************************************)
(* Base is kept by every step.                                             *)
(***************************************************************************)

LEMMA BaseInit == Init => Base
<1> SUFFICES ASSUME Init PROVE Base
  OBVIOUS
<1> USE ClusterAssumption, InstanceAssumption, SystemAssumption
<1>1. ops = [o \in Op |-> NoOperation] /\ \A o \in Op : ops[o] = NoOperation
  BY DEF Init
<1>2. PICK start \in Starts : StartedFrom(start)
  BY DEF Init
<1>3. Fresh /\ Compensating /\ RolesWritten
  BY <1>1 DEF Fresh, Compensating, RolesWritten, Started, InFlight, isInFlightOperationState, NoOperation
<1>4. FailingBackAsked
  BY <1>2 DEF StartedFrom, FailingBackAsked
<1>5. RolesTogether
  BY <1>1, <1>2 DEF StartedFrom, RolesTogether, NoOperation, NoRole, Other, Cluster
<1> QED BY <1>3, <1>4, <1>5 DEF Base

\* A reconciliation does not bring back the time before handlePending.
LEMMA PastStays ==
  ASSUME TypeOK, Compensating, Past, NEW o \in Op, ReconcileOperation(o)
  PROVE  Past'
<1>1. InstanceMove(o)
  BY ReconcileMovesInstance
<1>2. InstanceWrite
  BY ReconcileWrites
<1> QED BY <1>1, <1>2 DEF InstanceMove, FsmMove, InstanceWrite, Past

LEMMA BaseReconcile ==
  ASSUME IInv, Base, NEW o \in Op, ReconcileOperation(o)
  PROVE  Base'
<1>a. TypeOK /\ Fresh /\ Compensating /\ RolesWritten /\ FailingBackAsked /\ RolesTogether
  BY DEF IInv, Base
<1>m. OwnMove(o) /\ InFlight(o)
  BY <1>a, ReconcileMoves, InFlightReconciled
<1>i. InstanceMove(o)
  BY <1>a, ReconcileMovesInstance
<1>o. ASSUME NEW q \in Op, q # o
      PROVE  ops'[q] = ops[q] \/ ops'[q].state = "Failed"
  BY <1>a, <1>o, OthersMove
<1>1. Fresh'
  BY <1>a, <1>m, <1>o DEF Fresh, OwnMove, Kept
<1>2. Compensating'
  <2> SUFFICES ASSUME NEW q \in Op, InFlight(q)'
               PROVE  \/ ops'[q].ac = "None"
                      \/ ops'[q].ac = "Running" /\ ops'[q].type = "failover" /\ ops'[q].step > 0
    BY DEF Compensating
  <2>1. CASE q # o
    <3>1. ops'[q] = ops[q]
      BY <1>o, <2>1 DEF InFlight, isInFlightOperationState
    <3>2. InFlight(q)
      BY <3>1 DEF InFlight
    <3> QED BY <1>a, <3>1, <3>2 DEF Compensating
  <2>2. CASE q = o
    <3>1. ~Ends(o) /\ Kept(o)
      BY <1>m, <2>2 DEF Ends, InFlight, isInFlightOperationState, OwnMove
    <3>2. ops[o].ac = "None" \/ (ops[o].ac = "Running" /\ ops[o].type = "failover" /\ ops[o].step > 0)
      BY <1>a, <1>m DEF Compensating
    <3>3. ops[o].step \in 0 .. 8
      BY <1>a DEF TypeOK, OperationTypeOK, Operation
    <3>4. FailFailoverStep(o) => ops[o].type = "failover" /\ ops[o].step > 0
      BY <1>a, AtStepNames DEF FailFailoverStep
    <3> QED BY <1>m, <2>2, <3>1, <3>2, <3>3, <3>4 DEF OwnMove, SamePc, Kept
  <2> QED BY <2>1, <2>2
<1>3. RolesWritten'
  <2> SUFFICES ASSUME NEW q \in Op, Started(q)', ops'[q].type \in {"failover", "undo"}
               PROVE  Past'
    BY DEF RolesWritten
  <2>1. CASE q # o
    <3>1. ops'[q] = ops[q]
      BY <1>o, <2>1 DEF Started, InFlight, isInFlightOperationState
    <3>2. Started(q)
      BY <3>1 DEF Started, InFlight
    <3> QED BY <1>a, <3>1, <3>2, PastStays DEF RolesWritten
  <2>2. CASE q = o
    <3>1. ops[o].step > 0 \/ InitSteps(o)
      BY <1>a, <2>2, StepsGoForward DEF Started
    <3>2. ops[o].type \in {"failover", "undo"}
      BY <1>m, <2>2 DEF OwnMove, Kept
    <3>3. CASE ops[o].step > 0
      BY <1>a, <1>m, <3>2, <3>3, PastStays DEF Started, RolesWritten
    <3>4. CASE InitSteps(o)
      <4>1. inst.fsm \in {"Protected", "FailingOver", "Active"}
        BY <3>2, <3>4 DEF InitSteps, Admitted, AdmittedFsm
      <4>2. Past
        BY <4>1 DEF Past
      <4> QED BY <1>a, <4>2, PastStays
    <3> QED BY <3>1, <3>3, <3>4
  <2> QED BY <2>1, <2>2
<1>4. FailingBackAsked'
  <2> SUFFICES ASSUME Submitted("reprotect")' = {} PROVE inst'.fsm # "FailingBack"
    BY DEF FailingBackAsked
  <2>1. ops[o].type # "reprotect"
    BY <1>m DEF OwnMove, Kept, Submitted
  <2>2. Submitted("reprotect") = {}
    <3>1. "reprotect" \in OpType
      BY DEF OpType
    <3>2. TypesKept
      BY <1>a, ReconcileKeepsTypes
    <3> QED BY <3>1, <3>2, DisciplineKept
  <2> QED BY <1>a, <1>i, <2>1, <2>2 DEF InstanceMove, FsmMove, FailingBackAsked
<1>5. RolesTogether'
  <2>1. InstanceWrite /\ OperationsWrite(o)
    BY <1>a, ReconcileWrites
  <2>2. \A q \in Op : ops'[q].role \in {ops[q].role, RoleStatus(inst), RoleStatus(inst')}
    BY <1>a, <2>1, OperationsWritten
  <2>3. inst'.primary = NoCluster <=> inst'.secondary = NoCluster
    BY <1>a, <2>1, InstanceAssumption DEF InstanceWrite, RolesTogether, Cluster
  <2> QED BY <1>a, <2>2, <2>3 DEF RolesTogether, RoleStatus
<1> QED BY <1>1, <1>2, <1>3, <1>4, <1>5 DEF Base

\* The instance handlers: when they write roles, and what they leave.
LEMMA HandlersMove ==
  ASSUME TypeOK, ConfigErrorRemembers, ReconcileInstance
  PROVE  /\ inst'.fsm \notin {"FailingOver", "FailingBack"}
         /\ Past => Past'
         /\ inst.fsm = "FailingOver" =>
              \A q \in Op : ops[q].type = "failover" => ~InFlight(q)
         /\ \/ inst'.primary = inst.primary /\ inst'.secondary = inst.secondary
            \/ inst.fsm \in {"Pending", "FailingBack"}
            \/ /\ inst.fsm = "FailingOver"
               /\ \E q \in Op :
                    /\ ops[q].type = "failover"
                    /\ ops[q].ac = "Succeeded" \/ ops[q].state = "Completed"
                    /\ RoleStatus(inst') = ops[q].role
<1> USE DEF TypeOK, InstanceTypeOK, InstanceStatus, FsmState, Reason, To, ToFailed
<1>1. CASE guardByConfigHealth
  <2>1. CASE /\ inst.fsm # "ConfigError" /\ isConfigGuardManagedState(inst.fsm)
             /\ inst' = [To(inst, "ConfigError") EXCEPT !.lastStable = inst.fsm]
    BY <2>1 DEF isConfigGuardManagedState, Past
  <2>2. CASE /\ inst.fsm = "ConfigError"
             /\ inst' = [To(inst, inst.lastStable) EXCEPT !.lastStable = ""]
    BY <2>2 DEF ConfigErrorRemembers, Past
  <2> QED BY <1>1, <2>1, <2>2 DEF guardByConfigHealth
<1>2. CASE handlePending
  BY <1>2 DEF handlePending, Past
<1>3. CASE handleInitializing
  BY <1>3 DEF handleInitializing, Past
<1>4. CASE handleProtected \/ handleActive
  BY <1>4 DEF handleProtected, handleActive, SteadyFailure, Past
<1>5. CASE handleFailed
  BY <1>5 DEF handleFailed, resolveRecoveredSteadyState, Past
<1>r. ASSUME NEW q \in Op, NEW st \in {"Protected", "Active"},
             inst' = WithRoles(To(inst, st), ops[q].role)
      PROVE  /\ inst'.fsm = st
             /\ \/ inst'.primary = inst.primary /\ inst'.secondary = inst.secondary
                \/ RoleStatus(inst') = ops[q].role
  <2> DEFINE r == ops[q].role
  <2>1. r \in [primary : Cluster \cup {NoCluster}, secondary : Cluster \cup {NoCluster}]
    BY DEF OperationTypeOK, Operation
  <2>2. r = [primary |-> r.primary, secondary |-> r.secondary]
    BY <2>1
  <2> HIDE DEF r
  <2>3. \/ inst' = To(inst, st)
        \/ inst' = [To(inst, st) EXCEPT !.primary = r.primary, !.secondary = r.secondary]
    BY <1>r DEF WithRoles, r
  <2>4. inst'.fsm = st /\ ((inst'.primary = inst.primary /\ inst'.secondary = inst.secondary)
                           \/ RoleStatus(inst') = r)
    BY <2>1, <2>2, <2>3 DEF RoleStatus
  <2> QED BY <2>4 DEF r
<1>6. CASE handleFailingOver(RunningOf("failover"), LatestTerminal("failover"))
  <2>1. /\ inst.fsm = "FailingOver"
        /\ \A q \in Op : ops[q].type = "failover" => ~InFlight(q)
    BY <1>6 DEF handleFailingOver, RunningOf
  <2>2. \/ inst' \in {ToFailed(inst, "OperationMissing"), ToFailed(inst, "OperationFailed"),
                      To(inst, "Protected")}
        \/ \E op \in LatestTerminal("failover"), st \in {"Protected", "Active"} :
             /\ op.ac = "Succeeded" \/ op.state = "Completed"
             /\ inst' = WithRoles(To(inst, st), op.role)
    BY <1>6 DEF handleFailingOver
  <2>3. CASE inst' \in {ToFailed(inst, "OperationMissing"), ToFailed(inst, "OperationFailed"),
                        To(inst, "Protected")}
    BY <2>1, <2>3 DEF Past
  <2>4. ASSUME NEW op \in LatestTerminal("failover"), NEW st \in {"Protected", "Active"},
               op.ac = "Succeeded" \/ op.state = "Completed",
               inst' = WithRoles(To(inst, st), op.role)
        PROVE  /\ inst'.fsm = st
               /\ \/ inst'.primary = inst.primary /\ inst'.secondary = inst.secondary
                  \/ \E q \in Op : /\ ops[q].type = "failover"
                                   /\ ops[q].ac = "Succeeded" \/ ops[q].state = "Completed"
                                   /\ RoleStatus(inst') = ops[q].role
    <3>1. PICK q \in Op : op = ops[q] /\ ops[q].type = "failover"
      BY <2>4 DEF LatestTerminal
    <3> QED BY <2>4, <3>1, <1>r
  <2> QED BY <2>1, <2>2, <2>3, <2>4 DEF Past
<1>7. CASE handleFailingBack(RunningOf("reprotect"), LatestTerminal("reprotect"))
  <2>1. inst.fsm = "FailingBack"
    BY <1>7 DEF handleFailingBack
  <2>2. \/ inst' \in {ToFailed(inst, "OperationMissing"), ToFailed(inst, "OperationFailed")}
        \/ \E op \in LatestTerminal("reprotect") : inst' = WithRoles(To(inst, "Protected"), op.role)
    BY <1>7 DEF handleFailingBack
  <2>3. inst'.fsm \in {"Failed", "Protected"}
    <3>1. ASSUME NEW op \in LatestTerminal("reprotect"), inst' = WithRoles(To(inst, "Protected"), op.role)
          PROVE  inst'.fsm = "Protected"
      <4>1. PICK q \in Op : op = ops[q]
        BY <3>1 DEF LatestTerminal
      <4> QED BY <3>1, <4>1, <1>r
    <3> QED BY <2>2, <3>1
  <2> QED BY <2>1, <2>3 DEF Past
<1> QED BY <1>1, <1>2, <1>3, <1>4, <1>5, <1>6, <1>7 DEF ReconcileInstance

(***************************************************************************)
(* Scaling is kept by every step of disciplined users.                     *)
(***************************************************************************)

\* An operation that fills a cluster was admitted, and fills no other.
LEMMA FillsStarted ==
  ASSUME TypeOK, Compensating, NEW o \in Op, NEW c \in Cluster, Fills(o, c)
  PROVE  /\ Started(o) /\ ops[o].type \in {"failover", "cancel", "undo"}
         /\ ops[o].type = "cancel" => c = Source
         /\ \A d \in Cluster : Fills(o, d) => c = d
<1>1. ops[o].step \in 0 .. 8
  BY DEF TypeOK, OperationTypeOK, Operation
<1>2. ops[o].ac = "Running" => ops[o].step > 0
  BY DEF Compensating, Fills
<1> QED BY <1>1, <1>2 DEF Fills, Started

\* Two operations in flight that write roles or fill clusters are one, or both
\* cancels: a failover is exclusive, a cancel or undo has superseded it, and
\* disciplined users do not undo what they cancel.
LEMMA OneAtWork ==
  ASSUME FailoverExclusive, Superseding, Disciplined, NEW o \in Op, NEW q \in Op,
         Started(o), Started(q), ops[o].type \in {"failover", "cancel", "undo"},
         ops[q].type \in {"failover", "cancel", "undo"}
  PROVE  o = q \/ (ops[o].type = "cancel" /\ ops[q].type = "cancel")
<1>1. CASE ops[o].type = "failover" /\ ops[q].type = "failover"
  BY <1>1 DEF FailoverExclusive, Started
<1>2. CASE /\ ops[o].type = "failover" \/ ops[q].type = "failover"
           /\ ops[o].type \in {"cancel", "undo"} \/ ops[q].type \in {"cancel", "undo"}
  BY <1>2 DEF Superseding, Started
<1>3. CASE ops[o].type \in {"cancel", "undo"} /\ ops[q].type \in {"cancel", "undo"}
  BY <1>3 DEF Disciplined, SingleUndo, Submitted
<1> QED BY <1>1, <1>2, <1>3

LEMMA ScalingReconcile ==
  ASSUME IInv, Base, Disciplined, Scaling, NEW o \in Op, ReconcileOperation(o), Base'
  PROVE  Scaling'
<1>a. /\ TypeOK /\ RolesDistinct /\ FailoverExclusive /\ Compensating /\ RolesTogether
      /\ Apart /\ RoomToFill /\ Superseding /\ InFailingOver
      /\ (SingleUndo => WatchdogKeepsRoles) /\ Plain
  BY DEF IInv, Base, Scaling, Disciplined, Plain
<1>m. OwnMove(o) /\ InFlight(o) /\ Kept(o)
  BY <1>a, ReconcileMoves, InFlightReconciled DEF OwnMove
<1>i. InstanceMove(o)
  BY <1>a, ReconcileMovesInstance
<1>u. UpMove(o)
  BY <1>a, ReconcileScales
<1>t. Other(Source) = Target /\ Other(Target) = Source
  BY <1>a, TwoClusters
<1>k. TypesKept
  BY <1>a, ReconcileKeepsTypes
<1>s. ops[o].step \in 0 .. 8
  BY <1>a DEF TypeOK, OperationTypeOK, Operation
<1>o. ASSUME NEW q \in Op, q # o, InFlight(q)'
      PROVE  ops'[q] = ops[q] /\ InFlight(q)
  BY <1>a, <1>o, OthersMove DEF InFlight, isInFlightOperationState
<1>w. MayWriteRoles(o) => Started(o) /\ ops[o].type \in {"failover", "undo"}
  BY <1>m DEF MayWriteRoles, Started
\* The clusters that are scaled up: what o fills stays alone.
<1>f. ASSUME NEW c \in Cluster, Fills(o, c) PROVE up'[Other(c)] = {}
  <2>1. up[Other(c)] = {} /\ Other(c) \in Cluster /\ Other(c) # c
    BY <1>a, <1>f, <1>t, ClusterAssumption DEF RoomToFill, Cluster
  <2>2. ~Fills(o, Other(c))
    BY <1>a, <1>f, <2>1, FillsStarted
  <2>3. up'[Other(c)] \subseteq up[Other(c)]
    BY <1>u, <2>1, <2>2 DEF UpMove
  <2> QED BY <2>1, <2>3
<1>1. Apart'
  <2>1. Source \in Cluster /\ Target \in Cluster
    BY DEF Cluster
  <2>2. CASE Fills(o, Source) \/ Fills(o, Target)
    BY <1>f, <1>t, <2>1, <2>2 DEF Apart
  <2>3. CASE ~Fills(o, Source) /\ ~Fills(o, Target)
    <3>1. up'[Source] \subseteq up[Source] /\ up'[Target] \subseteq up[Target]
      BY <1>u, <2>1, <2>3 DEF UpMove
    <3> QED BY <1>a, <3>1 DEF Apart
  <2> QED BY <2>2, <2>3
<1>2. RoomToFill'
  <2> SUFFICES ASSUME NEW q \in Op, NEW c \in Cluster, Fills(q, c)'
               PROVE  up'[Other(c)] = {}
    BY DEF RoomToFill, Cluster, Other
  <2>1. CASE q = o
    BY <1>a, <1>f, <2>1, Arrivals DEF Scaling
  <2>2. CASE q # o
    <3>1. ops'[q] = ops[q] /\ InFlight(q)
      BY <1>o, <2>2 DEF Fills
    <3>2. Started(q) /\ ops[q].type \in {"failover", "cancel", "undo"}
      <4>1. ops[q].ac = "Running" => ops[q].step > 0
        BY <1>a, <3>1 DEF Compensating
      <4> QED BY <3>1, <4>1 DEF Fills, Started
    <3>3. Fills(q, c)
      <4>1. CASE ops[q].type = "cancel"
        BY <3>1, <4>1 DEF Fills
      <4>2. CASE ops[q].type # "cancel"
        <5>1. ~MayWriteRoles(o)
          BY <1>a, <1>w, <2>2, <3>2, <4>2, OneAtWork
        <5>2. SecondaryCluster' = SecondaryCluster
          BY <1>i, <5>1 DEF InstanceMove, RolesMove, SecondaryCluster
        <5> QED BY <3>1, <5>2 DEF Fills
      <4> QED BY <4>1, <4>2
    <3>4. up[Other(c)] = {} /\ Other(c) \in Cluster
      BY <1>a, <1>t, <3>3 DEF RoomToFill, Cluster
    <3>5. ~Fills(o, Other(c))
      <4> SUFFICES ASSUME Fills(o, Other(c)) PROVE FALSE
        OBVIOUS
      <4>1. /\ Started(o) /\ ops[o].type \in {"failover", "cancel", "undo"}
            /\ ops[o].type = "cancel" => Other(c) = Source
        BY <1>a, <3>4, FillsStarted
      <4>2. ops[q].type = "cancel" => c = Source
        BY <1>a, <3>3, FillsStarted
      <4>3. ops[o].type = "cancel" /\ ops[q].type = "cancel"
        BY <1>a, <2>2, <3>2, <4>1, OneAtWork
      <4> QED BY <1>t, <4>1, <4>2, <4>3, ClusterAssumption
    <3>6. up'[Other(c)] \subseteq up[Other(c)]
      BY <1>u, <3>4, <3>5 DEF UpMove
    <3> QED BY <3>4, <3>6
  <2> QED BY <2>1, <2>2
<1>3. Superseding'
  <2> SUFFICES ASSUME NEW p \in Op, NEW q \in Op, Started(p)', ops'[p].type \in {"cancel", "undo"},
                      ops'[q].type = "failover"
               PROVE  ~InFlight(q)'
    BY DEF Superseding
  <2>1. ops[q].type = "failover" /\ ops[p].type = ops'[p].type
    BY <1>a, <1>m, OthersMove DEF Kept
  <2>2. InFlight(q)' => InFlight(q)
    BY <1>m, <1>o
  <2>3. CASE p # o
    <3>1. Started(p)
      BY <1>o, <2>3 DEF Started
    <3> QED BY <1>a, <2>1, <2>2, <3>1 DEF Superseding
  <2>4. CASE p = o
    <3>1. ops[o].step > 0 \/ InitSteps(o)
      BY <1>a, <2>4, StepsGoForward DEF Started
    <3>2. CASE ops[o].step > 0
      BY <1>a, <1>m, <2>1, <2>2, <2>4, <3>2 DEF Superseding, Started
    <3>3. CASE InitSteps(o)
      BY <1>a, <2>1, <2>4, <3>3, InitSupersedes
    <3> QED BY <3>1, <3>2, <3>3
  <2> QED BY <2>3, <2>4
<1>4. InFailingOver'
  <2> SUFFICES ASSUME (Submitted("pause") \cup Submitted("resume"))' = {},
                      NEW q \in Op, InFlight(q)', ops'[q].type = "failover",
                      ops'[q].ac # "Running", ops'[q].step = 5
               PROVE  inst'.fsm = "FailingOver"
    BY DEF InFailingOver
  <2>1. Submitted("pause") \cup Submitted("resume") = {}
    <3>1. "pause" \in OpType /\ "resume" \in OpType
      BY DEF OpType
    <3> QED BY <1>k, <3>1, DisciplineKept
  <2>2. ops[o].type \notin {"pause", "resume"}
    BY <2>1 DEF Submitted
  <2>3. ops[q].type = "failover"
    BY <1>a, <1>m, OthersMove DEF Kept
  <2>4. CASE q # o
    <3>1. ops'[q] = ops[q] /\ InFlight(q)
      BY <1>o, <2>4
    <3>2. inst.fsm = "FailingOver"
      BY <1>a, <2>1, <3>1 DEF InFailingOver
    <3>3. ~MayLeave(o)
      <4>1. ops[o].type = "failover" => Conflict(o)
        BY <2>3, <2>4, <3>1 DEF Conflict, findOtherInFlightOperation
      <4>2. ~(ops[o].type \in {"cancel", "undo"} /\ ops[o].step > 0)
        BY <1>a, <1>m, <2>3, <3>1 DEF Superseding, Started
      <4> QED BY <2>2, <4>1, <4>2 DEF MayLeave
    <3> QED BY <1>i, <3>2, <3>3 DEF InstanceMove, FsmMove
  <2>5. CASE q = o
    <3>1. ~Ends(o)
      BY <2>5 DEF Ends, InFlight, isInFlightOperationState
    <3>2. CASE SamePc(o)
      <4>1. AtScaleUp(o) /\ inst.fsm = "FailingOver"
        BY <1>a, <1>m, <2>1, <2>3, <2>5, <3>2 DEF SamePc, AtScaleUp, InFailingOver
      <4>2. ~MayLeave(o)
        BY <2>2, <4>1 DEF MayLeave, AtScaleUp
      <4> QED BY <1>i, <4>1, <4>2 DEF InstanceMove, FsmMove
    <3>3. CASE StepDone(o)
      <4>1. inst' = Entered("failover") /\ inst.fsm \in AdmittedFsm("failover")
        BY <2>3, <2>5, <3>3 DEF StepDone, SwitchedBack, AtStep, Admitted
      <4> QED BY <1>a, <2>3, <2>5, <4>1, EnteredMove
    <3>4. CASE AutoCancelStepDone(o) /\ ops'[o].ac = ops[o].ac
      BY <2>5, <3>4 DEF AutoCancelStepDone, AtAutoCancelStep
    <3> QED BY <1>m, <2>5, <3>1, <3>2, <3>3, <3>4 DEF OwnMove
  <2> QED BY <2>4, <2>5
<1>5. SingleUndo' => WatchdogKeepsRoles'
  <2> SUFFICES ASSUME SingleUndo', NEW q \in Op, ops'[q].type = "failover", inst'.fsm = "FailingOver"
               PROVE  /\ ops'[q].state # "Completed"
                      /\ ops'[q].ac = "Succeeded" /\ UndoToCome' => ops'[q].role = RoleStatus(inst')
    BY DEF WatchdogKeepsRoles
  <2>1. SingleUndo /\ WatchdogKeepsRoles
    BY <1>a, <1>k, DisciplineKept
  <2>2. ops[q].type = "failover"
    BY <1>a, <1>m, OthersMove DEF Kept
  <2>3. CASE q = o
    <3>1. CASE Ends(o)
      <4>1. ops[o].ac # "Succeeded"
        BY <1>a, <1>m DEF Compensating
      <4> QED BY <2>2, <2>3, <3>1, <4>1 DEF Ends
    <3>2. CASE InFlight(o)'
      BY <2>3, <3>2 DEF Base, Compensating, InFlight, isInFlightOperationState
    <3> QED BY <1>m, <3>1, <3>2 DEF OwnMove
  <2>4. CASE q # o
    <3>1. ops[o].type # "failover"
      BY <2>1, <2>2, <2>4 DEF SingleUndo
    <3>2. inst.fsm = "FailingOver"
      BY <1>i, <3>1 DEF InstanceMove, FsmMove
    <3>3. /\ ops'[q].ac = ops[q].ac /\ ops'[q].role = ops[q].role
          /\ ops'[q] = ops[q] \/ ops'[q].state = "Failed"
      BY <1>a, <2>4, OthersMove
    <3>4. ops'[q].state # "Completed"
      BY <2>1, <2>2, <3>2, <3>3 DEF WatchdogKeepsRoles
    <3>5. ASSUME ops[q].ac = "Succeeded", UndoToCome' PROVE ops[q].role = RoleStatus(inst')
      <4>1. ASSUME NEW p \in Op, ops[p].type = "undo" PROVE InFlight(p) /\ ops[p].step <= 2
        <5>1. ops'[p].type = "undo"
          BY <1>a, <1>m, <4>1, OthersMove DEF Kept
        <5>2. InFlight(p)' /\ ops'[p].step <= 2
          BY <3>5, <5>1 DEF UndoToCome
        <5>3. CASE p # o
          BY <1>o, <5>2, <5>3
        <5>4. CASE p = o
          <6>1. ops'[o].step >= ops[o].step
            BY <1>a, <5>2, <5>4, StepsGoForward
          <6>2. ops'[o].step \in Nat
            <7>1. OwnMove(o) /\ ~Ends(o)
              BY <1>m, <5>2, <5>4 DEF Ends, InFlight, isInFlightOperationState
            <7> QED BY <1>s, <7>1 DEF OwnMove, SamePc
          <6> QED BY <1>m, <1>s, <5>2, <5>4, <6>1, <6>2
        <5> QED BY <5>3, <5>4
      <4>2. ops[q].role = RoleStatus(inst)
        BY <2>1, <2>2, <3>2, <3>5, <4>1 DEF WatchdogKeepsRoles, UndoToCome
      <4>3. ~MayWriteRoles(o)
        BY <1>s, <3>1, <4>1 DEF MayWriteRoles
      <4> QED BY <1>i, <4>2, <4>3 DEF InstanceMove, RolesMove, RoleStatus
    <3> QED BY <3>3, <3>4, <3>5
  <2> QED BY <2>3, <2>4
<1> QED BY <1>1, <1>2, <1>3, <1>4, <1>5 DEF Scaling

LEMMA ScalingInstance ==
  ASSUME IInv, Base, Disciplined, Scaling, ReconcileInstance
  PROVE  Scaling'
<1>a. /\ TypeOK /\ RolesDistinct /\ ConfigErrorRemembers /\ Compensating /\ RolesTogether
      /\ RolesWritten /\ FailingBackAsked
      /\ Apart /\ RoomToFill /\ Superseding /\ InFailingOver
      /\ (SingleUndo => WatchdogKeepsRoles)
  BY DEF IInv, Base, Scaling
<1>u. UNCHANGED <<up, ops>>
  BY <1>a, InstanceHandlers
<1>h. /\ inst'.fsm \notin {"FailingOver", "FailingBack"}
      /\ inst.fsm = "FailingOver" =>
           \A q \in Op : ops[q].type = "failover" => ~InFlight(q)
      /\ \/ inst'.primary = inst.primary /\ inst'.secondary = inst.secondary
         \/ inst.fsm \in {"Pending", "FailingBack"}
         \/ /\ inst.fsm = "FailingOver"
            /\ \E q \in Op :
                 /\ ops[q].type = "failover"
                 /\ ops[q].ac = "Succeeded" \/ ops[q].state = "Completed"
                 /\ RoleStatus(inst') = ops[q].role
  BY <1>a, HandlersMove
<1>1. Apart'
  BY <1>a, <1>u DEF Apart
<1>2. RoomToFill'
  <2> SUFFICES ASSUME NEW q \in Op, NEW c \in Cluster, Fills(q, c)'
               PROVE  up[Other(c)] = {}
    BY <1>u DEF RoomToFill, Cluster, Other
  <2>0. InFlight(q)
    BY <1>u DEF Fills, InFlight
  <2>1. CASE inst'.primary = inst.primary /\ inst'.secondary = inst.secondary
    <3>1. Fills(q, c)
      BY <1>u, <2>0, <2>1 DEF Fills, SecondaryCluster
    <3> QED BY <1>a, <3>1 DEF RoomToFill
  <2>2. CASE ops[q].type = "cancel" \/ ops[q].ac = "Running"
    <3>1. Fills(q, c)
      <4>1. ops[q].ac = "Running" => ops[q].type = "failover"
        BY <1>a, <2>0 DEF Compensating
      <4> QED BY <1>u, <2>0, <2>2, <4>1 DEF Fills
    <3> QED BY <1>a, <3>1 DEF RoomToFill
  <2>3. CASE /\ ~(inst'.primary = inst.primary /\ inst'.secondary = inst.secondary)
             /\ ops[q].type # "cancel" /\ ops[q].ac # "Running"
    <3>1. \/ AtScaleUp(q)
          \/ ops[q].type = "undo" /\ ops[q].step = 2
      BY <1>u, <2>3 DEF Fills, AtScaleUp
    <3>2. inst.fsm # "Pending"
      BY <1>a, <2>0, <3>1 DEF AtScaleUp, RolesWritten, Started, Past
    <3>3. inst.fsm # "FailingBack"
      <4> SUFFICES ASSUME inst.fsm = "FailingBack" PROVE FALSE
        OBVIOUS
      <4>1. Submitted("reprotect") # {}
        BY <1>a DEF FailingBackAsked
      <4>2. Submitted("undo") = {} /\ Submitted("pause") \cup Submitted("resume") = {}
        BY <4>1 DEF Disciplined, SingleUndo, Submitted
      <4>3. AtScaleUp(q)
        BY <3>1, <4>2 DEF Submitted
      <4> QED BY <1>a, <2>0, <4>2, <4>3 DEF InFailingOver, AtScaleUp
    <3>4. inst.fsm = "FailingOver"
      BY <1>h, <2>3, <3>2, <3>3
    <3>5. ops[q].type = "undo" /\ ops[q].step = 2
      BY <1>h, <2>0, <3>1, <3>4 DEF AtScaleUp
    <3>6. SingleUndo
      BY <3>5 DEF Disciplined, SingleUndo, Submitted
    <3>7. UndoToCome
      BY <2>0, <3>5, <3>6 DEF SingleUndo, UndoToCome
    <3>8. PICK p \in Op :
            /\ (ops[p].type = "failover" /\ ops[p].ac = "Succeeded") \/ ops[p].state = "Completed"
            /\ RoleStatus(inst') = ops[p].role
      BY <1>h, <2>3, <3>2, <3>3
    <3>9. RoleStatus(inst') = RoleStatus(inst)
      BY <1>a, <1>h, <2>3, <3>4, <3>6, <3>7 DEF WatchdogKeepsRoles
    <3> QED BY <2>3, <3>9 DEF RoleStatus
  <2> QED BY <2>1, <2>2, <2>3
<1>3. Superseding'
  BY <1>a, <1>u DEF Superseding, Started, InFlight
<1>4. InFailingOver'
  BY <1>a, <1>h, <1>u DEF InFailingOver, InFlight, Submitted
<1>5. WatchdogKeepsRoles'
  BY <1>h DEF WatchdogKeepsRoles
<1> QED BY <1>1, <1>2, <1>3, <1>4, <1>5 DEF Scaling

LEMMA ScalingUser ==
  ASSUME IInv, Base, Plain', Scaling, UserStep
  PROVE  Scaling'
<1>a. /\ TypeOK /\ Fresh
      /\ Apart /\ RoomToFill /\ Superseding /\ InFailingOver
      /\ (SingleUndo => WatchdogKeepsRoles)
  BY DEF IInv, Base, Scaling
<1>u. UNCHANGED <<up, inst>>
  BY <1>a, UserWrites
<1>p. PICK o \in Op : /\ \A q \in Op \ {o} : ops'[q] = ops[q]
                      /\ Submitting(o) \/ Deleting(o)
  BY <1>a, UserMoves
<1>o. /\ ops'[o].step = 0 /\ ops'[o].ac = "None" /\ ops'[o].state \in {"Pending", "Deleted"}
  BY <1>p DEF Submitting, Deleting
<1>k. TypesKept
  BY <1>a, UserKeepsTypes
<1>s. ASSUME NEW q \in Op, q # o PROVE ops'[q] = ops[q] /\ (InFlight(q)' <=> InFlight(q))
  BY <1>p, <1>s DEF InFlight
<1>1. Apart'
  BY <1>a, <1>u DEF Apart
<1>2. RoomToFill'
  <2> SUFFICES ASSUME NEW q \in Op, NEW c \in Cluster, Fills(q, c)'
               PROVE  up[Other(c)] = {}
    BY <1>u DEF RoomToFill, Cluster, Other
  <2>1. q # o
    BY <1>o DEF Fills
  <2>2. Fills(q, c)
    BY <1>s, <1>u, <2>1 DEF Fills, SecondaryCluster
  <2> QED BY <1>a, <2>2 DEF RoomToFill
<1>3. Superseding'
  <2> SUFFICES ASSUME NEW p \in Op, NEW q \in Op, Started(p)', ops'[p].type \in {"cancel", "undo"},
                      ops'[q].type = "failover", InFlight(q)'
               PROVE  FALSE
    BY DEF Superseding
  <2>1. p # o
    BY <1>o DEF Started
  <2>2. ops'[p] = ops[p] /\ Started(p) /\ InFlight(p)
    BY <1>s, <2>1 DEF Started
  <2>3. CASE q # o
    BY <1>a, <1>s, <2>2, <2>3 DEF Superseding
  <2>4. CASE q = o
    <3>1. Submitting(o)
      BY <1>p, <2>4 DEF Deleting, InFlight, isInFlightOperationState
    <3>2. ops'[o].late
      BY <2>2, <2>4, <3>1 DEF Submitting, shouldSupersedeOperation
    <3> QED BY <3>2 DEF Plain
  <2> QED BY <2>3, <2>4
<1>4. InFailingOver'
  <2> SUFFICES ASSUME (Submitted("pause") \cup Submitted("resume"))' = {},
                      NEW q \in Op, InFlight(q)', ops'[q].type = "failover",
                      ops'[q].ac # "Running", ops'[q].step = 5
               PROVE  inst.fsm = "FailingOver"
    BY <1>u DEF InFailingOver
  <2>1. Submitted("pause") \cup Submitted("resume") = {}
    <3>1. "pause" \in OpType /\ "resume" \in OpType
      BY DEF OpType
    <3> QED BY <1>k, <3>1, DisciplineKept
  <2>2. q # o
    BY <1>o
  <2> QED BY <1>a, <1>s, <2>1, <2>2 DEF InFailingOver
<1>5. SingleUndo' => WatchdogKeepsRoles'
  <2> SUFFICES ASSUME SingleUndo', NEW q \in Op, ops'[q].type = "failover", inst'.fsm = "FailingOver"
               PROVE  /\ ops'[q].state # "Completed"
                      /\ ops'[q].ac = "Succeeded" /\ UndoToCome' => ops'[q].role = RoleStatus(inst')
    BY DEF WatchdogKeepsRoles
  <2>1. WatchdogKeepsRoles
    BY <1>a, <1>k, DisciplineKept
  <2>2. CASE q = o
    BY <1>o, <2>2
  <2>3. CASE q # o
    <3>1. UndoToCome' => UndoToCome
      <4> SUFFICES ASSUME UndoToCome', NEW p \in Op, ops[p].type = "undo"
                   PROVE  InFlight(p) /\ ops[p].step <= 2
        BY DEF UndoToCome
      <4>1. CASE p # o
        BY <1>s, <4>1 DEF UndoToCome
      <4>2. CASE p = o
        <5>1. ~Submitting(o)
          BY <1>a, <4>2 DEF Submitting, Fresh
        <5>2. ops'[o].type = "undo" /\ ~InFlight(o)'
          BY <1>p, <4>2, <5>1 DEF Deleting, InFlight, isInFlightOperationState
        <5> QED BY <5>2 DEF UndoToCome
      <4> QED BY <4>1, <4>2
    <3> QED BY <1>s, <1>u, <2>1, <2>3, <3>1 DEF WatchdogKeepsRoles
  <2> QED BY <2>2, <2>3
<1> QED BY <1>1, <1>2, <1>3, <1>4, <1>5 DEF Scaling

\* The rest of the steps: what else Base and Scaling could depend on.
LEMMA OtherSteps ==
  ASSUME DInv, UNCHANGED <<up, inst, ops>>
  PROVE  DInv'
BY DEF DInv, Base, Fresh, Compensating, RolesWritten, Past, FailingBackAsked, RolesTogether,
       Started, InFlight, Submitted, Disciplined, Scaling, Apart, RoomToFill, Fills,
       SecondaryCluster, Superseding, InFailingOver, SingleUndo, WatchdogKeepsRoles, UndoToCome,
       RoleStatus

\* Base, for the steps that are not reconciliations of operations.
LEMMA BaseInstance ==
  ASSUME IInv, Base, ReconcileInstance
  PROVE  Base'
<1>a. /\ TypeOK /\ ConfigErrorRemembers /\ Fresh /\ Compensating /\ RolesWritten
      /\ FailingBackAsked /\ RolesTogether
  BY DEF IInv, Base
<1>1. /\ ops' = ops
      /\ \/ inst'.primary = inst.primary /\ inst'.secondary = inst.secondary
         \/ inst'.primary = Source /\ inst'.secondary = Target
         \/ \E o \in Op : RoleStatus(inst') = ops[o].role
  BY <1>a, InstanceHandlers
<1>2. inst'.fsm # "FailingBack" /\ (Past => Past')
  BY <1>a, HandlersMove
<1>3. Fresh' /\ Compensating' /\ RolesWritten'
  BY <1>a, <1>1, <1>2 DEF Fresh, Compensating, RolesWritten, Started, InFlight
<1>4. FailingBackAsked'
  BY <1>2 DEF FailingBackAsked
<1>5. ASSUME NEW o \in Op, RoleStatus(inst') = ops[o].role
      PROVE  inst'.primary = NoCluster <=> inst'.secondary = NoCluster
  BY <1>a, <1>5 DEF RolesTogether, RoleStatus
<1>6. RolesTogether'
  BY <1>a, <1>1, <1>5, InstanceAssumption DEF RolesTogether, Cluster
<1> QED BY <1>3, <1>4, <1>6 DEF Base

LEMMA BaseUser ==
  ASSUME IInv, Base, UserStep
  PROVE  Base'
<1>a. /\ TypeOK /\ Fresh /\ Compensating /\ RolesWritten /\ FailingBackAsked /\ RolesTogether
  BY DEF IInv, Base
<1>u. /\ UNCHANGED inst
      /\ \A q \in Op : ops'[q] = ops[q] \/ (ops'[q].step = 0 /\ ops'[q].role = NoRole)
  BY <1>a, UserWrites
<1>p. PICK o \in Op : /\ \A q \in Op \ {o} : ops'[q] = ops[q]
                      /\ Submitting(o) \/ Deleting(o)
  BY <1>a, UserMoves
<1>o. /\ ops'[o].step = 0 /\ ops'[o].ac = "None" /\ ops'[o].state \in {"Pending", "Deleted"}
  BY <1>p DEF Submitting, Deleting
<1>1. Fresh'
  BY <1>a, <1>o, <1>p DEF Fresh
<1>2. Compensating' /\ RolesWritten'
  BY <1>a, <1>o, <1>p, <1>u DEF Compensating, RolesWritten, Started, InFlight, Past
<1>3. FailingBackAsked'
  <2>1. TypesKept /\ "reprotect" \in OpType
    BY <1>a, UserKeepsTypes DEF OpType
  <2>2. Submitted("reprotect")' = {} => Submitted("reprotect") = {}
    BY <2>1, DisciplineKept
  <2> QED BY <1>a, <1>u, <2>2 DEF FailingBackAsked
<1>4. RolesTogether'
  BY <1>a, <1>u DEF RolesTogether, NoRole
<1> QED BY <1>1, <1>2, <1>3, <1>4 DEF Base

(***************************************************************************)
(* The theorem.                                                            *)
(***************************************************************************)
LEMMA InitDInv == Init => DInv
<1> SUFFICES ASSUME Init PROVE DInv
  OBVIOUS
<1>1. \A o \in Op : ops[o] = NoOperation
  BY DEF Init
<1>2. \A o \in Op : ~InFlight(o) /\ ops[o].type = "none"
  BY <1>1 DEF NoOperation, InFlight, isInFlightOperationState
<1>3. Apart
  <2>1. PICK start \in Starts : StartedFrom(start)
    BY DEF Init
  <2> QED BY <2>1, ClusterAssumption DEF StartedFrom, Apart, Cluster
<1>4. Scaling
  BY <1>2, <1>3 DEF Scaling, RoomToFill, Fills, Superseding, Started, InFailingOver,
                    WatchdogKeepsRoles
<1> QED BY <1>4, BaseInit DEF DInv

LEMMA NextDInv ==
  ASSUME IInv, DInv, [Next]_vars
  PROVE  DInv'
<1>1. Base /\ (Disciplined => Scaling)
  BY DEF DInv
<1>2. ASSUME NEW o \in Op, ReconcileOperation(o) PROVE DInv'
  <2>1. Base'
    BY <1>1, <1>2, BaseReconcile
  <2>2. TypesKept
    BY <1>2, ReconcileKeepsTypes DEF IInv
  <2>3. Disciplined' => Scaling'
    BY <1>1, <1>2, <2>1, <2>2, DisciplineKept, ScalingReconcile
  <2> QED BY <2>1, <2>3 DEF DInv
<1>3. CASE ReconcileInstance
  <2>1. Base'
    BY <1>1, <1>3, BaseInstance
  <2>2. ops' = ops
    BY <1>3, InstanceHandlers DEF IInv
  <2>3. Disciplined' => Disciplined
    BY <2>2 DEF Disciplined, SingleUndo, Submitted
  <2> QED BY <1>1, <1>3, <2>1, <2>3, ScalingInstance DEF DInv
<1>4. CASE StartResourceSync \/ DependencyChanges \/ UNCHANGED vars
  <2>1. UNCHANGED <<up, inst, ops>>
    BY <1>4 DEF StartResourceSync, DependencyChanges, ConfigHealthChanges, SyncHealthChanges,
                instanceVars, workloadVars, vars
  <2> QED BY <2>1, OtherSteps
<1>5. CASE UserStep
  <2>1. Base'
    BY <1>1, <1>5, BaseUser
  <2>2. TypesKept
    BY <1>1, <1>5, UserKeepsTypes DEF IInv, Base
  <2>3. Disciplined' => Disciplined /\ Plain'
    BY <2>2, DisciplineKept DEF Disciplined, Plain
  <2>4. Disciplined' => Scaling'
    BY <1>1, <1>5, <2>3, ScalingUser
  <2> QED BY <2>1, <2>4 DEF DInv
<1> QED BY <1>2, <1>3, <1>4, <1>5 DEF Next

\* The application never runs in both clusters: for any workloads, number and
\* mixes of operations, faults and interleavings, of users who keep clear of
\* the operations that scale in opposite directions.
THEOREM NeverInBoth == Spec => []NoDualActive
<1>1. IInv /\ DInv /\ [Next]_vars => DInv'
  BY NextDInv
<1>2. DInv => NoDualActive
  BY DEF DInv, Scaling, Apart, NoDualActive
<1> QED BY Invariance, InitDInv, <1>1, <1>2, PTL DEF Spec
=============================================================================
