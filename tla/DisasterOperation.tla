-------------------------- MODULE DisasterOperation --------------------------
(***************************************************************************)
(* The DisasterOperation controller for the operations on one instance:    *)
(* failover with its automatic compensation, reprotect, cancel, undo,      *)
(* pause and resume.                                                       *)
(*                                                                         *)
(* The controller has one worker: operations are reconciled one at a time, *)
(* and one reconciliation is one action.  A reconciliation writes remote   *)
(* workloads and the instance before it writes its own status; if that     *)
(* last write is lost ("lostWrite"), the next reconciliation starts from   *)
(* the old status with the effects in place.                               *)
(***************************************************************************)
EXTENDS DisasterInstance, FiniteSets

CONSTANTS
  Op,       \* the names of DisasterOperation objects
  Mixes,    \* the mixes of operations, by type, that users submit
  MaxTime   \* bound on progress times: twice the failovers and reprotects

OpType == {"failover", "reprotect", "cancel", "undo", "pause", "resume"}

ASSUME OperationAssumption == Mixes \subseteq [OpType -> Nat] /\ MaxTime \in Nat

VARIABLE ops  \* ops[o]: spec and status of operation o

vars == <<up, annot, cm, inst, paused, configReady, syncFailed, ops>>

\* Mutant: cancel scales the source up first.
CancelStepsUpFirst == <<"ScaleUpSource", "ScaleDownTarget", "ResumeSchedules">>

CancelSteps == <<"ScaleDownTarget", "ScaleUpSource", "ResumeSchedules">>

\* Mutant: undo switches the roles before it scales.
UndoStepsRolesFirst == <<"SwitchRoles", "ScaleDownTarget", "ScaleUpSource", "ResumeSchedules">>

UndoSteps == <<"ScaleDownTarget", "ScaleUpSource", "SwitchRoles", "ResumeSchedules">>
ReprotectSteps == <<"PreCheck", "PauseSchedules">>

StepsOf(type) ==
  CASE type = "failover" -> FailoverSteps
    [] type = "cancel" -> CancelSteps
    [] type = "undo" -> UndoSteps
    [] type = "reprotect" -> ReprotectSteps
    [] OTHER -> <<>>

NoRole == [primary |-> NoCluster, secondary |-> NoCluster]

\* step: 0 before status.steps is filled, else the index of the first step
\* that is not Completed; at: the progress time (completion, else start) that
\* the watchdogs compare, as a rank.  late, a history: it was submitted while
\* an operation was in flight that supersedes operations of its type.
Operation ==
  [type : OpType \cup {"none"},
   state : {"Absent", "Pending", "Running", "Completed", "Failed", "Deleted"},
   skipDown : BOOLEAN, late : BOOLEAN, annotated : BOOLEAN,
   step : 0 .. 8, stepState : {"Pending", "Running", "Failed"},
   ac : {"None", "Running", "Succeeded", "Failed", "NotTriggered"},
   acStep : 0 .. 4, acState : {"Pending", "Running", "Failed"},
   manual : BOOLEAN,
   role : [primary : Cluster \cup {NoCluster}, secondary : Cluster \cup {NoCluster}],
   at : Nat]

NoOperation ==
  [type |-> "none", state |-> "Absent", skipDown |-> FALSE, late |-> FALSE, annotated |-> FALSE,
   step |-> 0, stepState |-> "Pending", ac |-> "None", acStep |-> 0,
   acState |-> "Pending", manual |-> FALSE, role |-> NoRole, at |-> 0]

OperationTypeOK == ops \in [Op -> Operation]

isInFlightOperationState(s) == s \in {"Pending", "Running"}
InFlight(o) == isInFlightOperationState(ops[o].state)
Terminal(o) == ops[o].state \in {"Completed", "Failed"}

\* Only the progress times of these types are ever compared.
Timed(type) == type \in {"failover", "reprotect"}

\* The present, as a rank above every progress time given so far.
Now ==
  LET later == {n \in 1 .. MaxTime : \A o \in Op : ops[o].at < n}
  IN IF later = {} THEN MaxTime ELSE CHOOSE n \in later : TRUE

Stamp(op) == IF Timed(op.type) THEN [op EXCEPT !.at = Now] ELSE op

(***************************************************************************)
(* Reconcile: the start of an operation, and taking over from a failover.  *)
(***************************************************************************)

shouldSupersedeOperation(current, candidate) ==
  current \in {"cancel", "undo"} /\ candidate = "failover"

\* Mutant: finished failovers are superseded too.
SupersededAll(o) ==
  [q \in Op |->
     IF q # o /\ shouldSupersedeOperation(ops[o].type, ops[q].type)
     THEN [Stamp(ops[q]) EXCEPT !.state = "Failed"] ELSE ops[q]]

\* supersedeInFlightOperations: ops as a reconciliation of o finds them.
Superseded(o) ==
  [q \in Op |->
     IF /\ q # o /\ InFlight(q)
        /\ shouldSupersedeOperation(ops[o].type, ops[q].type)
     THEN [Stamp(ops[q]) EXCEPT !.state = "Failed",
             !.stepState = IF @ = "Running" THEN "Failed" ELSE @]
     ELSE ops[q]]

\* The last status write of a reconciliation of o.
WriteOperation(o, op) ==
  \/ ops' = [Superseded(o) EXCEPT ![o] = op]
  \/ "lostWrite" \in Faults /\ ops' = Superseded(o)

\* Reconcile of a new operation.
Start(o) ==
  /\ ops[o].state = "Pending"
  /\ ops' = [ops EXCEPT ![o] = [Stamp(ops[o]) EXCEPT !.state = "Running"]]
  /\ UNCHANGED <<workloadVars, instanceVars>>

findOtherInFlightOperation(o) ==
  \E q \in Op \ {o} : ops[q].type = ops[o].type /\ InFlight(q)

(***************************************************************************)
(* Which instance states admit an operation that runs in steps, and the    *)
(* intermediate state that its handler enters first.                       *)
(***************************************************************************)
Stepped(type) == type \in {"failover", "reprotect", "cancel", "undo"}

AdmittedFsm(type) ==
  CASE type = "failover" -> {"Protected", "FailingOver"}
    [] type = "reprotect" -> {"Active", "FailingBack"}
    [] type = "cancel" -> {"FailingOver", "Failed"}
    [] type = "undo" -> {"Active", "FailingOver"}
    [] OTHER -> FsmState

Entered(type) ==
  CASE type = "failover" /\ inst.fsm = "Protected" -> To(inst, "FailingOver")
    [] type = "reprotect" /\ inst.fsm = "Active" -> To(inst, "FailingBack")
    [] OTHER -> inst

\* Mutant: no check for another failover.
ConflictIgnored(o) == FALSE

Conflict(o) == ops[o].type = "failover" /\ findOtherInFlightOperation(o)

Admitted(o) ==
  /\ ops[o].state = "Running" /\ Stepped(ops[o].type)
  /\ ~Conflict(o) /\ inst.fsm \in AdmittedFsm(ops[o].type)

\* Mutant: an instance state that does not admit the operation is waited out.
RejectConflictOnly(o) ==
  /\ ops[o].state = "Running" /\ Stepped(ops[o].type) /\ Conflict(o)
  /\ WriteOperation(o, [Stamp(ops[o]) EXCEPT !.state = "Failed"])
  /\ UNCHANGED <<workloadVars, instanceVars>>

\* The early returns of the handlers; reprotect leaves no completion time.
Reject(o) ==
  /\ ops[o].state = "Running" /\ Stepped(ops[o].type)
  /\ \/ Conflict(o)
     \/ /\ inst.fsm \notin AdmittedFsm(ops[o].type)
        /\ ~(ops[o].type = "cancel" /\ inst.fsm = "Protected")
  /\ WriteOperation(o,
       [IF ops[o].type = "reprotect" THEN ops[o] ELSE Stamp(ops[o])
          EXCEPT !.state = "Failed"])
  /\ UNCHANGED <<workloadVars, instanceVars>>

(***************************************************************************)
(* Filling status.steps and starting the next step.                        *)
(***************************************************************************)

\* A failover first pins the roles it is going to reach, if it knows them.
LockRoles(o) ==
  /\ Admitted(o) /\ ops[o].type = "failover"
  /\ ops[o].step = 0 /\ ~ops[o].annotated
  /\ inst' = Entered("failover")
  /\ WriteOperation(o, [ops[o] EXCEPT !.annotated = (inst.secondary # NoCluster)])
  /\ UNCHANGED <<workloadVars, paused, configReady, syncFailed>>

InitSteps(o) ==
  /\ Admitted(o) /\ ops[o].step = 0
  /\ ops[o].type = "failover" => ops[o].annotated
  /\ inst' = Entered(ops[o].type)
  /\ WriteOperation(o, [ops[o] EXCEPT !.step = 1])
  /\ UNCHANGED <<workloadVars, paused, configReady, syncFailed>>

\* The step loop of o is at step ops[o].step, in state s.
AtStep(o, s) ==
  /\ Admitted(o) /\ ops[o].ac # "Running"
  /\ ops[o].step \in 1 .. Len(StepsOf(ops[o].type)) /\ ops[o].stepState = s

StartStep(o) ==
  /\ AtStep(o, "Pending")
  /\ inst' = Entered(ops[o].type)
  /\ WriteOperation(o, [ops[o] EXCEPT !.stepState = "Running"])
  /\ UNCHANGED <<workloadVars, paused, configReady, syncFailed>>

(***************************************************************************)
(* The steps.  complete = FALSE: the step returned an error.               *)
(***************************************************************************)
PrimaryCluster == IF inst.primary = NoCluster THEN Source ELSE inst.primary
SecondaryCluster == IF inst.secondary = NoCluster THEN Target ELSE inst.secondary

\* DataSync first, then ResourceSync.
executePauseSchedules(complete) ==
  IF complete THEN paused' = Syncs
  ELSE paused' \in {paused, paused \cup {"data"}}

executeResumeSchedules(complete) ==
  IF complete THEN paused' = {}
  ELSE paused' \in {paused, paused \ {"data"}}

\* executeScaleDownSource; skipDown is honoured whatever the operation type.
ScaleDownPrimary(op, complete) ==
  \/ op.skipDown /\ complete /\ UNCHANGED workloadVars
  \/ /\ ~op.skipDown
     /\ \E recorded \in {TRUE} \cup {b \in {FALSE} : "stepError" \in Faults} :
          executeScaleDownSource(PrimaryCluster, complete, recorded)

executeFailoverStep(op, name, complete) ==
  \/ /\ name \in {"PreCheck", "FinalSync"}
     /\ UNCHANGED <<workloadVars, paused>>
  \/ /\ name = "PauseSchedules" /\ executePauseSchedules(complete)
     /\ UNCHANGED workloadVars
  \/ name = "ScaleDownSource" /\ ScaleDownPrimary(op, complete) /\ UNCHANGED paused
  \/ name = "ScaleUpTarget" /\ doScaleUp(SecondaryCluster, complete) /\ UNCHANGED paused
  \/ /\ name = "CheckReplicas" /\ (complete => checkReplicas(SecondaryCluster))
     /\ UNCHANGED <<workloadVars, paused>>
  \/ name = "SwitchRoles" /\ complete /\ UNCHANGED <<workloadVars, paused>>

\* Cancel, and the compensation of a failover, name the clusters of the
\* DisasterConfig and not the current roles.
executeCancelStep(name, complete) ==
  \/ name = "ScaleDownTarget" /\ doScaleDown(Target, complete) /\ UNCHANGED paused
  \/ name = "ScaleUpSource" /\ doScaleUp(Source, complete) /\ UNCHANGED paused
  \/ /\ name = "ResumeSchedules" /\ executeResumeSchedules(complete)
     /\ UNCHANGED workloadVars

executeUndoStep(op, name, complete) ==
  \/ name = "ScaleDownTarget" /\ ScaleDownPrimary(op, complete) /\ UNCHANGED paused
  \/ name = "ScaleUpSource" /\ doScaleUp(SecondaryCluster, complete) /\ UNCHANGED paused
  \/ name = "SwitchRoles" /\ UNCHANGED <<workloadVars, paused>>
  \/ /\ name = "ResumeSchedules" /\ executeResumeSchedules(complete)
     /\ UNCHANGED workloadVars

ExecuteStep(op, name, complete) ==
  \/ op.type \in {"failover", "reprotect"} /\ executeFailoverStep(op, name, complete)
  \/ op.type = "cancel" /\ executeCancelStep(name, complete)
  \/ op.type = "undo" /\ executeUndoStep(op, name, complete)

CurrentName(o) == StepsOf(ops[o].type)[ops[o].step]

\* The roles of the DisasterConfig, written by undo's SwitchRoles.
SwitchedBack(op, name, i) ==
  IF op.type = "undo" /\ name = "SwitchRoles"
  THEN [i EXCEPT !.primary = Source, !.secondary = Target] ELSE i

StepDone(o) ==
  /\ AtStep(o, "Running")
  /\ ExecuteStep(ops[o], CurrentName(o), TRUE)
  /\ inst' = SwitchedBack(ops[o], CurrentName(o), Entered(ops[o].type))
  /\ WriteOperation(o, [ops[o] EXCEPT !.step = @ + 1, !.stepState = "Pending"])
  /\ UNCHANGED <<configReady, syncFailed>>

\* Cancel scales the source up and then waits for the pods to be ready.
StepWaits(o) ==
  /\ AtStep(o, "Running") /\ ops[o].type = "cancel" /\ CurrentName(o) = "ScaleUpSource"
  /\ executeCancelStep("ScaleUpSource", TRUE)
  /\ ops' = Superseded(o)
  /\ UNCHANGED instanceVars

\* A step that fails: by its error, having done part of its work, or by the
\* timeout that is checked before the step runs.
StepFails(o, name) ==
  \/ "stepError" \in Faults /\ ExecuteStep(ops[o], name, FALSE)
  \/ "timeout" \in Faults /\ UNCHANGED <<workloadVars, paused>>

(***************************************************************************)
(* A failed step.                                                          *)
(***************************************************************************)
resolveFailoverAutoCancelMode(name) ==
  CASE name = "PreCheck" -> "DirectRollback"
    [] name \in {"PauseSchedules", "FinalSync", "ScaleDownSource",
                 "ScaleUpTarget", "CheckReplicas"} -> "CancelPath"
    [] OTHER -> "NoAutoCancel"

\* Settling only leaves the intermediate state of the operation's own type;
\* undo has none and settles from every state.
settleInstanceStateOnStepFailure(type, name, i) ==
  IF \/ type \in {"failover", "cancel"} /\ i.fsm # "FailingOver"
     \/ type = "reprotect" /\ i.fsm # "FailingBack"
  THEN i
  ELSE IF type = "failover" /\ resolveFailoverAutoCancelMode(name) = "DirectRollback"
       THEN To(i, "Protected") ELSE ToFailed(i, "StepFailed")

\* An error of the settling write is only logged.
Settle(type, name, i) ==
  \/ inst' = settleInstanceStateOnStepFailure(type, name, i)
  \/ "lostWrite" \in Faults /\ inst' = i

\* Mutant: the role status lacks the secondary.
RoleStatusPrimaryOnly(i) == [primary |-> i.primary]

RoleStatus(i) == [primary |-> i.primary, secondary |-> i.secondary]

FailedAtStep(op) == [Stamp(op) EXCEPT !.state = "Failed", !.stepState = "Failed"]

\* handleFailoverStepFailure and the three ways it goes on.
FailFailoverStep(o) ==
  /\ AtStep(o, "Running") /\ ops[o].type = "failover"
  /\ StepFails(o, CurrentName(o))
  /\ LET mode == resolveFailoverAutoCancelMode(CurrentName(o))
         i == Entered("failover")
     IN \/ /\ mode = "DirectRollback"
           /\ Settle("failover", CurrentName(o), i)
           /\ WriteOperation(o, [FailedAtStep(ops[o]) EXCEPT
                !.ac = "Succeeded", !.role = RoleStatus(i)])
        \/ /\ mode = "CancelPath" /\ inst' = i
           /\ WriteOperation(o, [ops[o] EXCEPT
                !.stepState = "Failed", !.ac = "Running", !.acStep = 1,
                !.acState = "Pending", !.manual = FALSE])
        \/ /\ mode = "NoAutoCancel"
           /\ Settle("failover", CurrentName(o), i)
           /\ WriteOperation(o, [FailedAtStep(ops[o]) EXCEPT
                !.ac = "NotTriggered", !.manual = TRUE])
  /\ UNCHANGED <<configReady, syncFailed>>

\* The other stepped operations simply fail.
FailStep(o) ==
  /\ AtStep(o, "Running") /\ ops[o].type # "failover"
  /\ StepFails(o, CurrentName(o))
  /\ Settle(ops[o].type, CurrentName(o), Entered(ops[o].type))
  /\ WriteOperation(o, FailedAtStep(ops[o]))
  /\ UNCHANGED <<configReady, syncFailed>>

(***************************************************************************)
(* handleFailoverAutoCancelPath: the cancel steps inside the failover.     *)
(***************************************************************************)
AtAutoCancelStep(o, s) ==
  /\ Admitted(o) /\ ops[o].ac = "Running"
  /\ ops[o].acStep \in 1 .. Len(CancelSteps) /\ ops[o].acState = s

StartAutoCancelStep(o) ==
  /\ AtAutoCancelStep(o, "Pending")
  /\ inst' = Entered("failover")
  /\ WriteOperation(o, [ops[o] EXCEPT !.acState = "Running"])
  /\ UNCHANGED <<workloadVars, paused, configReady, syncFailed>>

AutoCancelStepDone(o) ==
  /\ AtAutoCancelStep(o, "Running")
  /\ executeCancelStep(CancelSteps[ops[o].acStep], TRUE)
  /\ inst' = Entered("failover")
  /\ WriteOperation(o, [ops[o] EXCEPT !.acStep = @ + 1, !.acState = "Pending"])
  /\ UNCHANGED <<configReady, syncFailed>>

AutoCancelStepWaits(o) ==
  /\ AtAutoCancelStep(o, "Running") /\ CancelSteps[ops[o].acStep] = "ScaleUpSource"
  /\ executeCancelStep("ScaleUpSource", TRUE)
  /\ inst' = Entered("failover")
  /\ UNCHANGED <<ops, configReady, syncFailed>>

failFailoverAutoCancel(o) ==
  /\ AtAutoCancelStep(o, "Running")
  /\ LET name == CancelSteps[ops[o].acStep] IN
     /\ \/ "stepError" \in Faults /\ executeCancelStep(name, FALSE)
        \/ "timeout" \in Faults /\ UNCHANGED <<workloadVars, paused>>
     /\ Settle("cancel", name, Entered("failover"))
  /\ WriteOperation(o, [Stamp(ops[o]) EXCEPT
       !.state = "Failed", !.ac = "Failed", !.acState = "Failed", !.manual = TRUE])
  /\ UNCHANGED <<configReady, syncFailed>>

completeFailoverAutoCancel(o) ==
  /\ Admitted(o) /\ ops[o].ac = "Running" /\ ops[o].acStep = Len(CancelSteps) + 1
  /\ inst' = To(inst, "Protected")
  /\ WriteOperation(o, [Stamp(ops[o]) EXCEPT
       !.state = "Failed", !.ac = "Succeeded", !.manual = FALSE,
       !.role = RoleStatus(inst)])
  /\ UNCHANGED <<workloadVars, paused, configReady, syncFailed>>

(***************************************************************************)
(* All steps completed.                                                    *)
(***************************************************************************)
AllStepsDone(o) ==
  /\ Admitted(o) /\ ops[o].ac # "Running"
  /\ ops[o].step = Len(StepsOf(ops[o].type)) + 1

\* Mutant: the secondary is not rewritten.
FinishedHalfSwapped(type) ==
  IF type = "failover" THEN [To(inst, "Active") EXCEPT !.primary = inst.secondary]
  ELSE To(inst, "Protected")

\* The instance as the end of the operation writes it.
Finished(type) ==
  IF type = "failover"
  THEN [To(inst, "Active") EXCEPT !.primary = inst.secondary, !.secondary = inst.primary]
  ELSE To(inst, "Protected")

\* Reprotect resumes the schedules in this last reconciliation.
Finish(o) ==
  /\ AllStepsDone(o)
  /\ inst' = Finished(ops[o].type)
  /\ paused' = IF ops[o].type = "reprotect" THEN {} ELSE paused
  /\ WriteOperation(o, [Stamp(ops[o]) EXCEPT
       !.state = "Completed", !.role = RoleStatus(Finished(ops[o].type))])
  /\ UNCHANGED <<workloadVars, configReady, syncFailed>>

CallsMayFail == Faults \cap {"stepError", "lostWrite"} # {}

\* Reprotect's last reconciliation ends early, with the schedules partly or
\* all resumed and before the instance is written; it is retried.
FinishRetried(o) ==
  /\ AllStepsDone(o) /\ ops[o].type = "reprotect" /\ CallsMayFail
  /\ \E complete \in BOOLEAN : executeResumeSchedules(complete)
  /\ inst' = Entered("reprotect")
  /\ UNCHANGED <<workloadVars, configReady, syncFailed, ops>>

(***************************************************************************)
(* Cancel of an instance that is already Protected; pause and resume,      *)
(* which ask for no instance state at all.                                 *)
(***************************************************************************)
CancelProtected(o) ==
  /\ ops[o].state = "Running" /\ ops[o].type = "cancel" /\ inst.fsm = "Protected"
  /\ \/ /\ executeResumeSchedules(TRUE)
        /\ WriteOperation(o, [ops[o] EXCEPT
             !.state = "Completed", !.step = Len(CancelSteps) + 1,
             !.stepState = "Pending", !.role = RoleStatus(inst)])
     \/ /\ "stepError" \in Faults /\ executeResumeSchedules(FALSE)
        /\ WriteOperation(o, [ops[o] EXCEPT !.state = "Failed"])
  /\ UNCHANGED <<workloadVars, inst, configReady, syncFailed>>

\* An error while pausing a sync is only logged.
handlePause(o) ==
  /\ ops[o].state = "Running" /\ ops[o].type = "pause"
  /\ \/ paused' = Syncs
     \/ "stepError" \in Faults /\ paused' \in {paused \cup s : s \in SUBSET Syncs}
  /\ \/ /\ inst' = To(inst, "Paused")
        /\ WriteOperation(o, [ops[o] EXCEPT !.state = "Completed"])
     \/ "lostWrite" \in Faults /\ UNCHANGED <<inst, ops>>
  /\ UNCHANGED <<workloadVars, configReady, syncFailed>>

handleResume(o) ==
  /\ ops[o].state = "Running" /\ ops[o].type = "resume"
  /\ \/ /\ executeResumeSchedules(TRUE)
        /\ inst' = To(inst, "Protected")
        /\ WriteOperation(o, [ops[o] EXCEPT !.state = "Completed"])
     \/ /\ CallsMayFail /\ \E complete \in BOOLEAN : executeResumeSchedules(complete)
        /\ UNCHANGED <<inst, ops>>
  /\ UNCHANGED <<workloadVars, configReady, syncFailed>>

(***************************************************************************)
(* One reconciliation of o.                                                *)
(***************************************************************************)
ReconcileOperation(o) ==
  \/ Start(o)
  \/ Reject(o)
  \/ LockRoles(o)
  \/ InitSteps(o)
  \/ StartStep(o)
  \/ StepDone(o)
  \/ StepWaits(o)
  \/ FailFailoverStep(o)
  \/ FailStep(o)
  \/ StartAutoCancelStep(o)
  \/ AutoCancelStepDone(o)
  \/ AutoCancelStepWaits(o)
  \/ failFailoverAutoCancel(o)
  \/ completeFailoverAutoCancel(o)
  \/ Finish(o)
  \/ FinishRetried(o)
  \/ CancelProtected(o)
  \/ handlePause(o)
  \/ handleResume(o)

(***************************************************************************)
(* The users.                                                              *)
(***************************************************************************)
Submitted(type) == {o \in Op : ops[o].type = type}

Submit(o, type, skip) ==
  /\ ops[o].state = "Absent"
  /\ \E mix \in Mixes :
       /\ Cardinality(Submitted(type)) < mix[type]
       /\ \A t \in OpType : Cardinality(Submitted(t)) <= mix[t]
  /\ ops' = [ops EXCEPT ![o] = [NoOperation EXCEPT
       !.type = type, !.state = "Pending", !.skipDown = skip,
       !.late = \E q \in Op : InFlight(q) /\ shouldSupersedeOperation(ops[q].type, type)]]
  /\ UNCHANGED <<workloadVars, instanceVars>>

\* What was asked for, and when, stays as history.
DeleteOperation(o) ==
  /\ ops[o].state \notin {"Absent", "Deleted"}
  /\ ops' = [ops EXCEPT ![o] = [NoOperation EXCEPT
       !.type = ops[o].type, !.state = "Deleted",
       !.skipDown = ops[o].skipDown, !.late = ops[o].late]]
  /\ UNCHANGED <<workloadVars, instanceVars>>
=============================================================================
