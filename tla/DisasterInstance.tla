-------------------------- MODULE DisasterInstance --------------------------
(***************************************************************************)
(* The DisasterInstance controller: the state machine in                   *)
(* DisasterInstance.status, its configuration guard, the health check of   *)
(* the steady states with the role-drift guard, the recovery from Failed,  *)
(* and the watchdogs of FailingOver and FailingBack.                       *)
(*                                                                         *)
(* Every handler reads the instance, decides and ends in one status write. *)
(* The API server rejects that write when the instance has changed         *)
(* meanwhile, and the handler starts again; a watchdog re-reads the        *)
(* instance and writes only if it is still in the same intermediate state. *)
(* So a handler is one atomic action.                                      *)
(***************************************************************************)
EXTENDS ClusterWorkloads, Naturals, Sequences

CONSTANTS
  NoCluster,  \* the empty cluster name of a status not yet filled in
  Faults      \* the failures the environment may cause, of FaultKinds

\* lostWrite: a status write is refused or the operator restarts before it;
\* stepError: a call of a step fails half-way (with lostWrite: the operator
\* stops in the middle of a step);  timeout: a step times out;
\* config, sync: DisasterConfig / the syncs become unhealthy (and recover).
FaultKinds == {"lostWrite", "stepError", "timeout", "config", "sync"}

ASSUME InstanceAssumption ==
  /\ NoCluster \notin Cluster
  /\ Faults \subseteq FaultKinds

VARIABLES
  inst,         \* DisasterInstance.status
  paused,       \* the syncs whose spec.paused is set, of Syncs
  configReady,  \* evaluateConfigHealth of the DisasterConfig
  syncFailed    \* evaluateSteadySyncHealth: a DataSync or ResourceSync failed

instanceVars == <<inst, paused, configReady, syncFailed>>

Syncs == {"data", "resource"}

FsmState == {"Pending", "Initializing", "Protected", "Paused", "FailingOver",
             "Active", "FailingBack", "Failed", "ConfigError"}

\* The reasons of Failed that the controller treats differently.  A reason is
\* only read in Failed, and every write of Failed sets it: it is "" elsewhere.
Reason == {"", "SyncFailed", "RoleDriftDetected", "StepFailed",
           "OperationFailed", "OperationMissing"}

InstanceStatus ==
  [fsm : FsmState, primary : Cluster \cup {NoCluster},
   secondary : Cluster \cup {NoCluster}, reason : Reason,
   lastStable : FsmState \cup {""}]

InstanceTypeOK ==
  /\ inst \in InstanceStatus
  /\ paused \subseteq Syncs
  /\ configReady \in BOOLEAN
  /\ syncFailed \in BOOLEAN

\* A status write that moves the instance to state s and clears the error.
To(i, s) == [i EXCEPT !.fsm = s, !.reason = ""]

\* helper.SetStatusError together with the move to Failed.
ToFailed(i, r) == [i EXCEPT !.fsm = "Failed", !.reason = r]

WithRoles(i, role) ==
  IF role.primary = NoCluster THEN i
  ELSE [i EXCEPT !.primary = role.primary, !.secondary = role.secondary]

(***************************************************************************)
(* guardByConfigHealth runs before the handler of every managed state.     *)
(***************************************************************************)
isConfigGuardManagedState(s) ==
  s \in {"Pending", "Initializing", "Protected", "Paused", "Active", "ConfigError"}

\* Mutant: an instance already in ConfigError is guarded again.
guardByConfigHealthAgain ==
  /\ isConfigGuardManagedState(inst.fsm)
  /\ \/ /\ ~configReady
        /\ inst' = [To(inst, "ConfigError") EXCEPT !.lastStable = inst.fsm]
     \/ /\ inst.fsm = "ConfigError" /\ configReady /\ inst.lastStable # ""
        /\ inst' = [To(inst, inst.lastStable) EXCEPT !.lastStable = ""]
  /\ UNCHANGED <<paused, configReady, syncFailed>>

guardByConfigHealth ==
  /\ isConfigGuardManagedState(inst.fsm)
  /\ \/ /\ inst.fsm # "ConfigError" /\ ~configReady
        /\ inst' = [To(inst, "ConfigError") EXCEPT !.lastStable = inst.fsm]
     \/ /\ inst.fsm = "ConfigError" /\ configReady /\ inst.lastStable # ""
        /\ inst' = [To(inst, inst.lastStable) EXCEPT !.lastStable = ""]
  /\ UNCHANGED <<paused, configReady, syncFailed>>

(***************************************************************************)
(* Initialisation.                                                         *)
(***************************************************************************)
handlePending ==
  /\ inst.fsm = "Pending" /\ configReady
  /\ inst' = [To(inst, "Initializing") EXCEPT !.primary = Source, !.secondary = Target]
  /\ UNCHANGED <<paused, configReady, syncFailed>>

\* Both syncs have run once: the first ResourceSync has recorded the counts.
hasSynced == \E w \in Workload : cm[w] # "absent"

handleInitializing ==
  /\ inst.fsm = "Initializing" /\ configReady /\ (syncFailed \/ hasSynced)
  /\ inst' = IF syncFailed THEN ToFailed(inst, "SyncFailed") ELSE To(inst, "Protected")
  /\ UNCHANGED <<paused, configReady, syncFailed>>

(***************************************************************************)
(* Steady states.  Role drift: RoleReversed and BothStandby are hard       *)
(* failures, two active clusters are only observed.                        *)
(***************************************************************************)
rolesKnown == inst.primary # NoCluster /\ inst.secondary # NoCluster

hardRoleDrift == rolesKnown /\ sampleClusterReplicaRole(inst.primary) = "Standby"

noRoleDrift == rolesKnown /\ sampleClusterReplicaRole(inst.primary) = "Active"

\* The health check of a steady state: the syncs first, then the roles.
SteadyFailure ==
  \/ syncFailed /\ inst' = ToFailed(inst, "SyncFailed")
  \/ ~syncFailed /\ hardRoleDrift /\ inst' = ToFailed(inst, "RoleDriftDetected")

handleProtected ==
  /\ inst.fsm = "Protected" /\ configReady /\ SteadyFailure
  /\ UNCHANGED <<paused, configReady, syncFailed>>

handleActive ==
  /\ inst.fsm = "Active" /\ configReady /\ SteadyFailure
  /\ UNCHANGED <<paused, configReady, syncFailed>>

resolveRecoveredSteadyState ==
  IF inst.primary = Target /\ inst.secondary = Source THEN "Active" ELSE "Protected"

handleFailed ==
  /\ inst.fsm = "Failed"
  /\ \/ inst.reason = "RoleDriftDetected" /\ noRoleDrift
     \/ inst.reason = "SyncFailed" /\ ~syncFailed /\ hasSynced
  /\ inst' = To(inst, resolveRecoveredSteadyState)
  /\ UNCHANGED <<paused, configReady, syncFailed>>

(***************************************************************************)
(* Watchdogs.  running: an operation of the type is in flight; terminal:   *)
(* the finished operations of the type with the latest progress time.      *)
(***************************************************************************)
FailoverSteps == <<"PreCheck", "PauseSchedules", "FinalSync", "ScaleDownSource",
                   "ScaleUpTarget", "CheckReplicas", "SwitchRoles">>

\* The step marked Failed, else CurrentStep: the step that was started last.
failoverFailedStep(op) ==
  CASE op.step = 0 -> ""
    [] op.step = 1 -> FailoverSteps[1]
    [] op.step > 1 /\ op.stepState = "Pending" -> FailoverSteps[op.step - 1]
    [] OTHER -> FailoverSteps[op.step]

shouldRollbackFailoverStepToProtected(step) ==
  step \in {"PreCheck", "PauseSchedules", "FinalSync"}

\* Mutant: a failover whose operations are all gone is waited for.
handleFailingOverWaiting(running, terminal) ==
  /\ inst.fsm = "FailingOver" /\ ~running
  /\ \E op \in terminal :
       \/ op.ac = "Succeeded" /\ inst' = WithRoles(To(inst, "Protected"), op.role)
       \/ op.state = "Completed" /\ inst' = WithRoles(To(inst, "Active"), op.role)
       \/ /\ op.state = "Failed" /\ op.ac # "Succeeded"
          /\ inst' = IF shouldRollbackFailoverStepToProtected(failoverFailedStep(op))
                     THEN To(inst, "Protected") ELSE ToFailed(inst, "OperationFailed")
  /\ UNCHANGED <<paused, configReady, syncFailed>>

handleFailingOver(running, terminal) ==
  /\ inst.fsm = "FailingOver" /\ ~running
  /\ \/ terminal = {} /\ inst' = ToFailed(inst, "OperationMissing")
     \/ \E op \in terminal :
          \/ op.ac = "Succeeded" /\ inst' = WithRoles(To(inst, "Protected"), op.role)
          \/ op.state = "Completed" /\ inst' = WithRoles(To(inst, "Active"), op.role)
          \/ /\ op.state = "Failed" /\ op.ac # "Succeeded"
             /\ inst' = IF shouldRollbackFailoverStepToProtected(failoverFailedStep(op))
                        THEN To(inst, "Protected") ELSE ToFailed(inst, "OperationFailed")
  /\ UNCHANGED <<paused, configReady, syncFailed>>

handleFailingBack(running, terminal) ==
  /\ inst.fsm = "FailingBack" /\ ~running
  /\ \/ terminal = {} /\ inst' = ToFailed(inst, "OperationMissing")
     \/ \E op \in terminal :
          \/ op.state = "Completed" /\ inst' = WithRoles(To(inst, "Protected"), op.role)
          \/ op.state = "Failed" /\ inst' = ToFailed(inst, "OperationFailed")
  /\ UNCHANGED <<paused, configReady, syncFailed>>

(***************************************************************************)
(* The dependencies of the instance.                                       *)
(***************************************************************************)
ConfigHealthChanges ==
  /\ "config" \in Faults /\ configReady' = ~configReady
  /\ UNCHANGED <<inst, paused, syncFailed>>

SyncHealthChanges ==
  /\ "sync" \in Faults /\ syncFailed' = ~syncFailed
  /\ UNCHANGED <<inst, paused, configReady>>
=============================================================================
